--------------------------- MODULE DispatchProofs ---------------------------
(***************************************************************************)
(* The drain's safety, proved for any number of writes of any mix of       *)
(* tools, any attempt limit and any number of crashes.                     *)
(***************************************************************************)
EXTENDS Dispatch, TLAPS

USE DispatchAssumption
USE DEF Effects, Many, OneMore, Statuses, Outcomes, Entries, Working, Stopped,
        NoRow, OpenRow, SentRow, NeverSentRow, durable, world, local

(***************************************************************************)
(* The inductive invariant: the properties the runs check, and what links  *)
(* them - which shapes a row can have, and what the process's own memory   *)
(* (maybeSent, earlier) says of the write it is working on.                *)
(***************************************************************************)

RowShapes ==
  \A e \in Effects :
    /\ row[e].status = "none" =>
         row[e].outcome = "unknown" /\ landed[e] = 0 /\ e \notin stray
    /\ row[e].status = "in_flight" => row[e].outcome \in {"unknown", "not_sent"}
    /\ row[e].status = "dispatched" => row[e].outcome = "settled"
    /\ row[e].status = "dead_letter" => row[e].outcome \in {"settled", "not_sent"}

\* A durable "no" stands on a row still marked so, or on one armed again.
DenialsStand ==
  \A e \in Effects : entry[e] = "no" =>
    row[e].outcome = "not_sent" \/ row[e] = OpenRow

\* The drain has passed only writes that are recorded as delivered.
CursorBehind ==
  pc \notin Stopped => \A d \in 1 .. cur - 1 : row[d].status = "dispatched"

Untouched(e) == landed[e] = 0 /\ e \notin stray

AtWork ==
  pc \in Working =>
    /\ row[cur].status \in {"in_flight", "dead_letter"}
    /\ pc # "bury" => row[cur].outcome # "not_sent"
    /\ pc \in {"taken", "settle"} => landed[cur] > 0
    /\ pc \in {"send", "out"} /\ cur \notin Idempotent =>
         Untouched(cur) /\ ~maybeSent
    /\ pc \in {"send", "out", "mark", "bury"} /\ ~maybeSent /\ ~earlier =>
         Untouched(cur)
    /\ pc = "taken" /\ cur \notin Idempotent => cur \notin stray
    /\ pc = "ask" => cur \notin Idempotent /\ earlier
    /\ pc = "askAgain" => cur \notin Idempotent /\ maybeSent
    /\ pc = "mark" => ~maybeSent /\ ~earlier
    /\ pc = "bury" /\ row[cur].outcome = "not_sent" => ~maybeSent /\ ~earlier

IInv ==
  /\ TypeOK
  /\ RowShapes
  /\ DenialsStand
  /\ CursorBehind
  /\ AtWork
  /\ AtMostOnce
  /\ NotSentIsTrue
  /\ JournalTellsTheTruth
  /\ PrefixDelivered

-----------------------------------------------------------------------------

\* The drain starts from a run with no claim, nothing landed and nothing out.
LEMMA Initially == Init => IInv
<1> SUFFICES ASSUME Init PROVE IInv
  OBVIOUS
<1>1. try \in 1 .. MaxAttempts /\ crashes \in 0 .. MaxCrashes /\ cur \in 1 .. Last + 1
  BY DEF Init
<1>2. maybeSent \in BOOLEAN /\ earlier \in BOOLEAN /\ asked \in BOOLEAN
  BY Zenon DEF Init
<1>3. TypeOK
  BY <1>1, <1>2 DEF Init, TypeOK
<1>4. RowShapes /\ DenialsStand /\ CursorBehind /\ AtWork /\ PrefixDelivered
  BY DEF Init, RowShapes, CursorBehind, Stopped, DenialsStand, AtWork, PrefixDelivered
<1>5. AtMostOnce /\ NotSentIsTrue /\ JournalTellsTheTruth
  BY DEF Init, AtMostOnce, NotSentIsTrue, JournalTellsTheTruth
<1> QED
  BY <1>3, <1>4, <1>5 DEF IInv

\* A dispatch call starts with nothing tried, whatever it was told.
LEMMA FreshMemory ==
  ASSUME NEW again \in BOOLEAN, NEW ambiguous \in BOOLEAN,
         Afresh(again, ambiguous)
  PROVE  /\ try' \in 1 .. MaxAttempts
         /\ maybeSent' \in BOOLEAN
         /\ earlier' \in BOOLEAN
         /\ asked' \in BOOLEAN
<1>1. try' \in 1 .. MaxAttempts
  BY DEF Afresh
<1>2. maybeSent' \in BOOLEAN /\ earlier' \in BOOLEAN /\ asked' \in BOOLEAN
  BY Zenon DEF Afresh
<1> QED
  BY <1>1, <1>2

\* Starting and dying: only the process's own memory goes, and a request it had
\* out may become one that no one waits for.
LEMMA ProcessSteps ==
  ASSUME IInv, Resume \/ Crash
  PROVE  IInv'
<1>1. CASE Resume
  <2>0. /\ try' \in 1 .. MaxAttempts
        /\ maybeSent' \in BOOLEAN /\ earlier' \in BOOLEAN /\ asked' \in BOOLEAN
    BY <1>1, FreshMemory, Zenon DEF Resume
  <2>1. TypeOK'
    BY <1>1, <2>0 DEF IInv, TypeOK, Resume
  <2>2. (RowShapes /\ DenialsStand /\ CursorBehind /\ PrefixDelivered)'
    BY <1>1 DEF IInv, TypeOK, RowShapes, DenialsStand, CursorBehind,
       PrefixDelivered, AtWork, Untouched, Resume, Afresh
  <2>3. AtWork'
    BY <1>1 DEF IInv, TypeOK, RowShapes, AtWork, Untouched, AtMostOnce,
       NotSentIsTrue, PrefixDelivered, Resume, Afresh
  <2>4. (AtMostOnce /\ NotSentIsTrue /\ JournalTellsTheTruth)'
    BY <1>1 DEF IInv, TypeOK, RowShapes, DenialsStand, AtWork, Untouched,
       AtMostOnce, NotSentIsTrue, JournalTellsTheTruth, Resume, Afresh
  <2> QED
    BY <2>1, <2>2, <2>3, <2>4 DEF IInv
<1>2. CASE Crash
  <2>1. TypeOK'
    BY <1>2 DEF IInv, TypeOK, Crash
  <2>2. (RowShapes /\ DenialsStand /\ CursorBehind /\ PrefixDelivered)'
    BY <1>2 DEF IInv, TypeOK, RowShapes, DenialsStand, CursorBehind,
       PrefixDelivered, AtWork, Untouched, Crash
  <2>3. AtWork'
    BY <1>2 DEF IInv, TypeOK, RowShapes, AtWork, Untouched, AtMostOnce,
       NotSentIsTrue, PrefixDelivered, Crash
  <2>4. (AtMostOnce /\ NotSentIsTrue /\ JournalTellsTheTruth)'
    BY <1>2 DEF IInv, TypeOK, RowShapes, DenialsStand, AtWork, Untouched,
       AtMostOnce, NotSentIsTrue, JournalTellsTheTruth, Crash
  <2> QED
    BY <2>1, <2>2, <2>3, <2>4 DEF IInv
<1> QED
  BY <1>1, <1>2

\* Claiming: a write is taken up only when everything ahead of it is delivered,
\* and the claim says which of the world's states the process may assume.
LEMMA ClaimSteps ==
  ASSUME IInv, ClaimNew \/ ClaimDelivered \/ ClaimRetrySafe \/ ClaimAmbiguous \/ FinishDrain
  PROVE  IInv'
<1>1. CASE ClaimNew
  <2>0. /\ try' \in 1 .. MaxAttempts
        /\ maybeSent' \in BOOLEAN /\ earlier' \in BOOLEAN /\ asked' \in BOOLEAN
    BY <1>1, FreshMemory, Zenon DEF ClaimNew
  <2>1. TypeOK'
    BY <1>1, <2>0 DEF IInv, TypeOK, ClaimNew, AtClaim
  <2>2. (RowShapes /\ DenialsStand /\ CursorBehind /\ PrefixDelivered)'
    BY <1>1 DEF IInv, TypeOK, RowShapes, DenialsStand, CursorBehind,
       PrefixDelivered, AtWork, Untouched, ClaimNew, AtClaim, Afresh
  <2>3. AtWork'
    BY <1>1 DEF IInv, TypeOK, RowShapes, AtWork, Untouched, AtMostOnce,
       NotSentIsTrue, PrefixDelivered, ClaimNew, AtClaim, Afresh
  <2>4. (AtMostOnce /\ NotSentIsTrue /\ JournalTellsTheTruth)'
    BY <1>1 DEF IInv, TypeOK, RowShapes, DenialsStand, AtWork, Untouched,
       AtMostOnce, NotSentIsTrue, JournalTellsTheTruth, ClaimNew, AtClaim,
       Afresh
  <2> QED
    BY <2>1, <2>2, <2>3, <2>4 DEF IInv
<1>2. CASE ClaimDelivered
  <2>1. TypeOK'
    BY <1>2 DEF IInv, TypeOK, ClaimDelivered, AtClaim
  <2>2. (RowShapes /\ DenialsStand /\ CursorBehind /\ PrefixDelivered)'
    BY <1>2 DEF IInv, TypeOK, RowShapes, DenialsStand, CursorBehind,
       PrefixDelivered, AtWork, Untouched, ClaimDelivered, AtClaim
  <2>3. AtWork'
    BY <1>2 DEF IInv, TypeOK, RowShapes, AtWork, Untouched, AtMostOnce,
       NotSentIsTrue, PrefixDelivered, ClaimDelivered, AtClaim
  <2>4. (AtMostOnce /\ NotSentIsTrue /\ JournalTellsTheTruth)'
    BY <1>2 DEF IInv, TypeOK, RowShapes, DenialsStand, AtWork, Untouched,
       AtMostOnce, NotSentIsTrue, JournalTellsTheTruth, ClaimDelivered,
       AtClaim
  <2> QED
    BY <2>1, <2>2, <2>3, <2>4 DEF IInv
<1>3. CASE ClaimRetrySafe
  <2>0. /\ try' \in 1 .. MaxAttempts
        /\ maybeSent' \in BOOLEAN /\ earlier' \in BOOLEAN /\ asked' \in BOOLEAN
    BY <1>3, FreshMemory, Zenon DEF ClaimRetrySafe
  <2>1. TypeOK'
    BY <1>3, <2>0 DEF IInv, TypeOK, ClaimRetrySafe, AtClaim, ProvenUnsent,
       Rearmed
  <2>2. (RowShapes /\ DenialsStand /\ CursorBehind /\ PrefixDelivered)'
    BY <1>3 DEF IInv, TypeOK, RowShapes, DenialsStand, CursorBehind,
       PrefixDelivered, AtWork, Untouched, ClaimRetrySafe, AtClaim,
       ProvenUnsent, Rearmed, Afresh
  <2>3. AtWork'
    BY <1>3 DEF IInv, TypeOK, RowShapes, AtWork, Untouched, AtMostOnce,
       NotSentIsTrue, PrefixDelivered, ClaimRetrySafe, AtClaim,
       ProvenUnsent, Rearmed, Afresh
  <2>4. (AtMostOnce /\ NotSentIsTrue /\ JournalTellsTheTruth)'
    BY <1>3 DEF IInv, TypeOK, RowShapes, DenialsStand, AtWork, Untouched,
       AtMostOnce, NotSentIsTrue, JournalTellsTheTruth, ClaimRetrySafe,
       AtClaim, ProvenUnsent, Rearmed, Afresh
  <2> QED
    BY <2>1, <2>2, <2>3, <2>4 DEF IInv
<1>4. CASE ClaimAmbiguous
  <2>0. /\ try' \in 1 .. MaxAttempts
        /\ maybeSent' \in BOOLEAN /\ earlier' \in BOOLEAN /\ asked' \in BOOLEAN
    BY <1>4, FreshMemory, Zenon DEF ClaimAmbiguous
  <2>1. TypeOK'
    BY <1>4, <2>0 DEF IInv, TypeOK, ClaimAmbiguous, AtClaim, ProvenUnsent,
       AfterAmbiguous
  <2>2. (RowShapes /\ DenialsStand /\ CursorBehind /\ PrefixDelivered)'
    BY <1>4 DEF IInv, TypeOK, RowShapes, DenialsStand, CursorBehind,
       PrefixDelivered, AtWork, Untouched, ClaimAmbiguous, AtClaim,
       ProvenUnsent, AfterAmbiguous, Afresh
  <2>3. AtWork'
    BY <1>4 DEF IInv, TypeOK, RowShapes, AtWork, Untouched, AtMostOnce,
       NotSentIsTrue, PrefixDelivered, ClaimAmbiguous, AtClaim,
       ProvenUnsent, AfterAmbiguous, Afresh
  <2>4. (AtMostOnce /\ NotSentIsTrue /\ JournalTellsTheTruth)'
    BY <1>4 DEF IInv, TypeOK, RowShapes, DenialsStand, AtWork, Untouched,
       AtMostOnce, NotSentIsTrue, JournalTellsTheTruth, ClaimAmbiguous,
       AtClaim, ProvenUnsent, AfterAmbiguous, Afresh
  <2> QED
    BY <2>1, <2>2, <2>3, <2>4 DEF IInv
<1>5. CASE FinishDrain
  <2>1. TypeOK'
    BY <1>5 DEF IInv, TypeOK, FinishDrain
  <2>2. (RowShapes /\ DenialsStand /\ CursorBehind /\ PrefixDelivered)'
    BY <1>5 DEF IInv, TypeOK, RowShapes, DenialsStand, CursorBehind,
       PrefixDelivered, AtWork, Untouched, FinishDrain
  <2>3. AtWork'
    BY <1>5 DEF IInv, TypeOK, RowShapes, AtWork, Untouched, AtMostOnce,
       NotSentIsTrue, PrefixDelivered, FinishDrain
  <2>4. (AtMostOnce /\ NotSentIsTrue /\ JournalTellsTheTruth)'
    BY <1>5 DEF IInv, TypeOK, RowShapes, DenialsStand, AtWork, Untouched,
       AtMostOnce, NotSentIsTrue, JournalTellsTheTruth, FinishDrain
  <2> QED
    BY <2>1, <2>2, <2>3, <2>4 DEF IInv
<1> QED
  BY <1>1, <1>2, <1>3, <1>4, <1>5

\* Asking: an answer of "absent" is what makes a send safe again.
LEMMA AskSteps ==
  ASSUME IInv, HearLanded \/ HearAbsent \/ HearNothing
  PROVE  IInv'
<1>1. CASE HearLanded
  <2>1. TypeOK'
    BY <1>1 DEF IInv, TypeOK, HearLanded, Asking
  <2>2. (RowShapes /\ DenialsStand /\ CursorBehind /\ PrefixDelivered)'
    BY <1>1 DEF IInv, TypeOK, RowShapes, DenialsStand, CursorBehind,
       PrefixDelivered, AtWork, Untouched, HearLanded, Asking
  <2>3. AtWork'
    BY <1>1 DEF IInv, TypeOK, RowShapes, AtWork, Untouched, AtMostOnce,
       NotSentIsTrue, PrefixDelivered, HearLanded, Asking
  <2>4. (AtMostOnce /\ NotSentIsTrue /\ JournalTellsTheTruth)'
    BY <1>1 DEF IInv, TypeOK, RowShapes, DenialsStand, AtWork, Untouched,
       AtMostOnce, NotSentIsTrue, JournalTellsTheTruth, HearLanded, Asking
  <2> QED
    BY <2>1, <2>2, <2>3, <2>4 DEF IInv
<1>2. CASE HearAbsent
  <2>0. /\ try' \in 1 .. MaxAttempts
        /\ maybeSent' \in BOOLEAN /\ earlier' \in BOOLEAN /\ asked' \in BOOLEAN
    BY <1>2, FreshMemory, Zenon DEF HearAbsent
  <2>1. TypeOK'
    BY <1>2, <2>0 DEF IInv, TypeOK, HearAbsent, Asking
  <2>2. (RowShapes /\ DenialsStand /\ CursorBehind /\ PrefixDelivered)'
    BY <1>2 DEF IInv, TypeOK, RowShapes, DenialsStand, CursorBehind,
       PrefixDelivered, AtWork, Untouched, HearAbsent, Asking, Afresh
  <2>3. AtWork'
    BY <1>2 DEF IInv, TypeOK, RowShapes, AtWork, Untouched, AtMostOnce,
       NotSentIsTrue, PrefixDelivered, HearAbsent, Asking, Afresh
  <2>4. (AtMostOnce /\ NotSentIsTrue /\ JournalTellsTheTruth)'
    BY <1>2 DEF IInv, TypeOK, RowShapes, DenialsStand, AtWork, Untouched,
       AtMostOnce, NotSentIsTrue, JournalTellsTheTruth, HearAbsent, Asking,
       Afresh
  <2> QED
    BY <2>1, <2>2, <2>3, <2>4 DEF IInv
<1>3. CASE HearNothing
  <2>1. TypeOK'
    BY <1>3 DEF IInv, TypeOK, HearNothing, Asking
  <2>2. (RowShapes /\ DenialsStand /\ CursorBehind /\ PrefixDelivered)'
    BY <1>3 DEF IInv, TypeOK, RowShapes, DenialsStand, CursorBehind,
       PrefixDelivered, AtWork, Untouched, HearNothing, Asking
  <2>3. AtWork'
    BY <1>3 DEF IInv, TypeOK, RowShapes, AtWork, Untouched, AtMostOnce,
       NotSentIsTrue, PrefixDelivered, HearNothing, Asking
  <2>4. (AtMostOnce /\ NotSentIsTrue /\ JournalTellsTheTruth)'
    BY <1>3 DEF IInv, TypeOK, RowShapes, DenialsStand, AtWork, Untouched,
       AtMostOnce, NotSentIsTrue, JournalTellsTheTruth, HearNothing, Asking
  <2> QED
    BY <2>1, <2>2, <2>3, <2>4 DEF IInv
<1> QED
  BY <1>1, <1>2, <1>3

\* Attempts: a request goes out, is taken, is answered.
LEMMA AttemptSteps ==
  ASSUME IInv, Send \/ Land \/ Reply
  PROVE  IInv'
<1>1. CASE Send
  <2>1. TypeOK'
    BY <1>1 DEF IInv, TypeOK, Send
  <2>2. (RowShapes /\ DenialsStand /\ CursorBehind /\ PrefixDelivered)'
    BY <1>1 DEF IInv, TypeOK, RowShapes, DenialsStand, CursorBehind,
       PrefixDelivered, AtWork, Untouched, Send
  <2>3. AtWork'
    BY <1>1 DEF IInv, TypeOK, RowShapes, AtWork, Untouched, AtMostOnce,
       NotSentIsTrue, PrefixDelivered, Send
  <2>4. (AtMostOnce /\ NotSentIsTrue /\ JournalTellsTheTruth)'
    BY <1>1 DEF IInv, TypeOK, RowShapes, DenialsStand, AtWork, Untouched,
       AtMostOnce, NotSentIsTrue, JournalTellsTheTruth, Send
  <2> QED
    BY <2>1, <2>2, <2>3, <2>4 DEF IInv
<1>2. CASE Land
  <2>1. TypeOK'
    BY <1>2 DEF IInv, TypeOK, Land
  <2>2. (RowShapes /\ DenialsStand /\ CursorBehind /\ PrefixDelivered)'
    BY <1>2 DEF IInv, TypeOK, RowShapes, DenialsStand, CursorBehind,
       PrefixDelivered, AtWork, Untouched, Land
  <2>3. AtWork'
    BY <1>2 DEF IInv, TypeOK, RowShapes, AtWork, Untouched, AtMostOnce,
       NotSentIsTrue, PrefixDelivered, Land
  <2>4. (AtMostOnce /\ NotSentIsTrue /\ JournalTellsTheTruth)'
    BY <1>2 DEF IInv, TypeOK, RowShapes, DenialsStand, AtWork, Untouched,
       AtMostOnce, NotSentIsTrue, JournalTellsTheTruth, Land
  <2> QED
    BY <2>1, <2>2, <2>3, <2>4 DEF IInv
<1>3. CASE Reply
  <2>1. TypeOK'
    BY <1>3 DEF IInv, TypeOK, Reply
  <2>2. (RowShapes /\ DenialsStand /\ CursorBehind /\ PrefixDelivered)'
    BY <1>3 DEF IInv, TypeOK, RowShapes, DenialsStand, CursorBehind,
       PrefixDelivered, AtWork, Untouched, Reply
  <2>3. AtWork'
    BY <1>3 DEF IInv, TypeOK, RowShapes, AtWork, Untouched, AtMostOnce,
       NotSentIsTrue, PrefixDelivered, Reply
  <2>4. (AtMostOnce /\ NotSentIsTrue /\ JournalTellsTheTruth)'
    BY <1>3 DEF IInv, TypeOK, RowShapes, DenialsStand, AtWork, Untouched,
       AtMostOnce, NotSentIsTrue, JournalTellsTheTruth, Reply
  <2> QED
    BY <2>1, <2>2, <2>3, <2>4 DEF IInv
<1> QED
  BY <1>1, <1>2, <1>3

\* Failures: what the process remembers decides between a retry, a question and
\* a dead letter.
LEMMA FailureSteps ==
  ASSUME NEW r \in BOOLEAN, IInv, FailUnsent(r) \/ FailUnknown(r)
  PROVE  IInv'
<1>1. CASE FailUnsent(r)
  <2>1. TypeOK'
    BY <1>1 DEF IInv, TypeOK, FailUnsent, Failed, RepeatIsSafe, AttemptsLeft,
       AfterGivingUp, Sent
  <2>2. (RowShapes /\ DenialsStand /\ CursorBehind /\ PrefixDelivered)'
    BY <1>1 DEF IInv, TypeOK, RowShapes, DenialsStand, CursorBehind,
       PrefixDelivered, AtWork, Untouched, FailUnsent, Failed,
       RepeatIsSafe, AttemptsLeft, AfterGivingUp, Sent
  <2>3. AtWork'
    BY <1>1 DEF IInv, TypeOK, RowShapes, AtWork, Untouched, AtMostOnce,
       NotSentIsTrue, PrefixDelivered, FailUnsent, Failed, RepeatIsSafe,
       AttemptsLeft, AfterGivingUp, Sent
  <2>4. (AtMostOnce /\ NotSentIsTrue /\ JournalTellsTheTruth)'
    BY <1>1 DEF IInv, TypeOK, RowShapes, DenialsStand, AtWork, Untouched,
       AtMostOnce, NotSentIsTrue, JournalTellsTheTruth, FailUnsent, Failed,
       RepeatIsSafe, AttemptsLeft, AfterGivingUp, Sent
  <2> QED
    BY <2>1, <2>2, <2>3, <2>4 DEF IInv
<1>2. CASE FailUnknown(r)
  <2>1. TypeOK'
    BY <1>2 DEF IInv, TypeOK, FailUnknown, Failed, RepeatIsSafe,
       AttemptsLeft, AfterGivingUp, Sent
  <2>2. (RowShapes /\ DenialsStand /\ CursorBehind /\ PrefixDelivered)'
    BY <1>2 DEF IInv, TypeOK, RowShapes, DenialsStand, CursorBehind,
       PrefixDelivered, AtWork, Untouched, FailUnknown, Failed,
       RepeatIsSafe, AttemptsLeft, AfterGivingUp, Sent
  <2>3. AtWork'
    BY <1>2 DEF IInv, TypeOK, RowShapes, AtWork, Untouched, AtMostOnce,
       NotSentIsTrue, PrefixDelivered, FailUnknown, Failed, RepeatIsSafe,
       AttemptsLeft, AfterGivingUp, Sent
  <2>4. (AtMostOnce /\ NotSentIsTrue /\ JournalTellsTheTruth)'
    BY <1>2 DEF IInv, TypeOK, RowShapes, DenialsStand, AtWork, Untouched,
       AtMostOnce, NotSentIsTrue, JournalTellsTheTruth, FailUnknown,
       Failed, RepeatIsSafe, AttemptsLeft, AfterGivingUp, Sent
  <2> QED
    BY <2>1, <2>2, <2>3, <2>4 DEF IInv
<1> QED
  BY <1>1, <1>2

\* A request that no one waits for arrives, or does not.
LEMMA StraySteps ==
  ASSUME NEW e \in Effects, IInv, StrayArrives(e) \/ StrayIsLost(e)
  PROVE  IInv'
<1>1. CASE StrayArrives(e)
  <2>0. landed' \in [Effects -> 0 .. Many] /\ stray' \subseteq Effects
    BY <1>1 DEF IInv, TypeOK, StrayArrives
  <2>1. TypeOK'
    BY <1>1, <2>0, Zenon DEF IInv, TypeOK, StrayArrives
  <2>2. (RowShapes /\ DenialsStand /\ CursorBehind /\ PrefixDelivered)'
    BY <1>1 DEF IInv, TypeOK, RowShapes, DenialsStand, CursorBehind,
       PrefixDelivered, AtWork, Untouched, StrayArrives
  <2>3. AtWork'
    BY <1>1 DEF IInv, TypeOK, RowShapes, AtWork, Untouched, AtMostOnce,
       NotSentIsTrue, PrefixDelivered, StrayArrives
  <2>4. (AtMostOnce /\ NotSentIsTrue /\ JournalTellsTheTruth)'
    BY <1>1 DEF IInv, TypeOK, RowShapes, DenialsStand, AtWork, Untouched,
       AtMostOnce, NotSentIsTrue, JournalTellsTheTruth, StrayArrives
  <2> QED
    BY <2>1, <2>2, <2>3, <2>4 DEF IInv
<1>2. CASE StrayIsLost(e)
  <2>1. TypeOK'
    BY <1>2 DEF IInv, TypeOK, StrayIsLost
  <2>2. (RowShapes /\ DenialsStand /\ CursorBehind /\ PrefixDelivered)'
    BY <1>2 DEF IInv, TypeOK, RowShapes, DenialsStand, CursorBehind,
       PrefixDelivered, AtWork, Untouched, StrayIsLost
  <2>3. AtWork'
    BY <1>2 DEF IInv, TypeOK, RowShapes, AtWork, Untouched, AtMostOnce,
       NotSentIsTrue, PrefixDelivered, StrayIsLost
  <2>4. (AtMostOnce /\ NotSentIsTrue /\ JournalTellsTheTruth)'
    BY <1>2 DEF IInv, TypeOK, RowShapes, DenialsStand, AtWork, Untouched,
       AtMostOnce, NotSentIsTrue, JournalTellsTheTruth, StrayIsLost
  <2> QED
    BY <2>1, <2>2, <2>3, <2>4 DEF IInv
<1> QED
  BY <1>1, <1>2

\* Recording: one transaction per outcome, and the mark before a dead letter.
LEMMA RecordSteps ==
  ASSUME IInv, Settle \/ MarkNotSent \/ Bury
  PROVE  IInv'
<1>1. CASE Settle
  <2>1. TypeOK'
    BY <1>1 DEF IInv, TypeOK, Settle
  <2>2. (RowShapes /\ DenialsStand /\ CursorBehind /\ PrefixDelivered)'
    BY <1>1 DEF IInv, TypeOK, RowShapes, DenialsStand, CursorBehind,
       PrefixDelivered, AtWork, Untouched, Settle
  <2>3. AtWork'
    BY <1>1 DEF IInv, TypeOK, RowShapes, AtWork, Untouched, AtMostOnce,
       NotSentIsTrue, PrefixDelivered, Settle
  <2>4. (AtMostOnce /\ NotSentIsTrue /\ JournalTellsTheTruth)'
    BY <1>1 DEF IInv, TypeOK, RowShapes, DenialsStand, AtWork, Untouched,
       AtMostOnce, NotSentIsTrue, JournalTellsTheTruth, Settle
  <2> QED
    BY <2>1, <2>2, <2>3, <2>4 DEF IInv
<1>2. CASE MarkNotSent
  <2>1. TypeOK'
    BY <1>2 DEF IInv, TypeOK, MarkNotSent
  <2>2. (RowShapes /\ DenialsStand /\ CursorBehind /\ PrefixDelivered)'
    BY <1>2 DEF IInv, TypeOK, RowShapes, DenialsStand, CursorBehind,
       PrefixDelivered, AtWork, Untouched, MarkNotSent
  <2>3. AtWork'
    BY <1>2 DEF IInv, TypeOK, RowShapes, AtWork, Untouched, AtMostOnce,
       NotSentIsTrue, PrefixDelivered, MarkNotSent
  <2>4. (AtMostOnce /\ NotSentIsTrue /\ JournalTellsTheTruth)'
    BY <1>2 DEF IInv, TypeOK, RowShapes, DenialsStand, AtWork, Untouched,
       AtMostOnce, NotSentIsTrue, JournalTellsTheTruth, MarkNotSent
  <2> QED
    BY <2>1, <2>2, <2>3, <2>4 DEF IInv
<1>3. CASE Bury
  <2>1. TypeOK'
    BY <1>3 DEF IInv, TypeOK, Bury, DeadRow, Sent, HaltAtDeadLetter
  <2>2. (RowShapes /\ DenialsStand /\ CursorBehind /\ PrefixDelivered)'
    BY <1>3 DEF IInv, TypeOK, RowShapes, DenialsStand, CursorBehind,
       PrefixDelivered, AtWork, Untouched, Bury, DeadRow, Sent,
       HaltAtDeadLetter
  <2>3. AtWork'
    BY <1>3 DEF IInv, TypeOK, RowShapes, AtWork, Untouched, AtMostOnce,
       NotSentIsTrue, PrefixDelivered, Bury, DeadRow, Sent,
       HaltAtDeadLetter
  <2>4. (AtMostOnce /\ NotSentIsTrue /\ JournalTellsTheTruth)'
    BY <1>3 DEF IInv, TypeOK, RowShapes, DenialsStand, AtWork, Untouched,
       AtMostOnce, NotSentIsTrue, JournalTellsTheTruth, Bury, DeadRow,
       Sent, HaltAtDeadLetter
  <2> QED
    BY <2>1, <2>2, <2>3, <2>4 DEF IInv
<1> QED
  BY <1>1, <1>2, <1>3

\* The operator's word, on a run that no process drives.
LEMMA OperatorSteps ==
  ASSUME NEW e \in Effects, IInv, ResolveLanded(e) \/ ResolveNotSent(e)
  PROVE  IInv'
<1>1. CASE ResolveLanded(e)
  <2>1. TypeOK'
    BY <1>1 DEF IInv, TypeOK, ResolveLanded, MayBeResolved
  <2>2. (RowShapes /\ DenialsStand /\ CursorBehind /\ PrefixDelivered)'
    BY <1>1 DEF IInv, TypeOK, RowShapes, DenialsStand, CursorBehind,
       PrefixDelivered, AtWork, Untouched, ResolveLanded, MayBeResolved
  <2>3. AtWork'
    BY <1>1 DEF IInv, TypeOK, RowShapes, AtWork, Untouched, AtMostOnce,
       NotSentIsTrue, PrefixDelivered, ResolveLanded, MayBeResolved
  <2>4. (AtMostOnce /\ NotSentIsTrue /\ JournalTellsTheTruth)'
    BY <1>1 DEF IInv, TypeOK, RowShapes, DenialsStand, AtWork, Untouched,
       AtMostOnce, NotSentIsTrue, JournalTellsTheTruth, ResolveLanded,
       MayBeResolved
  <2> QED
    BY <2>1, <2>2, <2>3, <2>4 DEF IInv
<1>2. CASE ResolveNotSent(e)
  <2>1. TypeOK'
    BY <1>2 DEF IInv, TypeOK, ResolveNotSent, MayBeResolved
  <2>2. (RowShapes /\ DenialsStand /\ CursorBehind /\ PrefixDelivered)'
    BY <1>2 DEF IInv, TypeOK, RowShapes, DenialsStand, CursorBehind,
       PrefixDelivered, AtWork, Untouched, ResolveNotSent, MayBeResolved
  <2>3. AtWork'
    BY <1>2 DEF IInv, TypeOK, RowShapes, AtWork, Untouched, AtMostOnce,
       NotSentIsTrue, PrefixDelivered, ResolveNotSent, MayBeResolved
  <2>4. (AtMostOnce /\ NotSentIsTrue /\ JournalTellsTheTruth)'
    BY <1>2 DEF IInv, TypeOK, RowShapes, DenialsStand, AtWork, Untouched,
       AtMostOnce, NotSentIsTrue, JournalTellsTheTruth, ResolveNotSent,
       MayBeResolved
  <2> QED
    BY <2>1, <2>2, <2>3, <2>4 DEF IInv
<1> QED
  BY <1>1, <1>2

\* Every step of the drain, the upstream, the operator and the process keeps the
\* inductive invariant.
LEMMA Inductive == IInv /\ [Next]_vars => IInv'
<1> SUFFICES ASSUME IInv, [Next]_vars PROVE IInv'
  OBVIOUS
<1>1. CASE Resume \/ Crash
  BY <1>1, ProcessSteps
<1>2. CASE Drive
  BY <1>2, ClaimSteps, AskSteps, AttemptSteps, FailureSteps, RecordSteps DEF Drive
<1>3. CASE Upstream
  BY <1>3, AttemptSteps, StraySteps DEF Upstream, IInv, TypeOK
<1>4. CASE Operator
  BY <1>4, OperatorSteps DEF Operator
<1>5. CASE Finished \/ UNCHANGED vars
  <2>1. UNCHANGED <<row, entry, landed, stray, pc, cur>>
        /\ UNCHANGED <<try, maybeSent, earlier, asked, crashes>>
    BY <1>5 DEF Finished, vars
  <2>2. (RowShapes /\ DenialsStand /\ CursorBehind /\ AtWork)'
    BY <2>1 DEF IInv, RowShapes, CursorBehind, DenialsStand, AtWork, Untouched
  <2>3. (AtMostOnce /\ NotSentIsTrue /\ JournalTellsTheTruth /\ PrefixDelivered)'
    BY <2>1 DEF IInv, AtMostOnce, NotSentIsTrue, JournalTellsTheTruth,
       PrefixDelivered
  <2>4. TypeOK'
    BY <2>1, Zenon DEF IInv, TypeOK
  <2> QED
    BY <2>2, <2>3, <2>4 DEF IInv
<1> QED
  BY <1>1, <1>2, <1>3, <1>4, <1>5 DEF Next

-----------------------------------------------------------------------------

\* The inductive invariant holds in every behaviour of the drain.
THEOREM Invariance == Spec => []IInv
  BY Initially, Inductive, PTL DEF Spec

\* Type correctness of the drain, the claim table and the upstream.
THEOREM TypeCorrect == Spec => []TypeOK
<1>1. IInv => TypeOK
  BY DEF IInv
<1> QED
  BY <1>1, Invariance, PTL

\* A write whose tool did not declare repeats harmless takes effect at most
\* once, whatever the mix of retries, lost replies, crashes and resumes.
THEOREM NeverTwice == Spec => []AtMostOnce
<1>1. IInv => AtMostOnce
  BY DEF IInv
<1> QED
  BY <1>1, Invariance, PTL

\* The mark that lets a resume send without asking is never wrong.
THEOREM Truthful == Spec => []NotSentIsTrue
<1>1. IInv => NotSentIsTrue
  BY DEF IInv
<1> QED
  BY <1>1, Invariance, PTL

\* What the journal says of a write's outcome, and does not take back, is so.
THEOREM JournalTruthful == Spec => []JournalTellsTheTruth
<1>1. IInv => JournalTellsTheTruth
  BY DEF IInv
<1> QED
  BY <1>1, Invariance, PTL

\* Writes reach the world in program order, also across resumes.
THEOREM InProgramOrder == Spec => []PrefixDelivered
<1>1. IInv => PrefixDelivered
  BY DEF IInv
<1> QED
  BY <1>1, Invariance, PTL

-----------------------------------------------------------------------------
(***************************************************************************)
(* The drain implements DeliveryPromise.                                   *)
(***************************************************************************)

Delivered == {e \in Effects : row[e].status = "dispatched"}

PromiseVars == <<landed, Delivered>>

\* Before the first step nothing took effect and nothing is recorded.
LEMMA PromiseInitially == Init => Promise!PromiseInit
BY DEF Init, Promise!PromiseInit, Promise!Promised

\* A write taking effect, now or late, is the promise's TakesEffect.
LEMMA LandingIsPromised ==
  ASSUME IInv, NEW e \in Effects,
         landed' = [landed EXCEPT ![e] = OneMore(@)],
         row' = row, row[e].status # "none",
         e \in Idempotent \/ landed[e] = 0
  PROVE  Promise!TakesEffect(e)
<1>1. \A d \in 1 .. e - 1 : d \in Delivered
  BY DEF IInv, TypeOK, PrefixDelivered, Delivered
<1>2. UNCHANGED Delivered
  BY DEF Delivered
<1> QED
  BY <1>1, <1>2 DEF Promise!TakesEffect, Promise!OneMore, Promise!Many, Delivered

\* Settling, by the process or by the operator, is the promise's IsRecorded.
LEMMA SettlingIsPromised ==
  ASSUME IInv, NEW e \in Effects, landed[e] > 0,
         row' = [row EXCEPT ![e] = SentRow], landed' = landed
  PROVE  Promise!IsRecorded(e)
<1>1. Delivered' = Delivered \cup {e}
  BY DEF IInv, TypeOK, Delivered
<1> QED
  BY <1>1 DEF Promise!IsRecorded, Delivered

\* Every other step leaves what the promise speaks of as it is.
LEMMA OthersStutter ==
  ASSUME IInv, NEW e \in Effects,
         row[e].status # "dispatched",
         row' = row \/ \E r \in [status : Statuses, outcome : Outcomes] :
                         r.status # "dispatched" /\ row' = [row EXCEPT ![e] = r],
         landed' = landed
  PROVE  UNCHANGED PromiseVars
BY DEF IInv, TypeOK, Delivered, PromiseVars

\* Each step of the drain is a step the promise allows, or changes nothing it
\* speaks of.
LEMMA StepIsPromised ==
  IInv /\ [Next]_vars => [Promise!PromiseNext]_PromiseVars
<1> SUFFICES ASSUME IInv, [Next]_vars
             PROVE  Promise!PromiseNext \/ UNCHANGED PromiseVars
  OBVIOUS
<1> USE DEF Promise!PromiseNext, Promise!Promised
<1>1. CASE Land
  <2>1. /\ cur \in Effects /\ row[cur].status # "none" /\ row' = row
        /\ cur \in Idempotent \/ landed[cur] = 0
        /\ landed' = [landed EXCEPT ![cur] = OneMore(@)]
    BY <1>1 DEF Land, IInv, TypeOK, AtWork, Untouched
  <2> QED
    BY <2>1, LandingIsPromised
<1>2. ASSUME NEW e \in Effects, StrayArrives(e)
      PROVE  Promise!PromiseNext \/ UNCHANGED PromiseVars
  <2>1. /\ row[e].status # "none" /\ row' = row
        /\ e \in Idempotent \/ landed[e] = 0
        /\ landed' = [landed EXCEPT ![e] = OneMore(@)]
    BY <1>2 DEF StrayArrives, IInv, TypeOK, RowShapes, AtMostOnce
  <2> QED
    BY <2>1, LandingIsPromised
<1>3. CASE Settle
  <2>1. /\ cur \in Effects /\ landed[cur] > 0 /\ landed' = landed
        /\ row' = [row EXCEPT ![cur] = SentRow]
    BY <1>3 DEF Settle, IInv, TypeOK, AtWork
  <2> QED
    BY <2>1, SettlingIsPromised
<1>4. ASSUME NEW e \in Effects, ResolveLanded(e)
      PROVE  Promise!PromiseNext \/ UNCHANGED PromiseVars
  <2>1. landed[e] > 0 /\ landed' = landed /\ row' = [row EXCEPT ![e] = SentRow]
    BY <1>4 DEF ResolveLanded
  <2> QED
    BY <2>1, SettlingIsPromised
<1>5. ASSUME NEW e \in Effects, ResolveNotSent(e)
      PROVE  UNCHANGED PromiseVars
  <2>1. /\ row[e].status # "dispatched" /\ landed' = landed
        /\ row' = [row EXCEPT ![e] = NeverSentRow]
    BY <1>5 DEF ResolveNotSent, MayBeResolved
  <2> QED
    BY <2>1, OthersStutter
<1>6. CASE ClaimNew \/ ClaimRetrySafe
  <2>1. /\ cur \in Effects /\ row[cur].status # "dispatched" /\ landed' = landed
        /\ row' = [row EXCEPT ![cur] = OpenRow]
    BY <1>6 DEF ClaimNew, ClaimRetrySafe, AtClaim, ProvenUnsent, Rearmed
  <2> QED
    BY <2>1, OthersStutter
<1>7. CASE MarkNotSent
  <2>1. landed' = landed /\ row' = [row EXCEPT ![cur].outcome = "not_sent"]
    BY <1>7 DEF MarkNotSent
  <2>2. \A d \in Effects : row'[d].status = row[d].status
    BY <2>1 DEF IInv, TypeOK
  <2> QED
    BY <2>1, <2>2 DEF PromiseVars, Delivered
<1>8. CASE Bury
  <2>1. /\ cur \in Effects /\ row[cur].status # "dispatched" /\ landed' = landed
        /\ row' = [row EXCEPT ![cur] = DeadRow(Sent(maybeSent, earlier))]
    BY <1>8 DEF Bury, IInv, TypeOK
  <2>2. /\ DeadRow(Sent(maybeSent, earlier))
             \in [status : Statuses, outcome : Outcomes]
        /\ DeadRow(Sent(maybeSent, earlier)).status # "dispatched"
    BY DEF DeadRow
  <2> QED
    BY <2>1, <2>2, OthersStutter
<1>9. CASE \/ Resume \/ Crash \/ Finished \/ UNCHANGED vars
          \/ ClaimDelivered \/ ClaimAmbiguous \/ FinishDrain
          \/ HearLanded \/ HearAbsent \/ HearNothing \/ Send \/ Reply
          \/ \E r \in BOOLEAN : FailUnsent(r) \/ FailUnknown(r)
          \/ \E e \in stray : StrayIsLost(e)
  BY <1>9 DEF Resume, Crash, Finished, vars, ClaimDelivered, ClaimAmbiguous,
     FinishDrain, HearLanded, HearAbsent, HearNothing, Send, Reply, FailUnsent,
     FailUnknown, Failed, StrayIsLost, PromiseVars, Delivered
<1> QED
  BY <1>1, <1>2, <1>3, <1>4, <1>5, <1>6, <1>7, <1>8, <1>9
     DEF Next, Drive, Upstream, Operator, IInv, TypeOK

\* The drain, its retries and its recovery keep the promise made to the world.
THEOREM KeepsPromise == Spec => PromiseKept
<1>1. PromiseVars = <<landed, {e \in Effects : row[e].status = "dispatched"}>>
  BY DEF PromiseVars, Delivered
<1> QED
  BY <1>1, PromiseInitially, StepIsPromised, Invariance, PTL
     DEF Spec, PromiseKept, Promise!PromiseSpec, PromiseVars, Delivered

\* What is recorded as delivered is final, and is not sent again.
THEOREM DeliveredIsFinal == Spec => DeliveredStaysDelivered
<1> DEFINE Final ==
      \A e \in Effects : row[e].status = "dispatched" =>
        /\ row'[e] = row[e]
        /\ entry'[e] = entry[e]
        /\ landed'[e] = landed[e] \/ e \in stray
<1>1. IInv /\ [Next]_vars => [Final]_vars
  <2> SUFFICES ASSUME IInv, [Next]_vars PROVE Final
    OBVIOUS
  <2>1. CASE \/ Resume \/ Crash \/ Finished \/ UNCHANGED vars
    BY <2>1 DEF Resume, Crash, Finished, vars
  <2>2. CASE Drive
    BY <2>2 DEF Drive, IInv, TypeOK, RowShapes, AtWork, ClaimNew,
       ClaimDelivered, ClaimRetrySafe, ClaimAmbiguous, FinishDrain, AtClaim,
       ProvenUnsent, HearLanded, HearAbsent, HearNothing, Send, Reply,
       FailUnsent, FailUnknown, Failed, Settle, MarkNotSent, Bury
  <2>3. CASE Upstream
    BY <2>3 DEF Upstream, Land, StrayArrives, StrayIsLost, IInv, TypeOK, AtWork
  <2>4. CASE Operator
    BY <2>4 DEF Operator, ResolveLanded, ResolveNotSent, MayBeResolved, IInv, TypeOK
  <2> QED
    BY <2>1, <2>2, <2>3, <2>4 DEF Next
<1> QED
  BY <1>1, Invariance, PTL DEF Spec, DeliveredStaysDelivered

=============================================================================
