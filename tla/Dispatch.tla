------------------------------ MODULE Dispatch ------------------------------
(***************************************************************************)
(* The drain of a confirmed branch's writes: StoreBuffer._drain_locked,    *)
(* Dispatcher.dispatch and the claim table of the journal, together with   *)
(* the upstream that takes the calls, crashes of the process, resumes, and *)
(* the operator's `specunode resolve`.                                     *)
(*                                                                         *)
(* One run is driven by one process at a time (Journal.hold_run, assumed   *)
(* here), and a resume makes the same writes at the same positions, so a   *)
(* write is named by its position 1..Last: it stands for one dedupe key.   *)
(*                                                                         *)
(* Assumed of the outside world, as docs/limitations.md does: a tool that  *)
(* says sent="no" is telling the truth, and a tool's `reconcile`, or the   *)
(* operator, says "it did not take effect" only when no request for it is  *)
(* still on its way.  How often a write took effect is counted up to Many. *)
(***************************************************************************)
EXTENDS Integers

CONSTANTS Last,          \* the run's writes are 1..Last, in program order
          Idempotent,    \* writes whose tool declared a repeat harmless
          Reconcilable,  \* writes whose tool has a `reconcile`
          MaxAttempts,   \* Dispatcher.max_attempts
          MaxCrashes     \* bound: how often the process dies in the middle

ASSUME DispatchAssumption ==
  /\ Last \in Nat
  /\ Idempotent \subseteq 1 .. Last
  /\ Reconcilable \subseteq 1 .. Last
  /\ MaxAttempts \in Nat \ {0}
  /\ MaxCrashes \in Nat

Effects == 1 .. Last

Many == 2
OneMore(n) == IF n = Many THEN Many ELSE n + 1

VARIABLES
  row,        \* effect_dispatch: the claim row of each write
  entry,      \* the last journal entry about each write's outcome
  landed,     \* how often the upstream applied each write
  stray,      \* writes with a request on its way that no one waits for
  pc,         \* where the driving process is; "down" when there is none
  cur,        \* the write the drain is at
  try,        \* Dispatcher.dispatch: the attempt being made
  maybeSent,  \* Dispatcher.dispatch: an attempt may have taken effect
  earlier,    \* earlier_may_have_landed
  asked,      \* this call was sent again after the upstream said "absent"
  crashes

durable == <<row, entry>>
world == <<landed, stray>>
local == <<try, maybeSent, earlier, asked>>
vars == <<row, entry, landed, stray, pc, cur, try, maybeSent, earlier, asked,
          crashes>>

Statuses == {"none", "in_flight", "dispatched", "dead_letter"}
Outcomes == {"unknown", "not_sent", "settled"}
Entries == {"none", "dispatched", "maybe", "no"}
Working == {"ask", "send", "out", "taken", "askAgain", "mark", "settle", "bury"}
Stopped == {"down", "done"}

NoRow == [status |-> "none", outcome |-> "unknown"]
OpenRow == [status |-> "in_flight", outcome |-> "unknown"]
SentRow == [status |-> "dispatched", outcome |-> "settled"]

Init ==
  /\ row = [e \in Effects |-> NoRow]
  /\ entry = [e \in Effects |-> "none"]
  /\ landed = [e \in Effects |-> 0]
  /\ stray = {}
  /\ pc = "down"
  /\ cur = 1
  /\ try = 1
  /\ maybeSent = FALSE
  /\ earlier = FALSE
  /\ asked = FALSE
  /\ crashes = 0

(***************************************************************************)
(* The process and the operator.                                           *)
(***************************************************************************)

\* Volatile state as a dispatch call finds it: nothing tried yet.
Afresh(again, ambiguous) ==
  /\ try' = 1
  /\ maybeSent' = FALSE
  /\ asked' = again
  /\ earlier' = ambiguous

\* The first run, or a resume: the writes come up again, in order.
Resume ==
  /\ pc = "down"
  /\ pc' = "next"
  /\ cur' = 1
  /\ Afresh(FALSE, FALSE)
  /\ UNCHANGED <<durable, world, crashes>>

\* A kill -9, a cancellation, a journal that cannot be written: whatever the
\* process knew is gone, and a request it had out may still arrive.
Crash ==
  /\ pc \notin Stopped
  /\ crashes < MaxCrashes
  /\ crashes' = crashes + 1
  /\ pc' = "down"
  /\ stray' \in IF pc = "out" THEN {stray, stray \cup {cur}} ELSE {stray}
  /\ UNCHANGED <<durable, landed, cur, local>>

\* Journal._resolve: someone who checked the upstream says what happened.  The
\* command holds the run, so no process is driving it.
MayBeResolved(e) == row[e].status \in {"in_flight", "dead_letter"}

ResolveLanded(e) ==
  /\ pc = "down"
  /\ MayBeResolved(e)
  /\ landed[e] > 0
  /\ row' = [row EXCEPT ![e] = SentRow]
  /\ entry' = [entry EXCEPT ![e] = "dispatched"]
  /\ UNCHANGED <<world, pc, cur, local, crashes>>

NeverSentRow == [status |-> "dead_letter", outcome |-> "not_sent"]

ResolveNotSent(e) ==
  /\ pc = "down"
  /\ MayBeResolved(e)
  /\ landed[e] = 0 /\ e \notin stray
  /\ row' = [row EXCEPT ![e] = NeverSentRow]
  /\ entry' = [entry EXCEPT ![e] = "no"]
  /\ UNCHANGED <<world, pc, cur, local, crashes>>

(***************************************************************************)
(* Claiming: _JournalWriter._claim, and what the drain makes of its answer.*)
(***************************************************************************)

AtClaim == pc = "next" /\ cur \in Effects

ClaimNew ==
  /\ AtClaim
  /\ row[cur].status = "none"
  /\ row' = [row EXCEPT ![cur] = OpenRow]
  /\ pc' = "send"
  /\ Afresh(FALSE, FALSE)
  /\ UNCHANGED <<entry, world, cur, crashes>>

\* SKIPPED_DEDUPE: delivered by an earlier process, or settled by an operator.
ClaimDelivered ==
  /\ AtClaim
  /\ row[cur].status = "dispatched"
  /\ cur' = cur + 1
  /\ UNCHANGED <<durable, world, pc, local, crashes>>

\* RETRY_SAFE.  The row is armed again before the send, in the statement that
\* wins it.  Defect: it stays marked "never sent" while the request is out.
RearmedLeftMarked(r) == r
Rearmed(r) == OpenRow

ProvenUnsent(r) ==
  r.status \in {"in_flight", "dead_letter"} /\ r.outcome = "not_sent"

ClaimRetrySafe ==
  /\ AtClaim
  /\ ProvenUnsent(row[cur])
  /\ row' = [row EXCEPT ![cur] = Rearmed(row[cur])]
  /\ pc' = "send"
  /\ Afresh(FALSE, FALSE)
  /\ UNCHANGED <<entry, world, cur, crashes>>

\* AMBIGUOUS: an idempotent tool is handed the call again, any other is asked
\* about first.  Defect: a plain resume retries it.
AfterAmbiguousRetry(e) == "send"
AfterAmbiguous(e) == IF e \in Idempotent THEN "send" ELSE "ask"

ClaimAmbiguous ==
  /\ AtClaim
  /\ row[cur].status \in {"in_flight", "dead_letter"}
  /\ ~ProvenUnsent(row[cur])
  /\ pc' = AfterAmbiguous(cur)
  /\ Afresh(FALSE, TRUE)
  /\ UNCHANGED <<durable, world, cur, crashes>>

\* Nothing pending is left: the branch's writes are all out.
FinishDrain ==
  /\ pc = "next"
  /\ cur > Last
  /\ pc' = "done"
  /\ UNCHANGED <<durable, world, cur, local, crashes>>

(***************************************************************************)
(* Asking the upstream: StoreBuffer._reconcile, on an ambiguous claim      *)
(* ("ask") and after this process's own lost reply ("askAgain").           *)
(***************************************************************************)

Asking == pc \in {"ask", "askAgain"}

HearLanded ==
  /\ Asking
  /\ cur \in Reconcilable
  /\ landed[cur] > 0
  /\ pc' = "settle"
  /\ UNCHANGED <<durable, world, cur, local, crashes>>

\* The upstream has no record of it: it is sent, and not asked about twice.
HearAbsent ==
  /\ Asking
  /\ cur \in Reconcilable
  /\ landed[cur] = 0 /\ cur \notin stray
  /\ pc' = "send"
  /\ Afresh(pc = "askAgain", FALSE)
  /\ UNCHANGED <<durable, world, cur, crashes>>

\* No `reconcile`, or asking failed: a dead letter that may have left.
HearNothing ==
  /\ Asking
  /\ pc' = "bury"
  /\ UNCHANGED <<durable, world, cur, local, crashes>>

(***************************************************************************)
(* Dispatcher.dispatch: one attempt after another, until the tool answers, *)
(* the failure is final, or a repeat would not be safe.                    *)
(***************************************************************************)

Send ==
  /\ pc = "send"
  /\ pc' = "out"
  /\ UNCHANGED <<durable, world, cur, local, crashes>>

Land ==
  /\ pc = "out"
  /\ pc' = "taken"
  /\ landed' = [landed EXCEPT ![cur] = OneMore(@)]
  /\ UNCHANGED <<durable, stray, cur, local, crashes>>

Reply ==
  /\ pc = "taken"
  /\ pc' = "settle"
  /\ UNCHANGED <<durable, world, cur, local, crashes>>

\* A retry is safe if nothing went out, or the tool is idempotent.  Defect: every
\* failure the tool calls retriable is retried.
RetryAnything(e, maybe) == TRUE
RepeatIsSafe(e, maybe) == ~maybe \/ e \in Idempotent

AttemptsLeft == try < MaxAttempts

\* What a dead letter says of its request.  Defect: only this process's own
\* attempts count, and an earlier process may have sent it.
OwnAttemptsOnly(maybe, before) == IF maybe THEN "maybe" ELSE "no"
Sent(maybe, before) == IF maybe \/ before THEN "maybe" ELSE "no"

\* Where the drain goes once the dispatcher has given up on the call: a lost
\* reply is asked about, once.
AfterGivingUp(maybe) ==
  IF maybe /\ cur \notin Idempotent /\ ~asked THEN "askAgain"
  ELSE IF Sent(maybe, earlier) = "maybe" THEN "bury"
  ELSE "mark"

Failed(maybe, retriable) ==
  /\ maybeSent' = maybe
  /\ IF retriable /\ RepeatIsSafe(cur, maybe) /\ AttemptsLeft
     THEN try' = try + 1 /\ pc' = "send"
     ELSE try' = try /\ pc' = AfterGivingUp(maybe)
  /\ UNCHANGED <<durable, landed, cur, earlier, asked, crashes>>

\* ToolDispatchError(sent="no"), or a tool that was never registered.
FailUnsent(retriable) ==
  /\ pc = "out"
  /\ Failed(maybeSent, retriable)
  /\ UNCHANGED stray

\* Any other failure: the request was lost, is late, or took effect and the
\* reply was lost.  The dispatcher cannot tell which.
FailUnknown(retriable) ==
  /\ pc \in {"out", "taken"}
  /\ Failed(TRUE, retriable)
  /\ stray' \in IF pc = "out" THEN {stray, stray \cup {cur}} ELSE {stray}

\* A request that no one waits for arrives after all, or is lost.
StrayArrives(e) ==
  /\ e \in stray
  /\ stray' = stray \ {e}
  /\ landed' = [landed EXCEPT ![e] = OneMore(@)]
  /\ UNCHANGED <<durable, pc, cur, local, crashes>>

StrayIsLost(e) ==
  /\ e \in stray
  /\ stray' = stray \ {e}
  /\ UNCHANGED <<durable, landed, pc, cur, local, crashes>>

(***************************************************************************)
(* Recording the outcome: Journal.settle_dispatch writes the entry and the *)
(* row in one transaction; mark_not_sent is a commit of its own.           *)
(***************************************************************************)

Settle ==
  /\ pc = "settle"
  /\ row[cur].status # "dispatched"
  /\ row' = [row EXCEPT ![cur] = SentRow]
  /\ entry' = [entry EXCEPT ![cur] = "dispatched"]
  /\ pc' = "next"
  /\ cur' = cur + 1
  /\ UNCHANGED <<world, local, crashes>>

MarkNotSent ==
  /\ pc = "mark"
  /\ row' = [row EXCEPT ![cur].outcome = "not_sent"]
  /\ pc' = "bury"
  /\ UNCHANGED <<entry, world, cur, local, crashes>>

\* A dead letter keeps whether its request provably never left.  Defect: the
\* claim is left open.
DeadRowLeftOpen(sent) == [status |-> "in_flight", outcome |-> "settled"]
DeadRow(sent) ==
  [status |-> "dead_letter",
   outcome |-> IF sent = "no" THEN "not_sent" ELSE "settled"]

\* The writes after a dead letter were staged on the assumption that it
\* happened: the drain halts and the scheduler ends the run.  Defect: the drain
\* skips it and goes on.
SkipDeadLetter == pc' = "next" /\ cur' = cur + 1
HaltAtDeadLetter == pc' = "down" /\ cur' = cur

Bury ==
  /\ pc = "bury"
  /\ row[cur].status # "dispatched"
  /\ row' = [row EXCEPT ![cur] = DeadRow(Sent(maybeSent, earlier))]
  /\ entry' = [entry EXCEPT ![cur] = Sent(maybeSent, earlier)]
  /\ HaltAtDeadLetter
  /\ UNCHANGED <<world, local, crashes>>

\* The drain returned with everything delivered; nothing is left to do.
Finished == pc = "done" /\ stray = {} /\ UNCHANGED vars

Drive ==
  \/ ClaimNew \/ ClaimDelivered \/ ClaimRetrySafe \/ ClaimAmbiguous
  \/ FinishDrain
  \/ HearLanded \/ HearAbsent \/ HearNothing
  \/ Send \/ Reply
  \/ \E retriable \in BOOLEAN : FailUnsent(retriable) \/ FailUnknown(retriable)
  \/ Settle \/ MarkNotSent \/ Bury

Operator == \E e \in Effects : ResolveLanded(e) \/ ResolveNotSent(e)
Upstream == Land \/ \E e \in stray : StrayArrives(e) \/ StrayIsLost(e)

Next == Resume \/ Drive \/ Upstream \/ Operator \/ Crash \/ Finished

Spec == Init /\ [][Next]_vars

\* A process that runs keeps taking steps, and a run that stopped is resumed.
FairSpec == Spec /\ WF_vars(Drive) /\ WF_vars(Resume)

-----------------------------------------------------------------------------

TypeOK ==
  /\ row \in [Effects -> [status : Statuses, outcome : Outcomes]]
  /\ entry \in [Effects -> Entries]
  /\ landed \in [Effects -> 0 .. Many]
  /\ stray \subseteq Effects
  /\ pc \in Working \cup Stopped \cup {"next"}
  /\ cur \in 1 .. Last + 1
  /\ pc \in Working => cur \in Effects
  /\ try \in 1 .. MaxAttempts
  /\ maybeSent \in BOOLEAN
  /\ earlier \in BOOLEAN
  /\ asked \in BOOLEAN
  /\ crashes \in 0 .. MaxCrashes

\* A write whose tool did not declare repeats harmless takes effect at most
\* once, and no request that could make it twice is on its way: across retries,
\* lost replies, crashes, resumes and operators.
AtMostOnce ==
  \A e \in Effects \ Idempotent :
    /\ landed[e] < Many
    /\ ~(landed[e] > 0 /\ e \in stray)

\* The row says "never sent" only of a write that has not taken effect and has
\* no request out: that mark is what lets a resume send without asking.
NotSentIsTrue ==
  \A e \in Effects : row[e].outcome = "not_sent" =>
    /\ landed[e] = 0
    /\ e \notin stray
    /\ ~(cur = e /\ pc \in {"send", "out", "taken"})

\* The journal says a write is delivered only if it took effect, and a durable
\* "sent: no" is never the last word on one that did: its claim stands open.
JournalTellsTheTruth ==
  \A e \in Effects :
    /\ entry[e] = "dispatched" <=> row[e].status = "dispatched"
    /\ entry[e] = "dispatched" => landed[e] > 0
    /\ entry[e] = "no" /\ (landed[e] > 0 \/ e \in stray) =>
         row[e] = OpenRow

\* Program order is delivery order, also across resumes: nothing is claimed,
\* let alone sent, before everything ahead of it is recorded as delivered.
PrefixDelivered ==
  \A e \in Effects :
    row[e].status # "none" \/ landed[e] > 0 \/ e \in stray =>
      \A d \in 1 .. e - 1 : row[d].status = "dispatched"

\* Nothing changes what is recorded as delivered, and a write already delivered
\* under a settled claim is not sent again.
DeliveredStaysDelivered ==
  [][\A e \in Effects : row[e].status = "dispatched" =>
       /\ row'[e] = row[e]
       /\ entry'[e] = entry[e]
       /\ landed'[e] = landed[e] \/ e \in stray]_vars

\* A claim is not left open for ever: some process settles it, dead-letters it,
\* or an operator resolves it.
OpenClaimsClose ==
  \A e \in Effects : row[e].status = "in_flight" ~> row[e].status # "in_flight"

\* The drain and its recovery implement what the runtime promises.
Promise ==
  INSTANCE DeliveryPromise WITH
    times <- landed,
    recorded <- {e \in Effects : row[e].status = "dispatched"}
PromiseKept == Promise!PromiseSpec
=============================================================================
