----------------------------- MODULE ProxyProofs -----------------------------
(***************************************************************************)
(* What the proxy's clients may rely on, proved for any number of clients, *)
(* calls, decisions and reports: a decision sends one write that is what   *)
(* was decided, and each client is told of its own.                        *)
(***************************************************************************)
EXTENDS Proxy, SequenceTheorems, FiniteSetTheorems, FunctionTheorems, TLAPS

USE ProxyAssumption

(***************************************************************************)
(* The inductive invariant.                                                *)
(***************************************************************************)

NumberOf(i) == i.number
IsDispatched(i) == i \in DOMAIN outcome /\ outcome[i] = "dispatched"

\* A request has an id once it is held, of its own call, and no other has it.
OwnId ==
  /\ \A r \in Requests :
       IF caller[r].at = "new" THEN caller[r].id = None /\ told[r] = "nothing"
       ELSE /\ caller[r].id \in EffectIds
            /\ NumberOf(caller[r].id) < seq
            /\ caller[r].id.args = Wants[r]
  /\ \A r, s \in Requests :
       caller[r].at # "new" /\ caller[s].at # "new" /\ caller[r].id = caller[s].id => r = s

\* What is held has not been decided; no id that was is yet to be given.
Undecided ==
  /\ \A c \in Held(staged) :
       /\ caller[c.by].at # "new"
       /\ c.id = caller[c.by].id
       /\ c.id \notin DOMAIN outcome
  /\ \A i \in DOMAIN outcome : NumberOf(i) < seq

\* A request is sent when its call is confirmed, and only then.
Counted == \A r \in Requests : sends[r] = IF IsDispatched(caller[r].id) THEN 1 ELSE 0

\* An answer is of a call that was sent; a call is released once it was discarded,
\* has its answer, or the report that was to hear it was cancelled.
Heard ==
  /\ \A i \in DOMAIN results : IsDispatched(i)
  /\ \A i \in events :
       /\ i \in DOMAIN outcome
       /\ \/ outcome[i] = "discarded"
          \/ i \in DOMAIN results
          \/ \E k \in Reports : report[k].at = "cancelled" /\ i \in report[k].resolved

\* A report has resolved calls that are decided, one of them at most confirmed:
\* the one it waits for.
Reported ==
  \A k \in Reports :
    /\ report[k].at = "new" => report[k].resolved = {}
    /\ report[k].resolved \subseteq DOMAIN outcome
    /\ \A i, j \in report[k].resolved : IsDispatched(i) /\ IsDispatched(j) => i = j
    /\ report[k].at = "sending" =>
         /\ Len(report[k].toSend) = 1
         /\ Head(report[k].toSend).id \in report[k].resolved
         /\ IsDispatched(Head(report[k].toSend).id)

\* A confirmed call is what some report said.
Decided ==
  \A i \in DOMAIN outcome : outcome[i] = "dispatched" =>
    \E k \in Reports : i \in report[k].resolved /\ report[k].says = i.args

\* What was told is what happened.
Told ==
  \A r \in Requests :
    /\ told[r] = "discarded" =>
         caller[r].id \in DOMAIN outcome /\ outcome[caller[r].id] = "discarded"
    /\ told[r] \in {"result", "error"} => IsDispatched(caller[r].id)

IInv ==
  /\ TypeOK
  /\ OwnId
  /\ Undecided
  /\ Counted
  /\ Heard
  /\ Reported
  /\ Decided
  /\ Told

Caller == [at : {"new", "waiting", "done"}, id : EffectIds \cup {None}]

LEMMA CallerChanges ==
  ASSUME NEW f \in [Requests -> Caller], NEW r \in Requests
  PROVE  /\ [f EXCEPT ![r].at = "done"] \in [Requests -> Caller]
         /\ \A i \in EffectIds, a \in {"waiting", "done"} :
              [f EXCEPT ![r] = [at |-> a, id |-> i]] \in [Requests -> Caller]
BY DEF Caller

LEMMA NumbersAreNat == \A i \in EffectIds : NumberOf(i) \in Nat
BY DEF EffectIds, NumberOf

LEMMA HeldIn ==
  ASSUME NEW S, NEW s \in Seq(S)
  PROVE  Held(s) \subseteq S
BY DEF Held

LEMMA HeldAppend ==
  ASSUME NEW S, NEW s \in Seq(S), NEW c \in S
  PROVE  Held(Append(s, c)) = Held(s) \cup {c}
<1>1. /\ Len(s) \in Nat /\ DOMAIN s = 1 .. Len(s)
      /\ DOMAIN Append(s, c) = 1 .. Len(s) + 1
      /\ \A i \in 1 .. Len(s) : Append(s, c)[i] = s[i]
      /\ Append(s, c)[Len(s) + 1] = c
  BY AppendProperties, LenProperties
<1>2. 1 .. Len(s) + 1 = (1 .. Len(s)) \cup {Len(s) + 1}
  BY <1>1
<1> QED
  BY <1>1, <1>2 DEF Held

\* The calls held are of requests.
LEMMA HeldCalls ==
  ASSUME TypeOK, NEW c \in Held(staged)
  PROVE  c.by \in Requests /\ c.id \in EffectIds
<1>1. c \in StagedCalls
  BY HeldIn DEF TypeOK
<1> QED
  BY <1>1 DEF StagedCalls

LEMMA Initially == Init => IInv
<1> SUFFICES ASSUME Init PROVE IInv
  OBVIOUS
<1>1. /\ DOMAIN outcome = {} /\ DOMAIN results = {} /\ DOMAIN staged = {}
      /\ staged = <<>> /\ staged \in Seq(StagedCalls) /\ <<>> \in Seq(StagedCalls)
  BY DEF Init, Nothing
<1>2. TypeOK
  BY <1>1 DEF Init, TypeOK, Answer
<1>3. OwnId /\ Undecided /\ Counted /\ Heard /\ Reported /\ Decided /\ Told
  BY <1>1 DEF Init, OwnId, Undecided, Counted, Heard, Reported, Decided, Told,
              IsDispatched, Held
<1> QED
  BY <1>2, <1>3 DEF IInv

(***************************************************************************)
(* The clients.                                                            *)
(***************************************************************************)

LEMMA StageKeeps ==
  ASSUME IInv, NEW r \in Requests, Stage(r)
  PROVE  IInv'
<1> DEFINE new == EffectId(r)
<1> DEFINE call == [by |-> r, id |-> new]
<1>1. /\ new \in EffectIds /\ NumberOf(new) = seq /\ new.args = Wants[r]
      /\ call \in StagedCalls /\ call.by = r /\ call.id = new
  BY DEF IInv, TypeOK, EffectId, Number, EffectIds, StagedCalls, NumberOf
<1>2. /\ new \notin DOMAIN outcome
      /\ \A s \in Requests : caller[s].at # "new" => caller[s].id # new
  BY <1>1 DEF IInv, TypeOK, OwnId, Undecided
<1>3. /\ seq' = seq + 1 /\ events' = events \ {new}
      /\ staged' = Append(staged, call)
      /\ caller'[r].at \in {"waiting", "done"} /\ caller'[r].id = new
      /\ \A s \in Requests \ {r} : caller'[s] = caller[s]
      /\ told'[r] \in {"handle", told[r]}
      /\ \A s \in Requests \ {r} : told'[s] = told[s]
      /\ caller[r].at = "new"
  BY DEF Stage, IInv, TypeOK
<1>4. UNCHANGED <<mode, outcome, results, report, sends, drops>>
  BY DEF Stage
<1>5. Held(staged') = Held(staged) \cup {call}
  BY <1>1, <1>3, HeldAppend DEF IInv, TypeOK
<1>6. TypeOK'
  <2>1. staged' \in Seq(StagedCalls)
    BY <1>1, <1>3 DEF IInv, TypeOK
  <2>2. /\ caller' \in [Requests -> [at : {"new", "waiting", "done"},
                                    id : EffectIds \cup {None}]]
        /\ told' \in [Requests -> Answer \cup {"handle"}]
    <3>1. caller \in [Requests -> Caller] /\ told \in [Requests -> Answer \cup {"handle"}]
      BY DEF IInv, TypeOK, Caller
    <3>2. \E a \in {"waiting", "done"} :
            caller' = [caller EXCEPT ![r] = [at |-> a, id |-> new]]
      BY DEF Stage
    <3>3. told' = told \/ told' = [told EXCEPT ![r] = "handle"]
      BY DEF Stage
    <3>4. caller' \in [Requests -> Caller]
      <4>1. new \in EffectIds
        BY <1>1
      <4>2. PICK a \in {"waiting", "done"} :
              caller' = [caller EXCEPT ![r] = [at |-> a, id |-> new]]
        BY <3>2
      <4> HIDE DEF new
      <4>3. [caller EXCEPT ![r] = [at |-> a, id |-> new]] \in [Requests -> Caller]
        BY <3>1, <4>1, CallerChanges
      <4> QED
        BY <4>2, <4>3
    <3>5. told' \in [Requests -> Answer \cup {"handle"}]
      BY <3>1, <3>3
    <3> QED
      BY <3>4, <3>5 DEF Caller
  <2> QED
    BY <2>1, <2>2, <1>3, <1>4 DEF IInv, TypeOK
<1>7. OwnId'
  <2>1. ASSUME NEW s \in Requests
        PROVE  IF caller'[s].at = "new" THEN caller'[s].id = None /\ told'[s] = "nothing"
               ELSE /\ caller'[s].id \in EffectIds
                    /\ NumberOf(caller'[s].id) < seq'
                    /\ caller'[s].id.args = Wants[s]
    <3>1. CASE s = r
      BY <3>1, <1>1, <1>3 DEF IInv, TypeOK
    <3>2. CASE s # r
      BY <3>2, <1>3, NumbersAreNat DEF IInv, TypeOK, OwnId
    <3> QED
      BY <3>1, <3>2
  <2>2. ASSUME NEW s \in Requests, NEW t \in Requests,
               caller'[s].at # "new", caller'[t].at # "new", caller'[s].id = caller'[t].id
        PROVE  s = t
    BY <2>2, <1>2, <1>3 DEF IInv, OwnId
  <2> QED
    BY <2>1, <2>2 DEF OwnId
<1>8. Undecided'
  <2>1. ASSUME NEW c \in Held(staged)'
        PROVE  /\ caller'[c.by].at # "new"
               /\ c.id = caller'[c.by].id
               /\ c.id \notin DOMAIN outcome'
    <3>1. CASE c = call
      BY <3>1, <1>1, <1>2, <1>3, <1>4
    <3>2. CASE c \in Held(staged)
      <4>1. c.by \in Requests /\ c.by # r
        BY <3>2, <1>3, HeldCalls DEF IInv, Undecided
      <4> QED
        BY <4>1, <3>2, <1>3, <1>4 DEF IInv, Undecided
    <3> QED
      BY <3>1, <3>2, <1>5 DEF Held
  <2>2. \A i \in DOMAIN outcome' : NumberOf(i) < seq'
    BY <1>3, <1>4, NumbersAreNat DEF IInv, TypeOK, Undecided
  <2> QED
    BY <2>1, <2>2 DEF Undecided
<1>9. Counted' /\ Told'
  <2>1. \A s \in Requests : IsDispatched(caller[s].id)' = IsDispatched(caller[s].id)
    <3>1. ~IsDispatched(caller[r].id)
      BY <1>3 DEF IInv, TypeOK, OwnId, IsDispatched
    <3>2. ~IsDispatched(caller[r].id)'
      BY <1>2, <1>3, <1>4 DEF IsDispatched
    <3> QED
      BY <3>1, <3>2, <1>3, <1>4 DEF IsDispatched
  <2>2. Counted'
    BY <2>1, <1>4 DEF IInv, Counted
  <2>3. told'[r] \notin {"discarded", "result", "error"}
    BY <1>3 DEF IInv, OwnId
  <2>4. Told'
    BY <2>1, <2>3, <1>3, <1>4 DEF IInv, Told
  <2> QED
    BY <2>2, <2>4
<1>10. Heard' /\ Reported' /\ Decided'
  BY <1>3, <1>4 DEF IInv, Heard, Reported, Decided, IsDispatched
<1> QED
  BY <1>6, <1>7, <1>8, <1>9, <1>10 DEF IInv

LEMMA AnswersKeeps ==
  ASSUME IInv, NEW r \in Requests, NEW what, Answers(r, what),
         what \in Answer,
         what = "discarded" =>
           caller[r].id \in DOMAIN outcome /\ outcome[caller[r].id] = "discarded",
         what \in Results => IsDispatched(caller[r].id)
  PROVE  IInv'
<1>1. /\ caller'[r].at = "done" /\ caller'[r].id = caller[r].id
      /\ caller[r].at = "waiting"
      /\ \A s \in Requests \ {r} : caller'[s] = caller[s] /\ told'[s] = told[s]
      /\ told'[r] = what
  BY DEF Answers, IInv, TypeOK
<1>2. UNCHANGED <<mode, seq, staged, outcome, results, events, report, sends, drops>>
  BY DEF Answers
<1>3. \A s \in Requests : caller'[s].id = caller[s].id
                        /\ (caller'[s].at = "new" <=> caller[s].at = "new")
  BY <1>1
<1>4. TypeOK'
  <2>1. /\ caller' \in [Requests -> [at : {"new", "waiting", "done"},
                                    id : EffectIds \cup {None}]]
        /\ told' \in [Requests -> Answer \cup {"handle"}]
    <3>1. caller \in [Requests -> Caller] /\ told \in [Requests -> Answer \cup {"handle"}]
      BY DEF IInv, TypeOK, Caller
    <3>2. caller' = [caller EXCEPT ![r].at = "done"] /\ told' = [told EXCEPT ![r] = what]
      BY DEF Answers
    <3>3. caller' \in [Requests -> Caller]
      BY <3>1, <3>2, CallerChanges
    <3>4. told' \in [Requests -> Answer \cup {"handle"}]
      BY <3>1, <3>2
    <3> QED
      BY <3>3, <3>4 DEF Caller
  <2> QED
    BY <2>1, <1>2 DEF IInv, TypeOK
<1>5. OwnId'
  BY <1>1, <1>2, <1>3 DEF IInv, OwnId
<1>6. Undecided'
  <2>1. Held(staged)' = Held(staged)
    BY <1>2 DEF Held
  <2>2. \A c \in Held(staged) : c.by \in Requests
    BY HeldCalls DEF IInv
  <2> QED
    BY <2>1, <2>2, <1>2, <1>3 DEF IInv, Undecided
<1>7. Counted' /\ Heard' /\ Reported' /\ Decided'
  BY <1>2, <1>3 DEF IInv, Counted, Heard, Reported, Decided, IsDispatched
<1>8. Told'
  BY <1>1, <1>2, <1>3 DEF IInv, Told, IsDispatched, Results
<1> QED
  BY <1>4, <1>5, <1>6, <1>7, <1>8 DEF IInv

\* What Reply says is what the record says.
LEMMA ReplyIs ==
  ASSUME IInv, NEW r \in Requests, NEW decided \in BOOLEAN,
         decided => caller[r].id \in events
  PROVE  /\ Reply(r, decided) \in Answer
         /\ Reply(r, decided) = "discarded" =>
              caller[r].id \in DOMAIN outcome /\ outcome[caller[r].id] = "discarded"
         /\ Reply(r, decided) \in Results => IsDispatched(caller[r].id)
<1>1. At(outcome, caller[r].id) = "dispatched" <=> IsDispatched(caller[r].id)
  BY DEF At, IsDispatched
<1>2. CASE IsDispatched(caller[r].id)
  <2>1. Reply(r, decided) = At(results, caller[r].id)
    BY <1>1, <1>2 DEF Reply
  <2>2. At(results, caller[r].id) \in Results \cup {"nothing"}
    BY DEF At, IInv, TypeOK
  <2> QED
    BY <2>1, <2>2, <1>2 DEF Results, Answer
<1>3. CASE ~IsDispatched(caller[r].id)
  <2>1. Reply(r, decided) = IF decided THEN "discarded" ELSE "still held"
    BY <1>1, <1>3 DEF Reply
  <2>2. decided => caller[r].id \in DOMAIN outcome /\ outcome[caller[r].id] = "discarded"
    BY <1>3 DEF IInv, TypeOK, Heard, IsDispatched, Outcomes
  <2> QED
    BY <2>1, <2>2 DEF Results, Answer
<1> QED
  BY <1>2, <1>3

LEMMA ClientKeeps ==
  ASSUME IInv, NEW r \in Requests, Released(r) \/ Deadline(r) \/ Leaves(r)
  PROVE  IInv'
<1>1. CASE Released(r)
  BY <1>1, ReplyIs, AnswersKeeps DEF Released
<1>2. CASE Deadline(r)
  BY <1>2, ReplyIs, AnswersKeeps DEF Deadline
<1>3. CASE Leaves(r)
  BY <1>3, AnswersKeeps DEF Leaves, Results, Answer
<1> QED
  BY <1>1, <1>2, <1>3

(***************************************************************************)
(* The reports.                                                            *)
(***************************************************************************)

Report == [at : {"new", "sending", "done", "cancelled"}, says : Decisions \cup {None},
           toSend : Seq(StagedCalls), resolved : SUBSET EffectIds]

LEMMA ReportChanges ==
  ASSUME NEW f \in [Reports -> Report], NEW k \in Reports, NEW s \in Seq(StagedCalls)
  PROVE  /\ [f EXCEPT ![k].at = "cancelled"] \in [Reports -> Report]
         /\ [f EXCEPT ![k].at = "done", ![k].toSend = s] \in [Reports -> Report]
BY DEF Report

LEMMA ConfirmedIs ==
  ASSUME TypeOK, NEW d
  PROVE  \/ Confirmed(d) = <<>>
         \/ \E c \in Held(staged) : Confirmed(d) = <<c>> /\ c.id.args = d
<1> DEFINE first == {i \in DOMAIN staged : /\ staged[i].id.args = d
                                          /\ \A j \in 1 .. i - 1 : staged[j].id.args # d}
<1>1. CASE first = {}
  BY <1>1 DEF Confirmed
<1>2. CASE first # {}
  <2> DEFINE i == CHOOSE i \in first : TRUE
  <2>1. i \in first
    BY <1>2
  <2>2. Confirmed(d) = <<staged[i]>>
    BY <1>2 DEF Confirmed
  <2>3. staged[i] \in Held(staged) /\ staged[i].id.args = d
    BY <2>1 DEF Held
  <2> QED
    BY <2>2, <2>3
<1> QED
  BY <1>1, <1>2

\* What is held is decided at once: the calls of D confirmed, the others discarded.
Decides(D) ==
  LET ids == IdsOf(Held(staged))
  IN  /\ D \subseteq ids
      /\ DOMAIN outcome' = DOMAIN outcome \cup ids
      /\ \A i \in D : outcome'[i] = "dispatched"
      /\ \A i \in ids \ D : outcome'[i] = "discarded"
      /\ \A i \in DOMAIN outcome \ ids : outcome'[i] = outcome[i]

LEMMA HeldIds ==
  ASSUME IInv, NEW i \in IdsOf(Held(staged))
  PROVE  i \in EffectIds /\ i \notin DOMAIN outcome /\ NumberOf(i) < seq
<1>1. PICK c \in Held(staged) : i = c.id
  BY DEF IdsOf
<1>2. c.by \in Requests /\ c.id \in EffectIds
  BY HeldCalls DEF IInv
<1>3. caller[c.by].at # "new" /\ c.id = caller[c.by].id /\ c.id \notin DOMAIN outcome
  BY DEF IInv, Undecided
<1> QED
  BY <1>1, <1>2, <1>3 DEF IInv, OwnId

LEMMA DecidesKeeps ==
  ASSUME IInv, NEW D, Decides(D), staged' = <<>>,
         UNCHANGED <<seq, results, caller, told>>,
         \A r \in Requests : sends'[r] = IF caller[r].id \in D THEN 1 ELSE sends[r]
  PROVE  /\ DOMAIN outcome' \subseteq EffectIds
         /\ \A i \in DOMAIN outcome' : outcome'[i] \in Outcomes
         /\ \A i : IsDispatched(i)' <=> IsDispatched(i) \/ i \in D
         /\ \A i \in DOMAIN outcome : i \notin D /\ outcome'[i] = outcome[i]
         /\ OwnId' /\ Undecided' /\ Counted' /\ Told'
<1> DEFINE ids == IdsOf(Held(staged))
<1>1. \A i \in ids : i \in EffectIds /\ i \notin DOMAIN outcome /\ NumberOf(i) < seq
  BY HeldIds
<1>2. /\ D \subseteq ids
      /\ DOMAIN outcome' = DOMAIN outcome \cup ids
      /\ \A i \in D : outcome'[i] = "dispatched"
      /\ \A i \in ids \ D : outcome'[i] = "discarded"
      /\ \A i \in DOMAIN outcome \ ids : outcome'[i] = outcome[i]
  BY DEF Decides
<1> HIDE DEF ids
<1>3. /\ DOMAIN outcome \subseteq EffectIds
      /\ \A i \in DOMAIN outcome : outcome[i] \in Outcomes
  BY DEF IInv, TypeOK
<1>4. DOMAIN outcome' \subseteq EffectIds
  BY <1>1, <1>2, <1>3
<1>5. \A i \in DOMAIN outcome' : outcome'[i] \in Outcomes
  BY <1>1, <1>2, <1>3 DEF Outcomes
<1>6. \A i : IsDispatched(i)' <=> IsDispatched(i) \/ i \in D
  BY <1>1, <1>2 DEF IsDispatched
<1>7. \A i \in DOMAIN outcome : i \notin D /\ outcome'[i] = outcome[i]
  BY <1>1, <1>2
<1>8. OwnId'
  BY DEF IInv, OwnId
<1>9. Undecided'
  <2>1. Held(staged)' = {}
    BY DEF Held
  <2>2. \A i \in DOMAIN outcome' : NumberOf(i) < seq'
    BY <1>1, <1>2 DEF IInv, Undecided
  <2> QED
    BY <2>1, <2>2 DEF Undecided
<1>10. Counted'
  <2>1. \A r \in Requests : IsDispatched(caller[r].id)' <=>
                            IsDispatched(caller[r].id) \/ caller[r].id \in D
    BY <1>6 DEF IsDispatched
  <2> QED
    BY <2>1 DEF IInv, Counted
<1>11. Told'
  <2>1. \A r \in Requests : IsDispatched(caller[r].id) => IsDispatched(caller[r].id)'
    BY <1>6 DEF IsDispatched
  <2>2. \A r \in Requests : told[r] = "discarded" =>
          caller[r].id \in DOMAIN outcome' /\ outcome'[caller[r].id] = "discarded"
    BY <1>2, <1>7 DEF IInv, Told
  <2> QED
    BY <2>1, <2>2 DEF IInv, Told
<1> QED
  BY <1>4, <1>5, <1>6, <1>7, <1>8, <1>9, <1>10, <1>11

LEMMA RetireKeeps ==
  ASSUME IInv, NEW k \in Reports, NEW d \in Decisions, Retire(k, d)
  PROVE  IInv'
<1> DEFINE yes == Confirmed(d)
<1> DEFINE no == Held(staged) \ Held(yes)
<1> DEFINE ids == IdsOf(Held(staged))
<1>1. /\ report[k].at = "new" /\ report[k].resolved = {}
      /\ staged' = <<>>
      /\ outcome' = Set(Set(outcome, IdsOf(no), "discarded"), IdsOf(Held(yes)), "dispatched")
      /\ report' = [report EXCEPT ![k] =
                      [at |-> IF yes = <<>> THEN "done" ELSE "sending", says |-> d,
                       toSend |-> yes, resolved |-> IdsOf(Held(yes) \cup no)]]
      /\ sends' = IF yes = <<>> THEN sends ELSE SentTo(Head(yes))
      /\ events' = events \cup AtOnce(yes, no)
      /\ UNCHANGED <<mode, seq, results, caller, told, drops>>
  BY DEF Retire, IInv, Reported
<1>2. report \in [Reports -> Report] /\ staged \in Seq(StagedCalls)
  BY DEF IInv, TypeOK, Report
<1>3. ids \subseteq EffectIds /\ \A i \in ids : i \notin DOMAIN outcome
  BY HeldIds
<1>4. \/ yes = <<>> /\ Held(yes) = {}
      \/ \E c \in Held(staged) : yes = <<c>> /\ Held(yes) = {c} /\ c.id.args = d
  BY ConfirmedIs DEF Held, IInv
<1>5. /\ Held(yes) \subseteq Held(staged) /\ Held(yes) \cup no = Held(staged)
      /\ IdsOf(Held(yes)) \subseteq ids
      /\ IdsOf(Held(yes)) \cup IdsOf(no) = ids
  BY <1>4 DEF IdsOf
<1>6. Decides(IdsOf(Held(yes)))
  <2> DEFINE D == IdsOf(Held(yes))
  <2> DEFINE N == IdsOf(no)
  <2> DEFINE first == Set(outcome, N, "discarded")
  <2>1. /\ DOMAIN first = DOMAIN outcome \cup N
        /\ \A i \in N : first[i] = "discarded"
        /\ \A i \in DOMAIN outcome \ N : first[i] = outcome[i]
    <3> HIDE DEF N
    <3> QED
      BY DEF Set
  <2>2. /\ DOMAIN outcome' = DOMAIN first \cup D
        /\ \A i \in D : outcome'[i] = "dispatched"
        /\ \A i \in DOMAIN first \ D : outcome'[i] = first[i]
    <3>1. outcome' = Set(first, D, "dispatched")
      BY <1>1
    <3> HIDE DEF D, first
    <3> QED
      BY <3>1 DEF Set
  <2>3. D \cup N = ids
    BY <1>5
  <2> HIDE DEF D, N, first, ids
  <2>4. /\ D \subseteq ids
        /\ DOMAIN outcome' = DOMAIN outcome \cup ids
        /\ \A i \in D : outcome'[i] = "dispatched"
        /\ \A i \in ids \ D : outcome'[i] = "discarded"
        /\ \A i \in DOMAIN outcome \ ids : outcome'[i] = outcome[i]
    BY <2>1, <2>2, <2>3
  <2> QED
    BY <2>4 DEF Decides, D, ids
<1>7. \A i, j \in IdsOf(Held(yes)) : i = j
  BY <1>4 DEF IdsOf
<1>8. \A r \in Requests :
        sends'[r] = IF caller[r].id \in IdsOf(Held(yes)) THEN 1 ELSE sends[r]
  <2>1. CASE yes = <<>>
    BY <2>1, <1>1, <1>4 DEF IdsOf, Held
  <2>2. CASE yes # <<>>
    <3>1. PICK c \in Held(staged) : yes = <<c>> /\ Held(yes) = {c}
      BY <2>2, <1>4
    <3>2. c.by \in Requests /\ caller[c.by].at # "new" /\ c.id = caller[c.by].id
          /\ c.id \notin DOMAIN outcome /\ c.id \in EffectIds
      BY HeldCalls DEF IInv, Undecided
    <3>3. sends' = [sends EXCEPT ![c.by] = sends[c.by] + 1]
      BY <1>1, <2>2, <3>1 DEF SentTo
    <3>4. sends[c.by] = 0
      BY <3>2 DEF IInv, Counted, IsDispatched
    <3>5. \A r \in Requests : caller[r].id = c.id <=> r = c.by
      BY <3>2 DEF IInv, OwnId
    <3>6. IdsOf(Held(yes)) = {c.id}
      BY <3>1 DEF IdsOf
    <3>7. sends \in [Requests -> Nat]
      BY DEF IInv, TypeOK
    <3> HIDE DEF yes
    <3> QED
      BY <3>2, <3>3, <3>4, <3>5, <3>6, <3>7
  <2> QED
    BY <2>1, <2>2
<1>9. /\ DOMAIN outcome' \subseteq EffectIds
      /\ \A i \in DOMAIN outcome' : outcome'[i] \in Outcomes
      /\ \A i : IsDispatched(i)' <=> IsDispatched(i) \/ i \in IdsOf(Held(yes))
      /\ \A i \in DOMAIN outcome : i \notin IdsOf(Held(yes)) /\ outcome'[i] = outcome[i]
      /\ OwnId' /\ Undecided' /\ Counted' /\ Told'
  BY <1>1, <1>6, <1>8, DecidesKeeps
<1>10. /\ report'[k].at \in {"done", "sending"} /\ report'[k].says = d
       /\ report'[k].toSend = yes /\ report'[k].resolved = ids
       /\ report'[k].at = "sending" => yes # <<>>
       /\ \A q \in Reports \ {k} : report'[q] = report[q]
  BY <1>1, <1>2, <1>5
<1>11. DOMAIN outcome' = DOMAIN outcome \cup ids
       /\ \A i \in ids \ IdsOf(Held(yes)) : outcome'[i] = "discarded"
  BY <1>6 DEF Decides
<1>12. TypeOK'
  <2>1. yes \in Seq(StagedCalls)
    <3>1. Held(staged) \subseteq StagedCalls
      BY <1>2, HeldIn
    <3>2. ASSUME NEW c \in StagedCalls PROVE <<c>> \in Seq(StagedCalls)
      OBVIOUS
    <3>3. <<>> \in Seq(StagedCalls)
      BY EmptySeq
    <3>4. yes = <<>> \/ \E c \in StagedCalls : yes = <<c>>
      BY <3>1, <1>4
    <3> HIDE DEF yes
    <3> QED
      BY <3>2, <3>3, <3>4
  <2>2. report' \in [Reports -> Report]
    <3>1. [at |-> IF yes = <<>> THEN "done" ELSE "sending", says |-> d,
           toSend |-> yes, resolved |-> IdsOf(Held(yes) \cup no)] \in Report
      BY <2>1, <1>3, <1>5 DEF Report
    <3> QED
      BY <3>1, <1>1, <1>2
  <2>3. sends' \in [Requests -> Nat]
    <3>1. sends \in [Requests -> Nat]
      BY DEF IInv, TypeOK
    <3>2. sends' = sends \/ \E r : sends' = [sends EXCEPT ![r] = sends[r] + 1]
      BY <1>1 DEF SentTo
    <3> QED
      BY <3>1, <3>2
  <2>4. events' \subseteq EffectIds
    BY <1>1, <1>3, <1>5 DEF IInv, TypeOK, AtOnce
  <2>5. staged' \in Seq(StagedCalls)
    BY <1>1, EmptySeq
  <2> QED
    BY <2>2, <2>3, <2>4, <2>5, <1>1, <1>9 DEF IInv, TypeOK, Report
<1>13. Heard'
  <2>1. \A i \in DOMAIN results' : IsDispatched(i)'
    BY <1>1, <1>9 DEF IInv, Heard
  <2>2. ASSUME NEW i \in events'
        PROVE  /\ i \in DOMAIN outcome'
               /\ \/ outcome'[i] = "discarded"
                  \/ i \in DOMAIN results'
                  \/ \E q \in Reports : report'[q].at = "cancelled" /\ i \in report'[q].resolved
    <3>1. CASE i \in events
      <4>1. /\ i \in DOMAIN outcome
            /\ \/ outcome[i] = "discarded"
               \/ i \in DOMAIN results
               \/ \E q \in Reports : report[q].at = "cancelled" /\ i \in report[q].resolved
        BY <3>1 DEF IInv, Heard
      <4>2. outcome'[i] = outcome[i] /\ i \in DOMAIN outcome' /\ results' = results
        BY <4>1, <1>1, <1>9, <1>11
      <4>3. \A q \in Reports : report[q].at = "cancelled" => report'[q] = report[q]
        BY <1>1, <1>10
      <4> HIDE DEF yes, no, ids
      <4> QED
        BY <4>1, <4>2, <4>3
    <3>2. CASE i \notin events
      <4>1. yes = <<>> /\ i \in ids /\ IdsOf(Held(yes)) = {}
        BY <3>2, <1>1, <1>4, <1>5 DEF AtOnce, IdsOf
      <4> QED
        BY <4>1, <1>11
    <3> QED
      BY <3>1, <3>2
  <2> QED
    BY <2>1, <2>2 DEF Heard
<1>14. Reported'
  <2> SUFFICES ASSUME NEW q \in Reports
               PROVE  /\ report'[q].at = "new" => report'[q].resolved = {}
                      /\ report'[q].resolved \subseteq DOMAIN outcome'
                      /\ \A i, j \in report'[q].resolved :
                           IsDispatched(i)' /\ IsDispatched(j)' => i = j
                      /\ report'[q].at = "sending" =>
                           /\ Len(report'[q].toSend) = 1
                           /\ Head(report'[q].toSend).id \in report'[q].resolved
                           /\ IsDispatched(Head(report[q].toSend).id)'
    BY DEF Reported, IsDispatched
  <2>1. CASE q = k
    <3>1. \A i \in ids : IsDispatched(i)' => i \in IdsOf(Held(yes))
      BY <1>3, <1>9 DEF IsDispatched
    <3>2. yes # <<>> => /\ Len(yes) = 1 /\ Head(yes).id \in IdsOf(Held(yes))
                        /\ Head(yes).id \in ids
      BY <1>4, <1>5 DEF IdsOf
    <3>3. yes # <<>> => Head(yes).id \in DOMAIN outcome' /\ outcome'[Head(yes).id] = "dispatched"
      BY <3>2, <1>6, <1>11 DEF Decides
    <3>4. report'[k].at = "sending" => IsDispatched(Head(report[k].toSend).id)'
      BY <3>3, <1>10 DEF IsDispatched
    <3> HIDE DEF yes, no, ids
    <3> QED
      BY <2>1, <3>1, <3>2, <3>4, <1>7, <1>10, <1>11
  <2>2. CASE q # k
    <3>1. report'[q] = report[q]
      BY <2>2, <1>10
    <3>2. /\ report[q].at = "new" => report[q].resolved = {}
          /\ report[q].resolved \subseteq DOMAIN outcome
          /\ \A i, j \in report[q].resolved : IsDispatched(i) /\ IsDispatched(j) => i = j
          /\ report[q].at = "sending" =>
               /\ Len(report[q].toSend) = 1
               /\ Head(report[q].toSend).id \in report[q].resolved
               /\ IsDispatched(Head(report[q].toSend).id)
      BY DEF IInv, Reported
    <3> QED
      BY <3>1, <3>2, <1>9, <1>11
  <2> QED
    BY <2>1, <2>2
<1>15. Decided'
  <2> SUFFICES ASSUME NEW i \in DOMAIN outcome', outcome'[i] = "dispatched"
               PROVE  \E q \in Reports : i \in report'[q].resolved /\ report'[q].says = i.args
    BY DEF Decided
  <2>1. CASE i \in DOMAIN outcome
    <3>1. PICK q \in Reports : i \in report[q].resolved /\ report[q].says = i.args
      BY <2>1, <1>9 DEF IInv, Decided
    <3>2. q # k
      BY <3>1, <1>1
    <3> QED
      BY <3>1, <3>2, <1>10
  <2>2. CASE i \notin DOMAIN outcome
    <3>1. i \in IdsOf(Held(yes)) /\ i \in ids
      BY <2>2, <1>11
    <3>2. i.args = d
      BY <3>1, <1>4 DEF IdsOf
    <3> QED
      BY <3>1, <3>2, <1>10
  <2> QED
    BY <2>1, <2>2
<1> QED
  BY <1>9, <1>12, <1>13, <1>14, <1>15 DEF IInv

LEMMA HearsKeeps ==
  ASSUME IInv, NEW k \in Reports, NEW what \in Results, Hears(k, what)
  PROVE  IInv'
<1> DEFINE i == Head(report[k].toSend).id
<1>1. /\ report[k].at = "sending" /\ Len(report[k].toSend) = 1
      /\ i \in report[k].resolved /\ IsDispatched(i)
      /\ report[k].resolved \subseteq DOMAIN outcome
      /\ \A j, l \in report[k].resolved : IsDispatched(j) /\ IsDispatched(l) => j = l
  BY DEF Hears, IInv, Reported
<1>2. report \in [Reports -> Report]
  BY DEF IInv, TypeOK, Report
<1>3. Tail(report[k].toSend) = <<>> /\ <<>> \in Seq(StagedCalls)
  <2>1. report[k].toSend \in Seq(StagedCalls)
    BY <1>2 DEF Report
  <2>2. Tail(report[k].toSend) \in Seq(StagedCalls) /\ Len(Tail(report[k].toSend)) = 0
    BY <2>1, <1>1
  <2> QED
    BY <2>2, EmptySeq
<1>4. /\ results' = Set(results, {i}, what)
      /\ report' = [report EXCEPT ![k].at = "done", ![k].toSend = <<>>]
      /\ events' = events \cup report[k].resolved
      /\ UNCHANGED <<mode, seq, staged, outcome, caller, told, sends, drops>>
  BY <1>3 DEF Hears
<1>5. /\ DOMAIN results' = DOMAIN results \cup {i}
      /\ \A j \in DOMAIN results' :
           \/ results'[j] = what
           \/ j \in DOMAIN results /\ results'[j] = results[j]
  <2> HIDE DEF i
  <2> QED
    BY <1>4 DEF Set
<1>6. /\ report'[k].at = "done" /\ report'[k].resolved = report[k].resolved
      /\ report'[k].says = report[k].says
      /\ \A q \in Reports \ {k} : report'[q] = report[q]
  <2> HIDE DEF i
  <2> QED
    BY <1>2, <1>4 DEF Report
<1>7. TypeOK'
  <2>1. report' \in [Reports -> Report]
    BY <1>2, <1>3, <1>4, ReportChanges
  <2>2. i \in EffectIds /\ report[k].resolved \subseteq EffectIds
    BY <1>1 DEF IInv, TypeOK
  <2>3. DOMAIN results' \subseteq EffectIds /\ \A j \in DOMAIN results' : results'[j] \in Results
    <3> HIDE DEF i
    <3> QED
      BY <2>2, <1>5 DEF IInv, TypeOK
  <2>4. events' \subseteq EffectIds
    BY <2>2, <1>4 DEF IInv, TypeOK
  <2> QED
    BY <2>1, <2>3, <2>4, <1>4 DEF IInv, TypeOK, Report
<1>8. OwnId' /\ Counted' /\ Told'
  BY <1>4 DEF IInv, OwnId, Counted, Told, IsDispatched
<1>9. Undecided'
  BY <1>4 DEF IInv, Undecided, Held
<1>10. Heard'
  <2>1. \A j \in DOMAIN results' : IsDispatched(j)'
    BY <1>1, <1>4, <1>5 DEF IInv, Heard, IsDispatched
  <2>2. ASSUME NEW j \in events'
        PROVE  /\ j \in DOMAIN outcome
               /\ \/ outcome[j] = "discarded"
                  \/ j \in DOMAIN results'
                  \/ \E q \in Reports : report'[q].at = "cancelled" /\ j \in report'[q].resolved
    <3>1. CASE j \in events
      <4>1. /\ j \in DOMAIN outcome
            /\ \/ outcome[j] = "discarded"
               \/ j \in DOMAIN results
               \/ \E q \in Reports : report[q].at = "cancelled" /\ j \in report[q].resolved
        BY <3>1 DEF IInv, Heard
      <4>2. \A q \in Reports : report[q].at = "cancelled" => report'[q] = report[q]
        BY <1>1, <1>6
      <4> HIDE DEF i
      <4> QED
        BY <4>1, <4>2, <1>5
    <3>2. CASE j \in report[k].resolved
      <4>1. j \in DOMAIN outcome /\ outcome[j] \in {"dispatched", "discarded"}
        BY <3>2, <1>1 DEF IInv, TypeOK, Outcomes
      <4>2. IsDispatched(j) => j = i
        BY <3>2, <1>1
      <4> QED
        BY <4>1, <4>2, <1>5 DEF IsDispatched
    <3> QED
      BY <3>1, <3>2, <1>4
  <2> QED
    BY <2>1, <2>2, <1>4 DEF Heard
<1>11. Reported'
  <2> HIDE DEF i
  <2>1. \A q \in Reports : report'[q].resolved = report[q].resolved
    BY <1>6
  <2>2. \A q \in Reports : report'[q].at \in {"new", "sending"} => report'[q] = report[q]
    BY <1>6
  <2>3. outcome' = outcome
    BY <1>4
  <2> QED
    BY <2>1, <2>2, <2>3 DEF IInv, Reported, IsDispatched
<1>12. Decided'
  BY <1>4, <1>6 DEF IInv, Decided
<1> QED
  BY <1>7, <1>8, <1>9, <1>10, <1>11, <1>12 DEF IInv

LEMMA CancelledKeeps ==
  ASSUME IInv, NEW k \in Reports, Cancelled(k)
  PROVE  IInv'
<1>1. /\ report[k].at = "sending"
      /\ report' = [report EXCEPT ![k].at = "cancelled"]
      /\ events' = events \cup report[k].resolved
      /\ UNCHANGED <<mode, seq, staged, outcome, results, caller, told, sends, drops>>
  BY DEF Cancelled
<1>2. report \in [Reports -> Report]
  BY DEF IInv, TypeOK, Report
<1>3. report[k].resolved \subseteq DOMAIN outcome
  BY DEF IInv, Reported
<1>4. /\ report'[k].at = "cancelled" /\ report'[k].resolved = report[k].resolved
      /\ report'[k].says = report[k].says
      /\ \A q \in Reports \ {k} : report'[q] = report[q]
  BY <1>1, <1>2 DEF Report
<1>5. TypeOK'
  <2>1. report' \in [Reports -> Report]
    BY <1>1, <1>2, ReportChanges, EmptySeq
  <2>2. events' \subseteq EffectIds
    BY <1>1, <1>3 DEF IInv, TypeOK
  <2> QED
    BY <2>1, <2>2, <1>1 DEF IInv, TypeOK, Report
<1>6. OwnId' /\ Counted' /\ Told'
  BY <1>1 DEF IInv, OwnId, Counted, Told, IsDispatched
<1>7. Undecided'
  BY <1>1 DEF IInv, Undecided, Held
<1>8. Heard'
  <2>1. \A j \in DOMAIN results' : IsDispatched(j)'
    BY <1>1 DEF IInv, Heard, IsDispatched
  <2>2. \A q \in Reports : report[q].at = "cancelled" =>
          report'[q].at = "cancelled" /\ report'[q].resolved = report[q].resolved
    BY <1>4
  <2> QED
    BY <2>1, <2>2, <1>1, <1>3, <1>4 DEF IInv, Heard
<1>9. Reported'
  BY <1>1, <1>4 DEF IInv, Reported, IsDispatched
<1>10. Decided'
  BY <1>1, <1>4 DEF IInv, Decided
<1> QED
  BY <1>5, <1>6, <1>7, <1>8, <1>9, <1>10 DEF IInv

LEMMA DiscardAllKeeps ==
  ASSUME IInv, DiscardAll
  PROVE  IInv'
<1> DEFINE ids == IdsOf(Held(staged))
<1>1. /\ staged' = <<>> /\ events' = events \cup ids
      /\ outcome' = Set(outcome, ids, "discarded")
      /\ drops < MaxDrops /\ drops' = drops + 1
      /\ UNCHANGED <<mode, seq, results, caller, told, report, sends>>
  BY DEF DiscardAll
<1>2. ids \subseteq EffectIds
  BY HeldIds
<1>3. /\ DOMAIN outcome' = DOMAIN outcome \cup ids
      /\ \A i \in ids : outcome'[i] = "discarded"
      /\ \A i \in DOMAIN outcome \ ids : outcome'[i] = outcome[i]
  <2> HIDE DEF ids
  <2> QED
    BY <1>1 DEF Set
<1>4. Decides({})
  BY <1>3 DEF Decides
<1>5. /\ DOMAIN outcome' \subseteq EffectIds
      /\ \A i \in DOMAIN outcome' : outcome'[i] \in Outcomes
      /\ \A i : IsDispatched(i)' <=> IsDispatched(i)
      /\ \A i \in DOMAIN outcome : outcome'[i] = outcome[i]
      /\ OwnId' /\ Undecided' /\ Counted' /\ Told'
  BY <1>1, <1>4, DecidesKeeps
<1>6. TypeOK'
  <2>1. staged' \in Seq(StagedCalls)
    BY <1>1, EmptySeq
  <2>2. drops' \in 0 .. MaxDrops
    BY <1>1 DEF IInv, TypeOK
  <2>3. events' \subseteq EffectIds
    BY <1>1, <1>2 DEF IInv, TypeOK
  <2> QED
    BY <2>1, <2>2, <2>3, <1>1, <1>5 DEF IInv, TypeOK
<1>7. Heard'
  <2>1. \A j \in DOMAIN results' : IsDispatched(j)'
    BY <1>1, <1>5 DEF IInv, Heard
  <2>2. \A i \in events' :
          /\ i \in DOMAIN outcome'
          /\ \/ outcome'[i] = "discarded"
             \/ i \in DOMAIN results'
             \/ \E q \in Reports : report'[q].at = "cancelled" /\ i \in report'[q].resolved
    <3> HIDE DEF ids
    <3> QED
      BY <1>1, <1>3, <1>5 DEF IInv, Heard
  <2> QED
    BY <2>1, <2>2 DEF Heard
<1>8. Reported'
  <2> SUFFICES ASSUME NEW q \in Reports
               PROVE  /\ report[q].at = "new" => report[q].resolved = {}
                      /\ report[q].resolved \subseteq DOMAIN outcome'
                      /\ \A i, j \in report[q].resolved :
                           IsDispatched(i)' /\ IsDispatched(j)' => i = j
                      /\ report[q].at = "sending" =>
                           /\ Len(report[q].toSend) = 1
                           /\ Head(report[q].toSend).id \in report[q].resolved
                           /\ IsDispatched(Head(report[q].toSend).id)'
    BY <1>1 DEF Reported, IsDispatched
  <2>1. IsDispatched(Head(report[q].toSend).id)' <=> IsDispatched(Head(report[q].toSend).id)
    BY <1>1, <1>5 DEF IsDispatched
  <2> QED
    BY <2>1, <1>3, <1>5 DEF IInv, Reported
<1>9. Decided'
  BY <1>1, <1>3, <1>5 DEF IInv, Decided
<1> QED
  BY <1>5, <1>6, <1>7, <1>8, <1>9 DEF IInv

(***************************************************************************)
(* The theorems.                                                           *)
(***************************************************************************)

LEMMA NextKeeps == IInv /\ [Next]_vars => IInv'
<1> SUFFICES ASSUME IInv, [Next]_vars PROVE IInv'
  OBVIOUS
<1>1. ASSUME NEW r \in Requests, Stage(r) PROVE IInv'
  BY <1>1, StageKeeps
<1>2. ASSUME NEW r \in Requests, Released(r) \/ Deadline(r) \/ Leaves(r) PROVE IInv'
  BY <1>2, ClientKeeps
<1>3. ASSUME NEW k \in Reports, NEW d \in Decisions, Retire(k, d) PROVE IInv'
  BY <1>3, RetireKeeps
<1>4. ASSUME NEW k \in Reports, Hears(k, "result") \/ Hears(k, "error") PROVE IInv'
  BY <1>4, HearsKeeps DEF Results
<1>5. ASSUME NEW k \in Reports, Cancelled(k) PROVE IInv'
  BY <1>5, CancelledKeeps
<1>6. CASE DiscardAll
  BY <1>6, DiscardAllKeeps
<1>7. CASE Stall \/ UNCHANGED vars
  <2>1. mode' \in {"handles", "blocking"}
        /\ UNCHANGED <<seq, staged, outcome, results, events, caller, told, report, sends, drops>>
    BY <1>7 DEF Stall, vars, IInv, TypeOK
  <2>2. TypeOK' /\ Undecided'
    BY <2>1 DEF IInv, TypeOK, Undecided, Held
  <2>3. OwnId' /\ Counted' /\ Heard' /\ Reported' /\ Decided' /\ Told'
    BY <2>1 DEF IInv, OwnId, Counted, Heard, Reported, Decided, Told, IsDispatched
  <2> QED
    BY <2>2, <2>3 DEF IInv
<1> QED
  BY <1>1, <1>2, <1>3, <1>4, <1>5, <1>6, <1>7 DEF Next

\* Every reachable state satisfies the inductive invariant.
THEOREM Invariance == Spec => []IInv
<1>1. Init => IInv
  BY Initially
<1>2. IInv /\ [Next]_vars => IInv'
  BY NextKeeps
<1> QED
  BY <1>1, <1>2, PTL DEF Spec

\* The state of the proxy keeps its types.
THEOREM TypeCorrect == Spec => []TypeOK
<1>1. IInv => TypeOK
  BY DEF IInv
<1> QED
  BY <1>1, Invariance, PTL

\* A client told that its write was discarded is never sent, and one given an
\* answer was sent: whatever is staged, decided, discarded or timed out meanwhile.
THEOREM ToldTheTruth == Spec => []ToldOfItsOwn
<1>1. IInv => ToldOfItsOwn
  BY DEF IInv, Told, Counted, IsDispatched, ToldOfItsOwn
<1> QED
  BY <1>1, Invariance, PTL

\* A waiting call is released by what resolved it, with its answer on record.
THEOREM ReleasedInTime == Spec => []ReleasedWithItsAnswer
<1>1. IInv => ReleasedWithItsAnswer
  BY DEF IInv, TypeOK, Outcomes, Heard, At, ReleasedWithItsAnswer
<1> QED
  BY <1>1, Invariance, PTL

\* As many writes go out for a decision as it was reported, at most, and none
\* twice: each sent write is the one call some report confirmed.
THEOREM NoMoreThanDecided == Spec => []OneSendPerDecision
<1>1. IInv => OneSendPerDecision
  <2> SUFFICES ASSUME IInv PROVE OneSendPerDecision
    OBVIOUS
  <2>1. \A r \in Requests : sends[r] <= 1
    BY DEF IInv, Counted
  <2>2. ASSUME NEW d \in Decisions
        PROVE  Cardinality({r \in Requests : Wants[r] = d /\ sends[r] = 1})
                 <= Cardinality({k \in Reports : report[k].says = d})
    <3> DEFINE S == {r \in Requests : Wants[r] = d /\ sends[r] = 1}
    <3> DEFINE T == {k \in Reports : report[k].says = d}
    <3> DEFINE f == [r \in S |-> CHOOSE k \in T : caller[r].id \in report[k].resolved]
    <3>1. ASSUME NEW r \in S
          PROVE  /\ caller[r].at # "new" /\ IsDispatched(caller[r].id)
                 /\ \E k \in T : caller[r].id \in report[k].resolved
      <4>1. IsDispatched(caller[r].id)
        BY DEF IInv, Counted
      <4>2. caller[r].at # "new" /\ caller[r].id.args = d
        BY <4>1 DEF IInv, TypeOK, OwnId, IsDispatched
      <4>3. \E k \in Reports : caller[r].id \in report[k].resolved
                            /\ report[k].says = caller[r].id.args
        BY <4>1 DEF IInv, Decided, IsDispatched
      <4> QED
        BY <4>1, <4>2, <4>3
    <3>2. \A r \in S : f[r] \in T /\ caller[r].id \in report[f[r]].resolved
      BY <3>1
    <3>3. ASSUME NEW r \in S, NEW s \in S, f[r] = f[s] PROVE r = s
      <4> HIDE DEF f
      <4>1. caller[r].id = caller[s].id
        BY <3>1, <3>2, <3>3 DEF IInv, Reported
      <4> QED
        BY <4>1, <3>1 DEF IInv, OwnId
    <3>4. f \in [S -> T]
      BY <3>2
    <3>5. f \in Injection(S, T)
      BY <3>3, <3>4 DEF Injection, IsInjective
    <3>6. IsFiniteSet(T)
      BY FS_Subset
    <3> QED
      BY <3>5, <3>6, FS_Injection
  <2> QED
    BY <2>1, <2>2 DEF OneSendPerDecision
<1> QED
  BY <1>1, Invariance, PTL
=============================================================================
