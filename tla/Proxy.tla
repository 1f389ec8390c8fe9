-------------------------------- MODULE Proxy --------------------------------
(***************************************************************************)
(* The MCP proxy: calls that write are held (ProxyState.stage) until a     *)
(* report of the model's decision comes through the specunode.retire tool, *)
(* which sends the one it confirms and drops the rest.  The caller has a   *)
(* handle and has left, or waits for its own call, up to a deadline.       *)
(* Everything runs on one event loop: an action is what happens between    *)
(* two awaits.  Reads, which are forwarded at once, hold nothing.          *)
(***************************************************************************)
EXTENDS Integers, Sequences, FiniteSets

CONSTANTS Requests,  \* calls to tools that write, by the proxy's clients
          Decisions,
          Wants,     \* the decision each call is: its tool and arguments
          Reports,   \* calls to specunode.retire
          MaxDrops,  \* bound: calls to specunode.discard
          None

EffectIds == [number : Nat, args : Decisions]

ASSUME ProxyAssumption ==
  /\ Wants \in [Requests -> Decisions]
  /\ IsFiniteSet(Requests) /\ IsFiniteSet(Reports)
  /\ MaxDrops \in Nat
  /\ None \notin EffectIds \cup Decisions

VARIABLES
  mode,     \* ProxyState.mode
  seq,      \* ProxyState._seq: what effect ids are numbered from
  staged,   \* the calls held, in order: who made each, and its effect id
  outcome,  \* _outcome, by effect id: dispatched, discarded
  results,  \* results, by effect id
  events,   \* effect ids whose event is set
  caller,   \* each request: what its handler is doing, and the id it waits on
  told,     \* what the handler answered
  report,   \* each report: what it says, has to send, and has resolved
  sends,    \* how often each request was sent upstream
  drops     \* counted for the bound

vars == <<mode, seq, staged, outcome, results, events, caller, told, report,
          sends, drops>>

Nothing == <<>>

Init ==
  /\ mode \in {"handles", "blocking"}
  /\ seq = 0 /\ staged = <<>>
  /\ outcome = Nothing /\ results = Nothing /\ events = {}
  /\ caller = [r \in Requests |-> [at |-> "new", id |-> None]]
  /\ told = [r \in Requests |-> "nothing"]
  /\ report = [k \in Reports |-> [at |-> "new", says |-> None,
                                 toSend |-> <<>>, resolved |-> {}]]
  /\ sends = [r \in Requests |-> 0]
  /\ drops = 0

Held(s) == {s[i] : i \in DOMAIN s}
IdsOf(C) == {c.id : c \in C}

\* f with x at every id in S.
Set(f, S, x) == [i \in DOMAIN f \cup S |-> IF i \in S THEN x ELSE f[i]]

\* What f has for an id, "nothing" where it has none.
At(f, i) == IF i \in DOMAIN f THEN f[i] ELSE "nothing"

-----------------------------------------------------------------------------
AsManyAsHeld(n) == Len(staged)                                      \* Defect
Number(n) == n
EffectId(r) == [number |-> Number(seq), args |-> Wants[r]]

\* proxied: the write is held; a client that knows handles is given one.
Stage(r) ==
  /\ caller[r].at = "new"
  /\ seq' = seq + 1
  /\ staged' = Append(staged, [by |-> r, id |-> EffectId(r)])
  /\ events' = events \ {EffectId(r)}
  /\ IF mode = "handles"
     THEN /\ caller' = [caller EXCEPT ![r] = [at |-> "done", id |-> EffectId(r)]]
          /\ told' = [told EXCEPT ![r] = "handle"]
     ELSE /\ caller' = [caller EXCEPT ![r] = [at |-> "waiting", id |-> EffectId(r)]]
          /\ UNCHANGED told
  /\ UNCHANGED <<mode, outcome, results, report, sends, drops>>

\* What proxied answers, once it is released or its deadline has passed.
Reply(r, decided) ==
  IF At(outcome, caller[r].id) = "dispatched" THEN At(results, caller[r].id)
  ELSE IF decided THEN "discarded" ELSE "still held"

Answers(r, what) ==
  /\ caller[r].at = "waiting"
  /\ caller' = [caller EXCEPT ![r].at = "done"]
  /\ told' = [told EXCEPT ![r] = what]
  /\ UNCHANGED <<mode, seq, staged, outcome, results, events, report, sends, drops>>

Released(r) == caller[r].id \in events /\ Answers(r, Reply(r, TRUE))

\* wait_for_call times out: also while the report that resolved the call has
\* still to hear from upstream.
Deadline(r) == Answers(r, Reply(r, FALSE))

\* The client cancels its request: the call stays held.
Leaves(r) == Answers(r, "cancelled")

\* ProxyState.retire confirms one held call that is what was decided.
AllEqual(d) == SelectSeq(staged, LAMBDA c : c.id.args = d)          \* Defect
Confirmed(d) ==
  LET first == {i \in DOMAIN staged : /\ staged[i].id.args = d
                                      /\ \A j \in 1 .. i - 1 : staged[j].id.args # d}
  IN  IF first = {} THEN <<>> ELSE <<staged[CHOOSE i \in first : TRUE]>>

\* Those released at once: with nothing to send, those dropped.
Resolved(yes, no) == IdsOf(Held(yes) \cup no)                       \* Defect
AtOnce(yes, no) == IF yes = <<>> THEN IdsOf(no) ELSE {}

SentTo(call) == [sends EXCEPT ![call.by] = @ + 1]

Retire(k, d) ==
  /\ report[k].at = "new"
  /\ LET yes == Confirmed(d)
         no  == Held(staged) \ Held(yes)
     IN  /\ outcome' = Set(Set(outcome, IdsOf(no), "discarded"),
                           IdsOf(Held(yes)), "dispatched")
         /\ report' = [report EXCEPT ![k] =
                         [at |-> IF yes = <<>> THEN "done" ELSE "sending",
                          says |-> d, toSend |-> yes,
                          resolved |-> IdsOf(Held(yes) \cup no)]]
         /\ sends' = IF yes = <<>> THEN sends ELSE SentTo(Head(yes))
         /\ events' = events \cup AtOnce(yes, no)
  /\ staged' = <<>>
  /\ UNCHANGED <<mode, seq, results, caller, told, drops>>

\* Upstream answers or fails: its answer is recorded, the next call the report
\* confirmed is sent, and once there is none those it resolved are released.
Hears(k, what) ==
  /\ report[k].at = "sending"
  /\ LET rest == Tail(report[k].toSend)
     IN  /\ results' = Set(results, {Head(report[k].toSend).id}, what)
         /\ IF rest = <<>>
            THEN /\ report' = [report EXCEPT ![k].at = "done", ![k].toSend = rest]
                 /\ events' = events \cup report[k].resolved
                 /\ UNCHANGED sends
            ELSE /\ report' = [report EXCEPT ![k].toSend = rest]
                 /\ sends' = SentTo(Head(rest))
                 /\ UNCHANGED events
  /\ UNCHANGED <<mode, seq, staged, outcome, caller, told, drops>>

\* The report's request is cancelled while it waits for upstream.
Cancelled(k) ==
  /\ report[k].at = "sending"
  /\ report' = [report EXCEPT ![k].at = "cancelled"]
  /\ events' = events \cup report[k].resolved
  /\ UNCHANGED <<mode, seq, staged, outcome, results, caller, told, sends, drops>>

\* specunode.discard, confirmed.
DiscardAll ==
  /\ drops < MaxDrops /\ drops' = drops + 1
  /\ outcome' = Set(outcome, IdsOf(Held(staged)), "discarded")
  /\ events' = events \cup IdsOf(Held(staged))
  /\ staged' = <<>>
  /\ UNCHANGED <<mode, seq, results, caller, told, report, sends>>

Stall ==
  /\ mode = "handles" /\ mode' = "blocking"
  /\ UNCHANGED <<seq, staged, outcome, results, events, caller, told, report,
                 sends, drops>>

Next ==
  \/ \E r \in Requests : Stage(r) \/ Released(r) \/ Deadline(r) \/ Leaves(r)
  \/ \E k \in Reports, d \in Decisions : Retire(k, d)
  \/ \E k \in Reports : Hears(k, "result") \/ Hears(k, "error") \/ Cancelled(k)
  \/ DiscardAll \/ Stall

Spec == Init /\ [][Next]_vars

-----------------------------------------------------------------------------
StagedCalls == [by : Requests, id : EffectIds]
Outcomes == {"dispatched", "discarded"}
Results == {"result", "error"}
Answer == Results \cup {"discarded", "still held", "cancelled", "nothing"}

TypeOK ==
  /\ mode \in {"handles", "blocking"}
  /\ seq \in Nat
  /\ staged \in Seq(StagedCalls)
  /\ DOMAIN outcome \cup DOMAIN results \subseteq EffectIds
  /\ \A i \in DOMAIN outcome : outcome[i] \in Outcomes
  /\ \A i \in DOMAIN results : results[i] \in Results
  /\ events \subseteq EffectIds
  /\ caller \in [Requests ->
                  [at : {"new", "waiting", "done"}, id : EffectIds \cup {None}]]
  /\ told \in [Requests -> Answer \cup {"handle"}]
  /\ report \in [Reports -> [at : {"new", "sending", "done", "cancelled"},
                             says : Decisions \cup {None}, toSend : Seq(StagedCalls),
                             resolved : SUBSET EffectIds]]
  /\ sends \in [Requests -> Nat]
  /\ drops \in 0 .. MaxDrops

(* One report of a decision sends one write at most, of those that are what *)
(* was decided, and no write is sent twice: whatever else is reported while *)
(* it waits for upstream, and whatever is held by then.                     *)
OneSendPerDecision ==
  /\ \A r \in Requests : sends[r] <= 1
  /\ \A d \in Decisions :
       Cardinality({r \in Requests : Wants[r] = d /\ sends[r] = 1})
         <= Cardinality({k \in Reports : report[k].says = d})

(* What a client is told of its own write stays true: one told it was       *)
(* discarded is never sent, and one given an upstream's answer was sent.    *)
ToldOfItsOwn ==
  \A r \in Requests :
    /\ told[r] = "discarded" => sends[r] = 0
    /\ told[r] \in {"result", "error"} => sends[r] = 1

(* A waiting call is released by the report that resolved it and no other,  *)
(* with its answer on record unless that report was cancelled.              *)
ReleasedWithItsAnswer ==
  \A r \in Requests :
    caller[r].id \in events =>
      \/ At(outcome, caller[r].id) = "discarded"
      \/ /\ At(outcome, caller[r].id) = "dispatched"
         /\ \/ caller[r].id \in DOMAIN results
            \/ \E k \in Reports : /\ report[k].at = "cancelled"
                                  /\ caller[r].id \in report[k].resolved

(* What a caller would be told were its deadline to pass now is so: its     *)
(* write is still held, or it is given the answer to it.  It is not so      *)
(* while the report that resolved its write waits for upstream.             *)
DeadlineTellsTheTruth ==
  \A r \in Requests :
    caller[r].at = "waiting" /\ caller[r].id \notin events =>
      CASE Reply(r, FALSE) = "still held" -> \E c \in Held(staged) : c.by = r
        [] OTHER -> Reply(r, FALSE) # "nothing"
=============================================================================
