------------------------------- MODULE Driven -------------------------------
(***************************************************************************)
(* A run whose loop is not the Scheduler's: a wrapped LangGraph, in which  *)
(* the framework decides which nodes run, starts the tasks of a superstep  *)
(* side by side, and reaches the runtime from inside each of them, through *)
(* the shim integrations/langgraph.py put in the node's place              *)
(* (Scheduler._run_driven and _run_in_node).                               *)
(*                                                                         *)
(* Nothing orders the nodes of a superstep: each is forked from the run's  *)
(* cursor as it stands when its task starts, retires when it is at rest,   *)
(* and puts what it has moved back into that cursor.  The framework knows  *)
(* a node only by its task: when one raises it cancels the others, waits   *)
(* for them, and raises; it is also cancelled from outside.  What a node   *)
(* decides is Turn's, what a write goes through is Dispatch's, and there   *)
(* is no resume: the graph's state is its checkpointer's.                  *)
(***************************************************************************)
EXTENDS Integers, Sequences, FiniteSets, FiniteSetsExt

CONSTANTS Nodes,
          Supersteps,               \* what the framework may run at once:
                                    \*   sequences of nodes, a node perhaps twice
          MaxSupersteps, MaxCalls   \* bounds: of a run, and of a node's calls

ASSUME DrivenAssumption ==
  /\ Supersteps \subseteq Seq(Nodes)
  /\ {MaxSupersteps, MaxCalls} \subseteq Nat

VARIABLES
  cursor,   \* Scheduler._cursor: the position, and the visits to each node
  acts,     \* the branches, one for each task started, in that order
  row,      \* the claims, by key
  world,    \* what the upstream took, in order: the key, and whose it was
  todo,     \* tasks of this superstep that have not started
  round,    \* supersteps begun
  run,      \* what _run_driven is doing: driving, account, finish, over, cancelled
  ok

vars == <<cursor, acts, row, world, todo, round, run, ok>>

Init ==
  /\ cursor = [step |-> 0, visits |-> [n \in Nodes |-> 0]]
  /\ acts = <<>> /\ row = <<>> /\ world = <<>>
  /\ todo = <<>> /\ round = 0
  /\ run = "driving" /\ ok = TRUE

Tasks == DOMAIN acts
Ended == {"returned", "raised", "cancelled"}  \* what became of a task
Under == {t \in Tasks : acts[t].task \notin Ended}
Drains == {"claim", "send", "settle", "release"}

Max2(a, b) == IF a >= b THEN a ELSE b

(***************************************************************************)
(* The framework.                                                          *)
(***************************************************************************)

AtBarrier == run = "driving" /\ todo = <<>> /\ \A t \in Tasks : acts[t].task = "returned"

NextSuperstep(tasks) ==
  /\ AtBarrier
  /\ round < MaxSupersteps
  /\ todo' = tasks /\ round' = round + 1
  /\ UNCHANGED <<cursor, acts, row, world, run, ok>>

GraphEnds ==
  /\ AtBarrier
  /\ run' = "account"
  /\ UNCHANGED <<cursor, acts, row, world, todo, round, ok>>

\* A task that is cancelled stops waiting for its node, and the node goes on;
\* cancelled in its drain, it closes the branch and stops the node.
Cancelled(a) ==
  CASE a.task \in Ended -> a
    [] a.task = "rest" -> [a EXCEPT !.task = "cancelled"]
    [] a.task \in Drains ->
         [a EXCEPT !.task = "cancelled",
                   !.body = IF @ \in {"done", "raised"} THEN @ ELSE "stopped"]
CancelTasks == acts' = [t \in Tasks |-> Cancelled(acts[t])]

\* A node failed, and its task said so; or the graph's own code called a tool
\* outside any node, and was refused.
Fails ==
  /\ run = "driving"
  /\ (\E t \in Tasks : acts[t].task = "raised") \/ AtBarrier
  /\ CancelTasks
  /\ todo' = <<>>
  /\ run' = "account" /\ ok' = FALSE
  /\ UNCHANGED <<cursor, row, world, round>>

CancelRun ==
  /\ run \in {"driving", "account", "finish"}
  /\ CancelTasks
  /\ todo' = <<>>
  /\ run' = "cancelled"
  /\ UNCHANGED <<cursor, row, world, round, ok>>

(***************************************************************************)
(* The run around it: _run_driven.                                         *)
(***************************************************************************)

AccountForClaims ==
  /\ run = "account"
  /\ ok' = (ok /\ \A k \in DOMAIN row : row[k] \notin {"in_flight", "maybe"})
  /\ run' = "finish"
  /\ UNCHANGED <<cursor, acts, row, world, todo, round>>

Finish ==
  /\ run = "finish"
  /\ run' = "over"
  /\ UNCHANGED <<cursor, acts, row, world, todo, round, ok>>

(***************************************************************************)
(* A node: forked, its body a task of its own.                             *)
(***************************************************************************)

Visited(c, n) == [c EXCEPT !.visits[n] = @ + 1]

Branch(n, c) ==
  [node |-> n, visit |-> c.visits[n] - 1, round |-> round, cursor |-> c, calls |-> 0,
   staged |-> {}, sent |-> {}, body |-> "busy", task |-> "rest", status |-> "forked"]

\* The visit is counted in the run's cursor, and the branch is forked from it.
Start ==
  /\ run = "driving" /\ todo # <<>>
  /\ cursor' = Visited(cursor, Head(todo))
  /\ acts' = Append(acts, Branch(Head(todo), cursor'))
  /\ todo' = Tail(todo)
  /\ UNCHANGED <<row, world, round, run, ok>>

Set(t, a) == acts' = [acts EXCEPT ![t] = a]
Aside == <<cursor, row, world, todo, round, run, ok>>

\* A call takes the branch's next position; none is made once the drive is over.
Advance(a) == [a EXCEPT !.cursor.step = @ + 1, !.calls = @ + 1]
MayCall(t) ==
  acts[t].body = "busy" /\ acts[t].calls < MaxCalls /\ run \in {"driving", "account"}

Read(t) ==
  /\ MayCall(t)
  /\ Set(t, Advance(acts[t]))
  /\ UNCHANGED Aside

\* A write: requested, which is an entry, then staged, which is another.
Request(t) ==
  /\ MayCall(t)
  /\ Set(t, [Advance(acts[t]) EXCEPT !.body = "asking"])
  /\ UNCHANGED Aside

Stage(t) ==
  /\ acts[t].body = "asking"
  /\ Set(t, [acts[t] EXCEPT !.body = "parked", !.staged = @ \cup {acts[t].cursor.step}])
  /\ UNCHANGED Aside

\* It returns; or it raises, perhaps beside a write of its own that is parked.
Ends(t, how) ==
  /\ acts[t].body \in IF how = "raised" THEN {"busy", "parked"} ELSE {"busy"}
  /\ Set(t, [acts[t] EXCEPT !.body = how])
  /\ UNCHANGED Aside

(***************************************************************************)
(* Its retirement, on the framework's task.                                *)
(***************************************************************************)

Key(a) == [node |-> a.node, visit |-> a.visit, step |-> a.cursor.step]
RowOf(k) == IF k \in DOMAIN row THEN row[k] ELSE "none"
SetRow(k, status) ==
  row' = [x \in DOMAIN row \cup {k} |-> IF x = k THEN status ELSE row[x]]

\* A node that does not retire is its task's error.  Defect: what _retire
\* answered is thrown away, and the graph goes on from it.
VerdictDropped(a) == [a EXCEPT !.task = "returned"]
NotRetired(a) == [a EXCEPT !.task = "raised"]

\* It raised before it was confirmed: what it staged is never sent.
Faults(t) ==
  /\ acts[t].task = "rest" /\ acts[t].body = "raised"
  /\ Set(t, [NotRetired(acts[t]) EXCEPT !.status = "squashed"])
  /\ UNCHANGED Aside

\* A read of it went stale: what it staged is discarded unsent, it is told so,
\* and its task raises.
Stale(t) ==
  /\ acts[t].task = "rest" /\ acts[t].body \in {"parked", "done"}
  /\ Set(t, [NotRetired(acts[t]) EXCEPT !.status = "squashed", !.staged = {},
                                        !.body = IF @ = "parked" THEN "stopped" ELSE @])
  /\ UNCHANGED Aside

Confirm(t) ==
  /\ acts[t].task = "rest" /\ acts[t].body \in {"parked", "done"}
  /\ Set(t, [acts[t] EXCEPT !.task = "claim", !.status = "confirmed"])
  /\ UNCHANGED Aside

Unsent(a) == a.staged \ a.sent

Claim(t) ==
  /\ acts[t].task = "claim" /\ Unsent(acts[t]) # {}
  /\ RowOf(Key(acts[t])) = "none"
  /\ SetRow(Key(acts[t]), "in_flight")
  /\ Set(t, [acts[t] EXCEPT !.task = "send"])
  /\ UNCHANGED <<cursor, world, todo, round, run, ok>>

Released(a) ==
  [a EXCEPT !.task = "release", !.sent = a.staged,
            !.body = IF @ = "parked" THEN "busy" ELSE @]

\* A claim found delivered: nothing is sent, and the node is told what was.
SkipDelivered(t) ==
  /\ acts[t].task = "claim" /\ Unsent(acts[t]) # {}
  /\ RowOf(Key(acts[t])) = "delivered"
  /\ Set(t, Released(acts[t]))
  /\ UNCHANGED Aside

Send(t) ==
  /\ acts[t].task = "send"
  /\ world' = Append(world, [key |-> Key(acts[t]), by |-> t])
  /\ Set(t, [acts[t] EXCEPT !.task = "settle"])
  /\ UNCHANGED <<cursor, row, todo, round, run, ok>>

Settle(t) ==
  /\ acts[t].task = "settle"
  /\ SetRow(Key(acts[t]), "delivered")
  /\ Set(t, Released(acts[t]))
  /\ UNCHANGED <<cursor, world, todo, round, run, ok>>

\* Refused before it left, or no answer came: the node is stopped and its task
\* raises.
DeadLetter(t, sent) ==
  /\ acts[t].task = IF sent = "maybe" THEN "settle" ELSE "send"
  /\ SetRow(Key(acts[t]), sent)
  /\ Set(t, [NotRetired(acts[t]) EXCEPT !.body = "stopped"])
  /\ UNCHANGED <<cursor, world, todo, round, run, ok>>

\* The node went on and staged another write: drained again, though it may have
\* raised since.
DrainAgain(t) ==
  /\ acts[t].task = "release" /\ acts[t].body \in {"parked", "raised"}
  /\ Unsent(acts[t]) # {}
  /\ Set(t, [acts[t] EXCEPT !.task = "claim"])
  /\ UNCHANGED Aside

\* It raised after its writes were sent: it does not retire.
FaultsLate(t) ==
  /\ acts[t].task = "release" /\ acts[t].body = "raised" /\ Unsent(acts[t]) = {}
  /\ Set(t, [NotRetired(acts[t]) EXCEPT !.status = "faulted"])
  /\ UNCHANGED Aside

\* What the run goes on from: the later of the two cursors, position by
\* position.  Defect: the retired branch's is taken whole.
TakenWhole(c, d) == d
Merged(c, d) ==
  [step |-> Max2(c.step, d.step),
   visits |-> [n \in Nodes |-> Max2(c.visits[n], d.visits[n])]]

Retire(t) ==
  /\ acts[t].body = "done"
  /\ \/ acts[t].task = "release"
     \/ acts[t].task = "claim" /\ Unsent(acts[t]) = {}
  /\ Set(t, [acts[t] EXCEPT !.task = "returned", !.status = "retired"])
  /\ cursor' = Merged(cursor, acts[t].cursor)
  /\ UNCHANGED <<row, world, todo, round, run, ok>>

-----------------------------------------------------------------------------

Framework ==
  \/ (\E tasks \in Supersteps : NextSuperstep(tasks))
  \/ GraphEnds \/ Fails \/ CancelRun \/ Start
Body(t) == Read(t) \/ Request(t) \/ Stage(t) \/ (\E how \in {"done", "raised"} : Ends(t, how))
Retirement(t) ==
  \/ Faults(t) \/ Stale(t) \/ Confirm(t)
  \/ Claim(t) \/ SkipDelivered(t) \/ Send(t) \/ Settle(t)
  \/ (\E sent \in {"not_sent", "maybe"} : DeadLetter(t, sent))
  \/ DrainAgain(t) \/ FaultsLate(t) \/ Retire(t)

Next ==
  \/ Framework \/ AccountForClaims \/ Finish
  \/ \E t \in Tasks : Body(t) \/ Retirement(t)

Spec == Init /\ [][Next]_vars

-----------------------------------------------------------------------------

TypeOK ==
  /\ cursor \in [step : Nat, visits : [Nodes -> Nat]]
  /\ \A t \in Tasks :
       /\ acts[t].body \in {"busy", "asking", "parked", "done", "raised", "stopped"}
       /\ acts[t].task \in Ended \cup Drains \cup {"rest"}
       /\ acts[t].status \in {"forked", "confirmed", "squashed", "faulted", "retired"}
       /\ acts[t].sent \subseteq acts[t].staged
  /\ \A k \in DOMAIN row : row[k] \in {"in_flight", "delivered", "not_sent", "maybe"}
  /\ \A i \in DOMAIN world : world[i].by \in Tasks
  /\ todo \in Seq(Nodes) /\ round \in 0 .. MaxSupersteps
  /\ run \in {"driving", "account", "finish", "over", "cancelled"} /\ ok \in BOOLEAN

\* However the nodes of a superstep start, retire and overlap, and however often
\* a node is visited, a write of one visit is never taken for one of another: a
\* node that retired has sent each of its writes, itself, once; and a run that
\* reports success has retired every node it started.
EveryVisitSendsItsOwn ==
  /\ \A i, j \in DOMAIN world : world[i].key = world[j].key => i = j
  /\ \A t \in Tasks : acts[t].status = "retired" =>
       {world[i].key.step : i \in {j \in DOMAIN world : world[j].by = t}} = acts[t].staged
  /\ run = "over" /\ ok => \A t \in Tasks : acts[t].status = "retired"

\* What became of a node is never thrown away, though only the framework's task
\* hears of it: one that was squashed has sent nothing and leaves no claim, one
\* that did not retire is the end of the run - no superstep follows it - and the
\* run says that it failed.
NoVerdictIsLost ==
  \A t \in Tasks :
    /\ acts[t].status = "squashed" =>
         \A i \in DOMAIN world : world[i].by # t
    /\ acts[t].status # "retired" =>
         /\ round = acts[t].round
         /\ run = "over" => ~ok

\* Once a run is over nothing of it goes on.  This does not hold: a node whose
\* task was cancelled while it ran is stopped by nobody (see the README).
NoBodyOutlivesTheRun == [][(run \in {"over", "cancelled"}) => UNCHANGED acts]_vars
=============================================================================
