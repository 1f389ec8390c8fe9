-------------------------------- MODULE Drive --------------------------------
(***************************************************************************)
(* One run, driven node by node: Scheduler._drive_from_state and _retire,  *)
(* the process stopping anywhere, recover() and Scheduler.resume.          *)
(*                                                                         *)
(* A node takes some program positions and makes one write at the last of  *)
(* them.  What the write goes through on its way is Dispatch's; here it is *)
(* delivered, refused, or left in doubt, and a resume finds its claim row. *)
(* What matters is the rest of retirement around it: the node may wait for *)
(* its write, give up on it (its own timeout), or raise; the entries go to *)
(* disk one by one; and a resume has nothing but them.                     *)
(*                                                                         *)
(* The router names the first node whose state is not committed, so a      *)
(* state change that is lost, or found where it should not be, shows.      *)
(***************************************************************************)
EXTENDS Integers, Sequences, FiniteSetsExt

CONSTANTS Last,       \* nodes 1..Last run in order
          Begins,     \* the program position at which each begins
          Decisions,    \* what a node may decide to write
          MaxResumes  \* bound: drives after the first

ASSUME DriveAssumption ==
  /\ Last \in Nat \ {0}
  /\ Begins \in [1 .. Last + 1 -> Nat]
  /\ Begins[1] = 0
  /\ \A m, n \in 1 .. Last + 1 : m < n => Begins[m] < Begins[n]
  /\ Decisions # {}
  /\ MaxResumes \in Nat

Nodes == 1 .. Last
Takes(n) == Begins[n + 1] - Begins[n]

VARIABLES
  branches,   \* on disk: every branch forked, with what was journaled of it
  row,        \* on disk: the claim of each write ever claimed
  verdict,    \* on disk: the last run_finished: none, ok or failed
  world,      \* the writes that reached upstream, in order
  pc,         \* the scheduler: "down" and "over" between drives
  node,       \* the node's task: busy, waits, done or raised
  committed,  \* the nodes whose state changes are in committed state
  cursor,     \* the program position and the visits to each node
  ok,         \* nothing of this drive has failed
  resumes

disk == <<branches, row, verdict>>
vars == <<branches, row, verdict, world, pc, node, committed, cursor, ok, resumes>>

Start == [step |-> 0, visits |-> [n \in Nodes |-> 0]]

Init ==
  /\ branches = <<>> /\ row = <<>> /\ verdict = "none" /\ world = <<>>
  /\ pc = "route" /\ node = "done"
  /\ committed = {} /\ cursor = Start /\ ok = TRUE /\ resumes = 0

\* The drive works on the branch it forked last.
Mine == Len(branches)
Resolve(what) == branches' = [branches EXCEPT ![Mine] = what]
Branch == branches[Mine]

\* A write is claimed under its node, the visit and the position it is made at.
Key(b) ==
  [node |-> b.node, visit |-> b.visit, step |-> b.step + Takes(b.node),
   call |-> b.call]
RowOf(k) == IF k \in DOMAIN row THEN row[k] ELSE "none"
SetRow(k, status) ==
  row' = [x \in DOMAIN row \cup {k} |-> IF x = k THEN status ELSE row[x]]

(***************************************************************************)
(* The loop: Scheduler._drive_from_state and _run_node.                    *)
(***************************************************************************)

Ahead == Nodes \ committed

\* The router names a node; its visit is counted and its branch forked.
Fork ==
  /\ pc = "route" /\ Ahead # {}
  /\ LET n == Min(Ahead)
     IN  /\ cursor' = [cursor EXCEPT !.visits[n] = @ + 1]
         /\ branches' = Append(branches,
              [node |-> n, visit |-> cursor.visits[n], step |-> cursor.step,
               base |-> committed, call |-> CHOOSE c \in Decisions : TRUE,
               status |-> "forked", confirmed |-> FALSE, delta |-> FALSE,
               after |-> Start])
  /\ node' = "busy"
  /\ pc' = "body"
  /\ UNCHANGED <<row, verdict, world, committed, ok, resumes>>

\* The node reads, decides, and makes its write: staged, and it waits.
Stage(c) ==
  /\ pc = "body"
  /\ node' = "waits"
  /\ Resolve([Branch EXCEPT !.call = c])
  /\ cursor' = [cursor EXCEPT !.step = @ + Takes(Branch.node)]
  /\ pc' = "rest"
  /\ UNCHANGED <<row, verdict, world, committed, ok, resumes>>

\* It gives up on its write and goes on to its end.
GivesUp ==
  /\ node = "waits" /\ pc \in {"rest", "drain", "send", "landed"}
  /\ node' = "done"
  /\ UNCHANGED <<disk, world, pc, committed, cursor, ok, resumes>>

\* It raises before it is at rest: nothing of it is confirmed or sent.
Faults ==
  /\ pc = "body" \/ (pc = "rest" /\ node = "waits")
  /\ node' = "raised"
  /\ Resolve([Branch EXCEPT !.status = "faulted"])
  /\ ok' = FALSE
  /\ pc' = "account"
  /\ UNCHANGED <<row, verdict, world, committed, cursor, resumes>>

\* It raises later: seen at rest, it is confirmed and drained all the same.
RaisesLate ==
  /\ node = "waits" /\ pc \in {"rest", "drain", "send", "landed", "acked"}
  /\ node' = "raised"
  /\ UNCHANGED <<disk, world, pc, committed, cursor, ok, resumes>>

(***************************************************************************)
(* Retirement: Scheduler._retire.                                          *)
(***************************************************************************)

\* A read it decided on has gone stale: what it staged is discarded, unsent.
Stale ==
  /\ pc = "rest"
  /\ Resolve([Branch EXCEPT !.status = "squashed"])
  /\ ok' = FALSE
  /\ pc' = "account"
  /\ UNCHANGED <<row, verdict, world, node, committed, cursor, resumes>>

\* Confirmed, it is drained, finished or not.  Defect: a node that has finished
\* is taken to have nothing left to drain.
SkipsIfDone == IF node = "done" THEN "commit" ELSE "drain"
AfterConfirm == "drain"

Confirm ==
  /\ pc = "rest"
  /\ Resolve([Branch EXCEPT !.status = "confirmed", !.confirmed = TRUE])
  /\ pc' = AfterConfirm
  /\ UNCHANGED <<row, verdict, world, node, committed, cursor, ok, resumes>>

\* A claim that may have been sent is not sent again.
Sendable == {"none", "not_sent"}

Claim ==
  /\ pc = "drain"
  /\ RowOf(Key(Branch)) \in Sendable
  /\ SetRow(Key(Branch), "in_flight")
  /\ pc' = "send"
  /\ UNCHANGED <<branches, verdict, world, node, committed, cursor, ok, resumes>>

SkipDelivered ==
  /\ pc = "drain"
  /\ RowOf(Key(Branch)) = "delivered"
  /\ pc' = "acked"
  /\ UNCHANGED <<disk, world, node, committed, cursor, ok, resumes>>

StopOnDoubt ==
  /\ pc = "drain"
  /\ RowOf(Key(Branch)) \in {"in_flight", "maybe"} \ Sendable
  /\ SetRow(Key(Branch), "maybe")
  /\ pc' = "dead"
  /\ UNCHANGED <<branches, verdict, world, node, committed, cursor, ok, resumes>>

Lands ==
  /\ pc = "send"
  /\ world' = Append(world, Key(Branch))
  /\ pc' = "landed"
  /\ UNCHANGED <<disk, node, committed, cursor, ok, resumes>>

Delivered ==
  /\ pc = "landed"
  /\ SetRow(Key(Branch), "delivered")
  /\ pc' = "acked"
  /\ UNCHANGED <<branches, verdict, world, node, committed, cursor, ok, resumes>>

\* It is refused before it is sent, or its reply never comes.
DeadLetter(status) ==
  /\ \/ pc = "send" /\ status \in {"not_sent", "maybe"}
     \/ pc = "landed" /\ status = "maybe"
  /\ SetRow(Key(Branch), status)
  /\ pc' = "dead"
  /\ UNCHANGED <<branches, verdict, world, node, committed, cursor, ok, resumes>>

NodeFinishes ==
  /\ pc = "acked" /\ node = "waits"
  /\ node' = "done"
  /\ UNCHANGED <<disk, world, pc, committed, cursor, ok, resumes>>

\* A node that raised does not retire, whatever it sent.
FaultsAfter ==
  /\ pc \in {"acked", "dead"} /\ node = "raised"
  /\ Resolve([Branch EXCEPT !.status = "faulted"])
  /\ ok' = FALSE
  /\ pc' = "account"
  /\ UNCHANGED <<row, verdict, world, node, committed, cursor, resumes>>

\* A node parked on a dead letter is cancelled and the run halts, with nothing
\* more said of the branch than that it was confirmed.
Halts ==
  /\ pc = "dead" /\ node = "waits"
  /\ node' = "raised"
  /\ ok' = FALSE
  /\ pc' = "account"
  /\ UNCHANGED <<disk, world, committed, cursor, resumes>>

\* A node that is done is committed and retired - also when its write is dead.
Drained ==
  /\ pc \in {"acked", "dead"} /\ node = "done"
  /\ ok' = (pc = "acked")
  /\ pc' = "commit"
  /\ UNCHANGED <<disk, world, node, committed, cursor, resumes>>

\* The state change goes to disk before the entry that says the branch retired.
CommitDelta ==
  /\ pc = "commit"
  /\ Resolve([Branch EXCEPT !.delta = TRUE])
  /\ pc' = "retire"
  /\ UNCHANGED <<row, verdict, world, node, committed, cursor, ok, resumes>>

Retire ==
  /\ pc = "retire"
  /\ Resolve([Branch EXCEPT !.status = "retired", !.after = cursor])
  /\ committed' = committed \cup {Branch.node}
  /\ pc' = IF ok THEN "route" ELSE "account"
  /\ UNCHANGED <<row, verdict, world, node, cursor, ok, resumes>>

(***************************************************************************)
(* The end of a drive, and what comes after.                               *)
(***************************************************************************)

\* A run is not done while a write it claimed may have been sent.  Defect: only
\* claims still in flight count, and a dead letter in doubt is forgotten.
UnsettledInFlight == \E k \in DOMAIN row : row[k] = "in_flight"
Unsettled == \E k \in DOMAIN row : row[k] \in {"in_flight", "maybe"}

Account ==
  /\ pc = "account" \/ (pc = "route" /\ Ahead = {})
  /\ ok' = (ok /\ ~Unsettled)
  /\ pc' = "finish"
  /\ UNCHANGED <<disk, world, node, committed, cursor, resumes>>

Finish ==
  /\ pc = "finish"
  /\ verdict' = IF ok THEN "ok" ELSE "failed"
  /\ pc' = "over"
  /\ UNCHANGED <<branches, row, world, node, committed, cursor, ok, resumes>>

Stopped == {"down", "over"}

\* A kill, or a cancellation from outside: nothing more is journaled.
Crash ==
  /\ pc \notin Stopped
  /\ pc' = "down"
  /\ node' = "done" /\ committed' = {} /\ cursor' = Start /\ ok' = TRUE
  /\ UNCHANGED <<disk, world, resumes>>

\* recover(): only branches on disk as retired count, and the position is the
\* one the last of them journaled.  Defects: any journaled state change counts;
\* the position is inferred from the highest one seen.
RetiredOnes == {i \in DOMAIN branches : branches[i].status = "retired"}
AnyDelta == {i \in DOMAIN branches : branches[i].delta}
Counted == RetiredOnes

InferredCursor ==
  IF branches = <<>> THEN Start
  ELSE [Start EXCEPT !.step = branches[Mine].step + Takes(branches[Mine].node)]
RecoveredCursor ==
  IF RetiredOnes = {} THEN Start ELSE branches[Max(RetiredOnes)].after

RecoveredState == {branches[i].node : i \in {j \in Counted : branches[j].delta}}

\* A confirmed branch is superseded when its node, run again, retires.
\* Defect: its own retirement is all that counts.
SupersededByItself(i) == branches[i].status = "retired"
Superseded(i) ==
  \E j \in RetiredOnes :
    /\ i <= j
    /\ branches[i].node = branches[j].node /\ branches[i].visit = branches[j].visit
ConfirmedNotRetired ==
  {i \in DOMAIN branches :
     branches[i].confirmed /\ branches[i].status # "squashed" /\ ~Superseded(i)}
Resumable == verdict # "ok" \/ ConfirmedNotRetired # {}

Resume ==
  /\ pc \in Stopped
  /\ resumes < MaxResumes
  /\ resumes' = resumes + 1
  /\ pc' = "route"
  /\ node' = "done" /\ ok' = TRUE
  /\ committed' = RecoveredState
  /\ cursor' = RecoveredCursor
  /\ UNCHANGED <<disk, world>>

\* The operator has looked upstream, and says what happened to a write in doubt.
Operator(k) ==
  /\ pc \in Stopped
  /\ row[k] \in {"in_flight", "maybe"}
  /\ SetRow(k, IF \E i \in DOMAIN world : world[i] = k
               THEN "delivered" ELSE "not_sent")
  /\ UNCHANGED <<branches, verdict, world, pc, node, committed, cursor, ok, resumes>>

-----------------------------------------------------------------------------

NodeStep == (\E c \in Decisions : Stage(c)) \/ GivesUp \/ Faults \/ RaisesLate \/ NodeFinishes

RetireStep ==
  \/ Stale \/ Confirm
  \/ Claim \/ SkipDelivered \/ StopOnDoubt \/ Lands \/ Delivered
  \/ (\E status \in {"not_sent", "maybe"} : DeadLetter(status))
  \/ FaultsAfter \/ Halts \/ Drained \/ CommitDelta \/ Retire

Next ==
  \/ Fork \/ NodeStep \/ RetireStep \/ Account \/ Finish
  \/ Crash \/ Resume \/ (\E k \in DOMAIN row : Operator(k))

Spec == Init /\ [][Next]_vars

-----------------------------------------------------------------------------

Statuses == {"forked", "confirmed", "faulted", "squashed", "retired"}
Cursors == [step : Nat, visits : [Nodes -> Nat]]
Branches ==
  [node : Nodes, visit : Nat, step : Nat, base : SUBSET Nodes, call : Decisions,
   status : Statuses, confirmed : BOOLEAN, delta : BOOLEAN, after : Cursors]
Keys == [node : Nodes, visit : Nat, step : Nat, call : Decisions]


TypeOK ==
  /\ branches \in Seq(Branches)
  /\ DOMAIN row \subseteq Keys
  /\ \A k \in DOMAIN row : row[k] \in {"in_flight", "delivered", "not_sent", "maybe"}
  /\ verdict \in {"none", "ok", "failed"}
  /\ world \in Seq(Keys)
  /\ pc \in {"down", "route", "body", "rest", "drain", "send", "landed", "acked",
             "dead", "commit", "retire", "account", "finish", "over"}
  /\ node \in {"busy", "waits", "done", "raised"}
  /\ committed \subseteq Nodes
  /\ cursor \in [step : 0 .. Begins[Last + 1], visits : [Nodes -> {0, 1}]]
  /\ ok \in BOOLEAN
  /\ resumes \in 0 .. MaxResumes

\* However often it is stopped and resumed, a run forks a node where the run that
\* never stops would - at its position, on its first visit, on the state all the
\* nodes before it committed - so a write made again is made under its own key.
RunsInPlace ==
  \A i \in DOMAIN branches :
    LET b == branches[i]
    IN  b.step = Begins[b.node] /\ b.visit = 0 /\ b.base = 1 .. b.node - 1

\* No write reaches upstream twice, whatever crash, fault or dead letter its
\* branch met between the claim and its retirement, and none before every node
\* ahead of its own has retired on disk.
SentOnceInTurn ==
  /\ \A i, j \in DOMAIN world : world[i] = world[j] => i = j
  /\ \A i \in DOMAIN world : \A n \in 1 .. world[i].node - 1 :
       \E j \in RetiredOnes : branches[j].node = n

\* A node on disk as retired has its state change there too, retired once, and
\* a claim for its write that is not left open: no authorised write is dropped.
RetirementIsWhole ==
  \A i \in RetiredOnes :
    /\ branches[i].delta
    /\ RowOf(Key(branches[i])) \in {"delivered", "not_sent", "maybe"}
    /\ \A j \in DOMAIN branches : j > i => branches[j].node # branches[i].node

\* A run that reports success has retired every node, leaves no claim that may
\* have been sent unaccounted for, and is not offered for another resume.
SuccessIsWhole ==
  pc = "over" /\ verdict = "ok" =>
    /\ {branches[i].node : i \in RetiredOnes} = Nodes
    /\ \A k \in DOMAIN row : row[k] \in {"delivered", "not_sent"}
    /\ ~Resumable

\* "A dead letter whose request demonstrably never left is retried by a plain
\* resume" (docs/adapters.md): a run that reports success has delivered the write
\* of every node.
UnsentIsRetried ==
  pc = "over" /\ verdict = "ok" =>
    \A i \in RetiredOnes : RowOf(Key(branches[i])) = "delivered"
=============================================================================
