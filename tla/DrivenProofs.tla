---------------------------- MODULE DrivenProofs ----------------------------
(***************************************************************************)
(* A run driven by the framework, of any nodes, supersteps and bounds: no  *)
(* write of one visit is taken for another's, and what became of a node is *)
(* never thrown away.                                                      *)
(***************************************************************************)
EXTENDS Driven, TLAPS

(***************************************************************************)
(* The inductive invariant.                                                *)
(***************************************************************************)

Places == [step : Nat, visits : [Nodes -> Nat]]
Bodies == {"busy", "asking", "parked", "done", "raised", "stopped"}
Statuses == {"forked", "confirmed", "squashed", "faulted", "retired"}
Branches ==
  [node : Nodes, visit : Nat, round : Nat, cursor : Places, calls : Nat,
   staged : SUBSET Nat, sent : SUBSET Nat, body : Bodies,
   task : Ended \cup Drains \cup {"rest"}, status : Statuses]

\* A task that can still retire its branch.
Alive(a) == a.task \notin {"raised", "cancelled"}

\* What a branch's own fields say of each other: as long as its task can retire it,
\* one write at most is staged and not sent, and it is at the branch's position.
Ours(a) ==
  /\ a.sent \subseteq a.staged
  /\ a.task = "rest" => a.status = "forked" /\ a.sent = {}
  /\ a.task \in Drains => a.status = "confirmed"
  /\ a.task = "returned" <=> a.status = "retired"
  /\ a.task = "returned" => a.body = "done"
  /\ a.task \in {"claim", "send", "settle"} => a.body \in {"parked", "done", "raised"}
  /\ a.task \in {"send", "settle"} => a.staged # a.sent
  /\ Alive(a) =>
       /\ a.body # "stopped"
       /\ Unsent(a) \subseteq {a.cursor.step}
       /\ \A s \in a.staged : s <= a.cursor.step
       /\ a.body = "asking" => a.cursor.step \notin a.staged
       /\ a.body \in {"busy", "asking", "done"} => a.staged = a.sent

\* A visit to a node is counted before its branch is forked, and never given back:
\* two branches of a node are two visits to it.
Named ==
  /\ \A t \in Tasks : acts[t].visit < cursor.visits[acts[t].node]
  /\ \A s, t \in Tasks : s < t /\ acts[s].node = acts[t].node => acts[s].visit < acts[t].visit

\* What the upstream took is what the branches sent: each under its own visit, at a
\* position the branch has down as sent - or is just being told of.
OfTask(w) ==
  /\ w.key.node = acts[w.by].node /\ w.key.visit = acts[w.by].visit
  /\ acts[w.by].status \notin {"forked", "squashed"}
  /\ Alive(acts[w.by]) =>
       \/ w.key.step \in acts[w.by].sent
       \/ acts[w.by].task = "settle" /\ w.key.step = acts[w.by].cursor.step
TookOf(t, step) == \E i \in DOMAIN world : world[i].by = t /\ world[i].key.step = step
Upstream ==
  /\ \A i \in DOMAIN world : world[i].by \in Tasks /\ OfTask(world[i])
  /\ \A i, j \in DOMAIN world : world[i].key = world[j].key => i = j
  /\ \A t \in Tasks : Alive(acts[t]) => \A s \in acts[t].sent : TookOf(t, s)
  /\ \A t \in Tasks : acts[t].task = "settle" => TookOf(t, acts[t].cursor.step)
  /\ \A k \in DOMAIN row : row[k] = "delivered" => \E i \in DOMAIN world : world[i].key = k

\* A branch that has not retired is of this superstep, and of a failure once the run
\* has stopped driving.
Verdicts ==
  \A t \in Tasks : acts[t].status # "retired" =>
    round = acts[t].round /\ (run \in {"account", "finish", "over"} => ~ok)

Typed ==
  /\ TypeOK /\ acts \in Seq(Branches)
  /\ world \in Seq([key : [node : Nodes, visit : Nat, step : Nat], by : Nat])
IInv == Typed /\ (\A t \in Tasks : Ours(acts[t])) /\ Named /\ Upstream /\ Verdicts

(***************************************************************************)
(* What a step does to a branch.                                           *)
(***************************************************************************)

\* A branch keeps its name, and what it has sent; what is over stays over.
Follows(a, b) ==
  /\ b.node = a.node /\ b.visit = a.visit /\ b.round = a.round
  /\ a.status \notin {"forked", "squashed"} => b.status \notin {"forked", "squashed"}
  /\ a.status = "retired" => b.status = "retired"
  /\ Alive(b) =>
       /\ Alive(a) /\ a.sent \subseteq b.sent
       /\ b.sent \subseteq a.sent \cup (IF a.task = "settle" THEN {a.cursor.step} ELSE {})
       /\ a.task = "settle" =>
            (b.task = "settle" /\ b.cursor = a.cursor) \/ a.cursor.step \in b.sent
SettlesStill(a, b) == b.task = "settle" => a.task = "settle" /\ b.cursor = a.cursor

\* The branches of all tasks move on, and none is forked.
Moved ==
  /\ acts' \in Seq(Branches) /\ DOMAIN acts' = DOMAIN acts
  /\ \A s \in Tasks : Ours(acts'[s]) /\ Follows(acts[s], acts'[s])

LEMMA StaysAsItIs ==
  ASSUME NEW a
  PROVE  Follows(a, a) /\ SettlesStill(a, a)
BY DEF Follows, SettlesStill

LEMMA OneMoves ==
  ASSUME IInv, NEW t \in Tasks, NEW b \in Branches, acts' = [acts EXCEPT ![t] = b],
         Ours(b), Follows(acts[t], b)
  PROVE  /\ Moved /\ acts'[t] = b
         /\ \A s \in Tasks : s # t => acts'[s] = acts[s]
<1>1. acts \in Seq(Branches)
  BY DEF IInv, Typed
<1>2. /\ acts' \in Seq(Branches) /\ DOMAIN acts' = DOMAIN acts /\ acts'[t] = b
      /\ \A s \in Tasks : s # t => acts'[s] = acts[s]
  BY <1>1 DEF Tasks
<1>3. \A s \in Tasks : Ours(acts'[s]) /\ Follows(acts[s], acts'[s])
  BY <1>2, StaysAsItIs DEF IInv
<1> QED
  BY <1>2, <1>3 DEF Moved

LEMMA ReadMoves ==
  ASSUME IInv, NEW t \in Tasks, Read(t)
  PROVE  /\ Moved /\ (\A s \in Tasks : s # t => acts'[s] = acts[s])
         /\ SettlesStill(acts[t], acts'[t])
<1>1. PICK a : a = acts[t]
  OBVIOUS
<1>2. a \in Branches /\ Ours(a)
  BY <1>1 DEF IInv, Typed, Tasks
<1>0. PICK c, n : c = [a.cursor EXCEPT !.step = @ + 1] /\ n = a.calls + 1
  OBVIOUS
<1>3. PICK b : b = [a EXCEPT !.cursor = c, !.calls = n]
  OBVIOUS
<1>4. acts' = [acts EXCEPT ![t] = b] /\ (a.body = "busy")
  BY <1>0, <1>1, <1>2, <1>3 DEF Read, Set, Branches, Places, Advance, MayCall
<1>10. a.cursor \in Places /\ c \in Places /\ c.step = a.cursor.step + 1 /\ n \in Nat
  BY <1>0, <1>2 DEF Branches, Places
<1>5. /\ b \in Branches
      /\ b.node = a.node /\ b.visit = a.visit /\ b.round = a.round
      /\ b.cursor.step = a.cursor.step + 1 /\ b.staged = a.staged /\ b.sent = a.sent
      /\ b.body = a.body /\ b.task = a.task /\ b.status = a.status
  BY <1>2, <1>3, <1>10 DEF Branches, Bodies, Statuses, Drains, Ended
<1>6. a.staged \in SUBSET Nat /\ a.sent \in SUBSET Nat /\ a.cursor.step \in Nat
  BY <1>2 DEF Branches, Places
<1>7. Ours(b)
  BY <1>2, <1>4, <1>5, <1>6 DEF Ours, Alive, Unsent, Drains
<1>8. Follows(a, b) /\ SettlesStill(a, b)
  BY <1>2, <1>4, <1>5, <1>6 DEF Ours, Follows, Alive, Unsent, Drains, SettlesStill
<1>9. Moved /\ acts'[t] = b /\ \A s \in Tasks : s # t => acts'[s] = acts[s]
  BY <1>1, <1>4, <1>5, <1>7, <1>8, OneMoves
<1> QED
  BY <1>1, <1>2, <1>4, <1>5, <1>8, <1>9

LEMMA RequestMoves ==
  ASSUME IInv, NEW t \in Tasks, Request(t)
  PROVE  /\ Moved /\ (\A s \in Tasks : s # t => acts'[s] = acts[s])
         /\ SettlesStill(acts[t], acts'[t])
<1>1. PICK a : a = acts[t]
  OBVIOUS
<1>2. a \in Branches /\ Ours(a)
  BY <1>1 DEF IInv, Typed, Tasks
<1>0. PICK c, n : c = [a.cursor EXCEPT !.step = @ + 1] /\ n = a.calls + 1
  OBVIOUS
<1>3. PICK b : b = [a EXCEPT !.cursor = c, !.calls = n, !.body = "asking"]
  OBVIOUS
<1>4. acts' = [acts EXCEPT ![t] = b] /\ (a.body = "busy")
  BY <1>0, <1>1, <1>2, <1>3 DEF Request, Set, Branches, Places, Advance, MayCall
<1>10. a.cursor \in Places /\ c \in Places /\ c.step = a.cursor.step + 1 /\ n \in Nat
  BY <1>0, <1>2 DEF Branches, Places
<1>5. /\ b \in Branches
      /\ b.node = a.node /\ b.visit = a.visit /\ b.round = a.round
      /\ b.cursor.step = a.cursor.step + 1 /\ b.staged = a.staged /\ b.sent = a.sent
      /\ b.body = "asking" /\ b.task = a.task /\ b.status = a.status
  BY <1>2, <1>3, <1>10 DEF Branches, Bodies, Statuses, Drains, Ended
<1>6. a.staged \in SUBSET Nat /\ a.sent \in SUBSET Nat /\ a.cursor.step \in Nat
  BY <1>2 DEF Branches, Places
<1>7. Ours(b)
  BY <1>2, <1>4, <1>5, <1>6 DEF Ours, Alive, Unsent, Drains
<1>8. Follows(a, b) /\ SettlesStill(a, b)
  BY <1>2, <1>4, <1>5, <1>6 DEF Ours, Follows, Alive, Unsent, Drains, SettlesStill
<1>9. Moved /\ acts'[t] = b /\ \A s \in Tasks : s # t => acts'[s] = acts[s]
  BY <1>1, <1>4, <1>5, <1>7, <1>8, OneMoves
<1> QED
  BY <1>1, <1>2, <1>4, <1>5, <1>8, <1>9

LEMMA StageMoves ==
  ASSUME IInv, NEW t \in Tasks, Stage(t)
  PROVE  /\ Moved /\ (\A s \in Tasks : s # t => acts'[s] = acts[s])
         /\ SettlesStill(acts[t], acts'[t])
<1>1. PICK a : a = acts[t]
  OBVIOUS
<1>2. a \in Branches /\ Ours(a)
  BY <1>1 DEF IInv, Typed, Tasks
<1>3. PICK b : b = [a EXCEPT !.body = "parked", !.staged = @ \cup {a.cursor.step}]
  OBVIOUS
<1>4. acts' = [acts EXCEPT ![t] = b] /\ (a.body = "asking")
  BY <1>1, <1>2, <1>3 DEF Stage, Set, Branches, Places
<1>5. /\ b \in Branches
      /\ b.node = a.node /\ b.visit = a.visit /\ b.round = a.round /\ b.cursor = a.cursor
      /\ b.staged = a.staged \cup {a.cursor.step} /\ b.sent = a.sent /\ b.body = "parked"
      /\ b.task = a.task /\ b.status = a.status
  BY <1>2, <1>3 DEF Branches, Places, Bodies, Statuses, Drains, Ended
<1>6. a.staged \in SUBSET Nat /\ a.sent \in SUBSET Nat /\ a.cursor.step \in Nat
  BY <1>2 DEF Branches, Places
<1>7. Ours(b)
  BY <1>2, <1>4, <1>5, <1>6 DEF Ours, Alive, Unsent, Drains
<1>8. Follows(a, b) /\ SettlesStill(a, b)
  BY <1>2, <1>4, <1>5, <1>6 DEF Ours, Follows, Alive, Unsent, Drains, SettlesStill
<1>9. Moved /\ acts'[t] = b /\ \A s \in Tasks : s # t => acts'[s] = acts[s]
  BY <1>1, <1>4, <1>5, <1>7, <1>8, OneMoves
<1> QED
  BY <1>1, <1>2, <1>4, <1>5, <1>8, <1>9

LEMMA EndsMoves ==
  ASSUME IInv, NEW t \in Tasks, NEW how \in {"done", "raised"}, Ends(t, how)
  PROVE  /\ Moved /\ (\A s \in Tasks : s # t => acts'[s] = acts[s])
         /\ SettlesStill(acts[t], acts'[t])
<1>1. PICK a : a = acts[t]
  OBVIOUS
<1>2. a \in Branches /\ Ours(a)
  BY <1>1 DEF IInv, Typed, Tasks
<1>3. PICK b : b = [a EXCEPT !.body = how]
  OBVIOUS
<1>4. acts' = [acts EXCEPT ![t] = b] /\ (a.body = "busy" \/ (a.body = "parked" /\ how = "raised"))
  BY <1>1, <1>2, <1>3 DEF Ends, Set, Branches, Places
<1>5. /\ b \in Branches
      /\ b.node = a.node /\ b.visit = a.visit /\ b.round = a.round /\ b.cursor = a.cursor
      /\ b.staged = a.staged /\ b.sent = a.sent /\ b.body = how /\ b.task = a.task
      /\ b.status = a.status
  BY <1>2, <1>3 DEF Branches, Places, Bodies, Statuses, Drains, Ended
<1>6. a.staged \in SUBSET Nat /\ a.sent \in SUBSET Nat /\ a.cursor.step \in Nat
  BY <1>2 DEF Branches, Places
<1>7. Ours(b)
  BY <1>2, <1>4, <1>5, <1>6 DEF Ours, Alive, Unsent, Drains
<1>8. Follows(a, b) /\ SettlesStill(a, b)
  BY <1>2, <1>4, <1>5, <1>6 DEF Ours, Follows, Alive, Unsent, Drains, SettlesStill
<1>9. Moved /\ acts'[t] = b /\ \A s \in Tasks : s # t => acts'[s] = acts[s]
  BY <1>1, <1>4, <1>5, <1>7, <1>8, OneMoves
<1> QED
  BY <1>1, <1>2, <1>4, <1>5, <1>8, <1>9

LEMMA FaultsMoves ==
  ASSUME IInv, NEW t \in Tasks, Faults(t)
  PROVE  /\ Moved /\ (\A s \in Tasks : s # t => acts'[s] = acts[s])
         /\ SettlesStill(acts[t], acts'[t])
<1>1. PICK a : a = acts[t]
  OBVIOUS
<1>2. a \in Branches /\ Ours(a)
  BY <1>1 DEF IInv, Typed, Tasks
<1>3. PICK b : b = [a EXCEPT !.task = "raised", !.status = "squashed"]
  OBVIOUS
<1>4. acts' = [acts EXCEPT ![t] = b] /\ (a.task = "rest")
  BY <1>1, <1>2, <1>3 DEF Faults, Set, Branches, Places, NotRetired
<1>5. /\ b \in Branches
      /\ b.node = a.node /\ b.visit = a.visit /\ b.round = a.round /\ b.cursor = a.cursor
      /\ b.staged = a.staged /\ b.sent = a.sent /\ b.body = a.body /\ b.task = "raised"
      /\ b.status = "squashed"
  BY <1>2, <1>3 DEF Branches, Places, Bodies, Statuses, Drains, Ended
<1>6. a.staged \in SUBSET Nat /\ a.sent \in SUBSET Nat /\ a.cursor.step \in Nat
  BY <1>2 DEF Branches, Places
<1>7. Ours(b)
  BY <1>2, <1>4, <1>5, <1>6 DEF Ours, Alive, Unsent, Drains
<1>8. Follows(a, b) /\ SettlesStill(a, b)
  BY <1>2, <1>4, <1>5, <1>6 DEF Ours, Follows, Alive, Unsent, Drains, SettlesStill
<1>9. Moved /\ acts'[t] = b /\ \A s \in Tasks : s # t => acts'[s] = acts[s]
  BY <1>1, <1>4, <1>5, <1>7, <1>8, OneMoves
<1> QED
  BY <1>1, <1>2, <1>4, <1>5, <1>8, <1>9

LEMMA StaleMoves ==
  ASSUME IInv, NEW t \in Tasks, Stale(t)
  PROVE  /\ Moved /\ (\A s \in Tasks : s # t => acts'[s] = acts[s])
         /\ SettlesStill(acts[t], acts'[t])
<1>1. PICK a : a = acts[t]
  OBVIOUS
<1>2. a \in Branches /\ Ours(a)
  BY <1>1 DEF IInv, Typed, Tasks
<1>3. PICK b : b = [a EXCEPT !.task = "raised", !.status = "squashed", !.staged = {},
                              !.body = IF @ = "parked" THEN "stopped" ELSE @]
  OBVIOUS
<1>4. acts' = [acts EXCEPT ![t] = b] /\ (a.task = "rest")
  BY <1>1, <1>2, <1>3 DEF Stale, Set, Branches, Places, NotRetired
<1>5. /\ b \in Branches
      /\ b.node = a.node /\ b.visit = a.visit /\ b.round = a.round /\ b.cursor = a.cursor
      /\ b.staged = {} /\ b.sent = a.sent
      /\ b.body = (IF a.body = "parked" THEN "stopped" ELSE a.body) /\ b.task = "raised"
      /\ b.status = "squashed"
  BY <1>2, <1>3 DEF Branches, Places, Bodies, Statuses, Drains, Ended
<1>6. a.staged \in SUBSET Nat /\ a.sent \in SUBSET Nat /\ a.cursor.step \in Nat
  BY <1>2 DEF Branches, Places
<1>7. Ours(b)
  BY <1>2, <1>4, <1>5, <1>6 DEF Ours, Alive, Unsent, Drains
<1>8. Follows(a, b) /\ SettlesStill(a, b)
  BY <1>2, <1>4, <1>5, <1>6 DEF Ours, Follows, Alive, Unsent, Drains, SettlesStill
<1>9. Moved /\ acts'[t] = b /\ \A s \in Tasks : s # t => acts'[s] = acts[s]
  BY <1>1, <1>4, <1>5, <1>7, <1>8, OneMoves
<1> QED
  BY <1>1, <1>2, <1>4, <1>5, <1>8, <1>9

LEMMA ConfirmMoves ==
  ASSUME IInv, NEW t \in Tasks, Confirm(t)
  PROVE  /\ Moved /\ (\A s \in Tasks : s # t => acts'[s] = acts[s])
         /\ SettlesStill(acts[t], acts'[t])
<1>1. PICK a : a = acts[t]
  OBVIOUS
<1>2. a \in Branches /\ Ours(a)
  BY <1>1 DEF IInv, Typed, Tasks
<1>3. PICK b : b = [a EXCEPT !.task = "claim", !.status = "confirmed"]
  OBVIOUS
<1>4. acts' = [acts EXCEPT ![t] = b] /\ (a.task = "rest" /\ a.body \in {"parked", "done"})
  BY <1>1, <1>2, <1>3 DEF Confirm, Set, Branches, Places
<1>5. /\ b \in Branches
      /\ b.node = a.node /\ b.visit = a.visit /\ b.round = a.round /\ b.cursor = a.cursor
      /\ b.staged = a.staged /\ b.sent = a.sent /\ b.body = a.body /\ b.task = "claim"
      /\ b.status = "confirmed"
  BY <1>2, <1>3 DEF Branches, Places, Bodies, Statuses, Drains, Ended
<1>6. a.staged \in SUBSET Nat /\ a.sent \in SUBSET Nat /\ a.cursor.step \in Nat
  BY <1>2 DEF Branches, Places
<1>7. Ours(b)
  BY <1>2, <1>4, <1>5, <1>6 DEF Ours, Alive, Unsent, Drains
<1>8. Follows(a, b) /\ SettlesStill(a, b)
  BY <1>2, <1>4, <1>5, <1>6 DEF Ours, Follows, Alive, Unsent, Drains, SettlesStill
<1>9. Moved /\ acts'[t] = b /\ \A s \in Tasks : s # t => acts'[s] = acts[s]
  BY <1>1, <1>4, <1>5, <1>7, <1>8, OneMoves
<1> QED
  BY <1>1, <1>2, <1>4, <1>5, <1>8, <1>9

LEMMA ClaimMoves ==
  ASSUME IInv, NEW t \in Tasks, Claim(t)
  PROVE  /\ Moved /\ (\A s \in Tasks : s # t => acts'[s] = acts[s])
         /\ SettlesStill(acts[t], acts'[t])
<1>1. PICK a : a = acts[t]
  OBVIOUS
<1>2. a \in Branches /\ Ours(a)
  BY <1>1 DEF IInv, Typed, Tasks
<1>3. PICK b : b = [a EXCEPT !.task = "send"]
  OBVIOUS
<1>4. acts' = [acts EXCEPT ![t] = b] /\ (a.task = "claim" /\ Unsent(a) # {})
  BY <1>1, <1>2, <1>3 DEF Claim, Set, Branches, Places
<1>5. /\ b \in Branches
      /\ b.node = a.node /\ b.visit = a.visit /\ b.round = a.round /\ b.cursor = a.cursor
      /\ b.staged = a.staged /\ b.sent = a.sent /\ b.body = a.body /\ b.task = "send"
      /\ b.status = a.status
  BY <1>2, <1>3 DEF Branches, Places, Bodies, Statuses, Drains, Ended
<1>6. a.staged \in SUBSET Nat /\ a.sent \in SUBSET Nat /\ a.cursor.step \in Nat
  BY <1>2 DEF Branches, Places
<1>7. Ours(b)
  BY <1>2, <1>4, <1>5, <1>6 DEF Ours, Alive, Unsent, Drains
<1>8. Follows(a, b) /\ SettlesStill(a, b)
  BY <1>2, <1>4, <1>5, <1>6 DEF Ours, Follows, Alive, Unsent, Drains, SettlesStill
<1>9. Moved /\ acts'[t] = b /\ \A s \in Tasks : s # t => acts'[s] = acts[s]
  BY <1>1, <1>4, <1>5, <1>7, <1>8, OneMoves
<1> QED
  BY <1>1, <1>2, <1>4, <1>5, <1>8, <1>9

LEMMA SettleMoves ==
  ASSUME IInv, NEW t \in Tasks, Settle(t)
  PROVE  /\ Moved /\ (\A s \in Tasks : s # t => acts'[s] = acts[s])
         /\ SettlesStill(acts[t], acts'[t])
<1>1. PICK a : a = acts[t]
  OBVIOUS
<1>2. a \in Branches /\ Ours(a)
  BY <1>1 DEF IInv, Typed, Tasks
<1>3. PICK b : b = [a EXCEPT !.task = "release", !.sent = a.staged,
                              !.body = IF @ = "parked" THEN "busy" ELSE @]
  OBVIOUS
<1>4. acts' = [acts EXCEPT ![t] = b] /\ (a.task = "settle")
  BY <1>1, <1>2, <1>3 DEF Settle, Set, Branches, Places, Released
<1>5. /\ b \in Branches
      /\ b.node = a.node /\ b.visit = a.visit /\ b.round = a.round /\ b.cursor = a.cursor
      /\ b.staged = a.staged /\ b.sent = a.staged
      /\ b.body = (IF a.body = "parked" THEN "busy" ELSE a.body) /\ b.task = "release"
      /\ b.status = a.status
  BY <1>2, <1>3 DEF Branches, Places, Bodies, Statuses, Drains, Ended
<1>6. a.staged \in SUBSET Nat /\ a.sent \in SUBSET Nat /\ a.cursor.step \in Nat
  BY <1>2 DEF Branches, Places
<1>7. Ours(b)
  BY <1>2, <1>4, <1>5, <1>6 DEF Ours, Alive, Unsent, Drains
<1>8. Follows(a, b) /\ SettlesStill(a, b)
  BY <1>2, <1>4, <1>5, <1>6 DEF Ours, Follows, Alive, Unsent, Drains, SettlesStill
<1>9. Moved /\ acts'[t] = b /\ \A s \in Tasks : s # t => acts'[s] = acts[s]
  BY <1>1, <1>4, <1>5, <1>7, <1>8, OneMoves
<1> QED
  BY <1>1, <1>2, <1>4, <1>5, <1>8, <1>9

LEMMA DeadLetterMoves ==
  ASSUME IInv, NEW t \in Tasks, NEW sent \in {"not_sent", "maybe"}, DeadLetter(t, sent)
  PROVE  /\ Moved /\ (\A s \in Tasks : s # t => acts'[s] = acts[s])
         /\ SettlesStill(acts[t], acts'[t])
<1>1. PICK a : a = acts[t]
  OBVIOUS
<1>2. a \in Branches /\ Ours(a)
  BY <1>1 DEF IInv, Typed, Tasks
<1>3. PICK b : b = [a EXCEPT !.task = "raised", !.body = "stopped"]
  OBVIOUS
<1>4. acts' = [acts EXCEPT ![t] = b] /\ (a.task \in {"send", "settle"})
  BY <1>1, <1>2, <1>3 DEF DeadLetter, Set, Branches, Places, NotRetired
<1>5. /\ b \in Branches
      /\ b.node = a.node /\ b.visit = a.visit /\ b.round = a.round /\ b.cursor = a.cursor
      /\ b.staged = a.staged /\ b.sent = a.sent /\ b.body = "stopped" /\ b.task = "raised"
      /\ b.status = a.status
  BY <1>2, <1>3 DEF Branches, Places, Bodies, Statuses, Drains, Ended
<1>6. a.staged \in SUBSET Nat /\ a.sent \in SUBSET Nat /\ a.cursor.step \in Nat
  BY <1>2 DEF Branches, Places
<1>7. Ours(b)
  BY <1>2, <1>4, <1>5, <1>6 DEF Ours, Alive, Unsent, Drains
<1>8. Follows(a, b) /\ SettlesStill(a, b)
  BY <1>2, <1>4, <1>5, <1>6 DEF Ours, Follows, Alive, Unsent, Drains, SettlesStill
<1>9. Moved /\ acts'[t] = b /\ \A s \in Tasks : s # t => acts'[s] = acts[s]
  BY <1>1, <1>4, <1>5, <1>7, <1>8, OneMoves
<1> QED
  BY <1>1, <1>2, <1>4, <1>5, <1>8, <1>9

LEMMA DrainAgainMoves ==
  ASSUME IInv, NEW t \in Tasks, DrainAgain(t)
  PROVE  /\ Moved /\ (\A s \in Tasks : s # t => acts'[s] = acts[s])
         /\ SettlesStill(acts[t], acts'[t])
<1>1. PICK a : a = acts[t]
  OBVIOUS
<1>2. a \in Branches /\ Ours(a)
  BY <1>1 DEF IInv, Typed, Tasks
<1>3. PICK b : b = [a EXCEPT !.task = "claim"]
  OBVIOUS
<1>4. acts' = [acts EXCEPT ![t] = b] /\ (a.task = "release" /\ a.body \in {"parked", "raised"})
  BY <1>1, <1>2, <1>3 DEF DrainAgain, Set, Branches, Places
<1>5. /\ b \in Branches
      /\ b.node = a.node /\ b.visit = a.visit /\ b.round = a.round /\ b.cursor = a.cursor
      /\ b.staged = a.staged /\ b.sent = a.sent /\ b.body = a.body /\ b.task = "claim"
      /\ b.status = a.status
  BY <1>2, <1>3 DEF Branches, Places, Bodies, Statuses, Drains, Ended
<1>6. a.staged \in SUBSET Nat /\ a.sent \in SUBSET Nat /\ a.cursor.step \in Nat
  BY <1>2 DEF Branches, Places
<1>7. Ours(b)
  BY <1>2, <1>4, <1>5, <1>6 DEF Ours, Alive, Unsent, Drains
<1>8. Follows(a, b) /\ SettlesStill(a, b)
  BY <1>2, <1>4, <1>5, <1>6 DEF Ours, Follows, Alive, Unsent, Drains, SettlesStill
<1>9. Moved /\ acts'[t] = b /\ \A s \in Tasks : s # t => acts'[s] = acts[s]
  BY <1>1, <1>4, <1>5, <1>7, <1>8, OneMoves
<1> QED
  BY <1>1, <1>2, <1>4, <1>5, <1>8, <1>9

LEMMA FaultsLateMoves ==
  ASSUME IInv, NEW t \in Tasks, FaultsLate(t)
  PROVE  /\ Moved /\ (\A s \in Tasks : s # t => acts'[s] = acts[s])
         /\ SettlesStill(acts[t], acts'[t])
<1>1. PICK a : a = acts[t]
  OBVIOUS
<1>2. a \in Branches /\ Ours(a)
  BY <1>1 DEF IInv, Typed, Tasks
<1>3. PICK b : b = [a EXCEPT !.task = "raised", !.status = "faulted"]
  OBVIOUS
<1>4. acts' = [acts EXCEPT ![t] = b] /\ (a.task = "release")
  BY <1>1, <1>2, <1>3 DEF FaultsLate, Set, Branches, Places, NotRetired
<1>5. /\ b \in Branches
      /\ b.node = a.node /\ b.visit = a.visit /\ b.round = a.round /\ b.cursor = a.cursor
      /\ b.staged = a.staged /\ b.sent = a.sent /\ b.body = a.body /\ b.task = "raised"
      /\ b.status = "faulted"
  BY <1>2, <1>3 DEF Branches, Places, Bodies, Statuses, Drains, Ended
<1>6. a.staged \in SUBSET Nat /\ a.sent \in SUBSET Nat /\ a.cursor.step \in Nat
  BY <1>2 DEF Branches, Places
<1>7. Ours(b)
  BY <1>2, <1>4, <1>5, <1>6 DEF Ours, Alive, Unsent, Drains
<1>8. Follows(a, b) /\ SettlesStill(a, b)
  BY <1>2, <1>4, <1>5, <1>6 DEF Ours, Follows, Alive, Unsent, Drains, SettlesStill
<1>9. Moved /\ acts'[t] = b /\ \A s \in Tasks : s # t => acts'[s] = acts[s]
  BY <1>1, <1>4, <1>5, <1>7, <1>8, OneMoves
<1> QED
  BY <1>1, <1>2, <1>4, <1>5, <1>8, <1>9

LEMMA RetireMoves ==
  ASSUME IInv, NEW t \in Tasks, Retire(t)
  PROVE  /\ Moved /\ (\A s \in Tasks : s # t => acts'[s] = acts[s])
         /\ SettlesStill(acts[t], acts'[t])
<1>1. PICK a : a = acts[t]
  OBVIOUS
<1>2. a \in Branches /\ Ours(a)
  BY <1>1 DEF IInv, Typed, Tasks
<1>3. PICK b : b = [a EXCEPT !.task = "returned", !.status = "retired"]
  OBVIOUS
<1>4. acts' = [acts EXCEPT ![t] = b] /\ (a.body = "done" /\ a.task \in {"release", "claim"})
  BY <1>1, <1>2, <1>3 DEF Retire, Set, Branches, Places
<1>5. /\ b \in Branches
      /\ b.node = a.node /\ b.visit = a.visit /\ b.round = a.round /\ b.cursor = a.cursor
      /\ b.staged = a.staged /\ b.sent = a.sent /\ b.body = a.body /\ b.task = "returned"
      /\ b.status = "retired"
  BY <1>2, <1>3 DEF Branches, Places, Bodies, Statuses, Drains, Ended
<1>6. a.staged \in SUBSET Nat /\ a.sent \in SUBSET Nat /\ a.cursor.step \in Nat
  BY <1>2 DEF Branches, Places
<1>7. Ours(b)
  BY <1>2, <1>4, <1>5, <1>6 DEF Ours, Alive, Unsent, Drains
<1>8. Follows(a, b) /\ SettlesStill(a, b)
  BY <1>2, <1>4, <1>5, <1>6 DEF Ours, Follows, Alive, Unsent, Drains, SettlesStill
<1>9. Moved /\ acts'[t] = b /\ \A s \in Tasks : s # t => acts'[s] = acts[s]
  BY <1>1, <1>4, <1>5, <1>7, <1>8, OneMoves
<1> QED
  BY <1>1, <1>2, <1>4, <1>5, <1>8, <1>9

LEMMA SendMoves ==
  ASSUME IInv, NEW t \in Tasks, Send(t)
  PROVE  /\ Moved /\ (\A s \in Tasks : s # t => acts'[s] = acts[s])
         /\ acts'[t].task = "settle" /\ acts'[t].cursor = acts[t].cursor /\ acts'[t].status = "confirmed"
<1>1. PICK a : a = acts[t]
  OBVIOUS
<1>2. a \in Branches /\ Ours(a)
  BY <1>1 DEF IInv, Typed, Tasks
<1>3. PICK b : b = [a EXCEPT !.task = "settle"]
  OBVIOUS
<1>4. acts' = [acts EXCEPT ![t] = b] /\ (a.task = "send")
  BY <1>1, <1>2, <1>3 DEF Send, Set, Branches, Places
<1>5. /\ b \in Branches
      /\ b.node = a.node /\ b.visit = a.visit /\ b.round = a.round /\ b.cursor = a.cursor
      /\ b.staged = a.staged /\ b.sent = a.sent /\ b.body = a.body /\ b.task = "settle"
      /\ b.status = a.status
  BY <1>2, <1>3 DEF Branches, Places, Bodies, Statuses, Drains, Ended
<1>6. a.staged \in SUBSET Nat /\ a.sent \in SUBSET Nat /\ a.cursor.step \in Nat
  BY <1>2 DEF Branches, Places
<1>7. Ours(b)
  BY <1>2, <1>4, <1>5, <1>6 DEF Ours, Alive, Unsent, Drains
<1>8. Follows(a, b)
  BY <1>2, <1>4, <1>5, <1>6 DEF Ours, Follows, Alive, Unsent, Drains, SettlesStill
<1>9. Moved /\ acts'[t] = b /\ \A s \in Tasks : s # t => acts'[s] = acts[s]
  BY <1>1, <1>4, <1>5, <1>7, <1>8, OneMoves
<1> QED
  BY <1>1, <1>2, <1>4, <1>5, <1>8, <1>9 DEF Ours, Drains

\* A task that is cancelled leaves its branch as it was, or stops its node.
LEMMA CancelledFollows ==
  ASSUME NEW a \in Branches, Ours(a)
  PROVE  /\ Cancelled(a) \in Branches /\ Ours(Cancelled(a))
         /\ Follows(a, Cancelled(a)) /\ SettlesStill(a, Cancelled(a))
         /\ Cancelled(a).status = a.status
<1>1. CASE a.task \in Ended
  <2>1. Cancelled(a) = a
    BY <1>1 DEF Cancelled, Ended, Drains
  <2> QED
    BY <2>1, StaysAsItIs
<1>2. CASE a.task = "rest"
  <2>1. PICK b : b = [a EXCEPT !.task = "cancelled"]
    OBVIOUS
  <2>2. Cancelled(a) = b
    BY <1>2, <2>1 DEF Cancelled, Ended, Drains
  <2>3. /\ b \in Branches /\ b.task = "cancelled" /\ b.status = a.status /\ b.node = a.node
        /\ b.visit = a.visit /\ b.round = a.round /\ b.sent = a.sent /\ b.staged = a.staged
    BY <2>1 DEF Branches, Ended
  <2> QED
    BY <1>2, <2>2, <2>3 DEF Ours, Alive, Follows, SettlesStill, Drains
<1>3. CASE a.task \in Drains
  <2>1. PICK b : b = [a EXCEPT !.task = "cancelled",
                               !.body = IF @ \in {"done", "raised"} THEN @ ELSE "stopped"]
    OBVIOUS
  <2>2. Cancelled(a) = b
    BY <1>3, <2>1 DEF Cancelled, Ended, Drains
  <2>3. /\ b \in Branches /\ b.task = "cancelled" /\ b.status = a.status /\ b.node = a.node
        /\ b.visit = a.visit /\ b.round = a.round /\ b.sent = a.sent /\ b.staged = a.staged
    BY <2>1 DEF Branches, Ended, Bodies
  <2> QED
    BY <1>3, <2>2, <2>3 DEF Ours, Alive, Follows, SettlesStill, Drains
<1> QED
  BY <1>1, <1>2, <1>3 DEF Branches

LEMMA TasksCancelled ==
  ASSUME IInv, CancelTasks
  PROVE  Moved /\ \A s \in Tasks : SettlesStill(acts[s], acts'[s]) /\ acts'[s].status = acts[s].status
<1>1. acts \in Seq(Branches) /\ \A s \in Tasks : acts[s] \in Branches /\ Ours(acts[s])
  BY DEF IInv, Typed, Tasks
<1>2. DOMAIN acts' = Tasks /\ \A s \in Tasks : acts'[s] = Cancelled(acts[s])
  BY DEF CancelTasks
<1>3. \A s \in Tasks : Cancelled(acts[s]) \in Branches
  BY <1>1, CancelledFollows
<1>4. acts' \in Seq(Branches)
  <2>1. Len(acts) \in Nat /\ Tasks = 1 .. Len(acts)
    BY <1>1 DEF Tasks
  <2>2. acts' \in [1 .. Len(acts) -> Branches]
    BY <1>3, <2>1 DEF CancelTasks
  <2> QED
    BY <2>1, <2>2
<1> QED
  BY <1>1, <1>2, <1>4, CancelledFollows DEF Moved, Tasks

\* The framework starts a task: a branch of its own, under a visit of its own.
LEMMA StartForks ==
  ASSUME IInv, Start
  PROVE  \E n \in Nodes, b \in Branches :
           /\ acts' = Append(acts, b) /\ Ours(b) /\ b.node = n /\ b.task = "rest"
           /\ b.status = "forked" /\ b.sent = {} /\ b.round = round
           /\ b.visit = cursor.visits[n] /\ cursor' \in Places
           /\ cursor'.visits = [cursor.visits EXCEPT ![n] = @ + 1]
<1>1. PICK n : n = Head(todo)
  OBVIOUS
<1>2. n \in Nodes /\ cursor \in Places /\ round \in Nat
  BY <1>1, DrivenAssumption DEF Start, IInv, Typed, TypeOK, Places
<1>3. cursor' = [cursor EXCEPT !.visits[n] = @ + 1]
  BY <1>1 DEF Start, Visited
<1>4. cursor' \in Places /\ cursor'.visits = [cursor.visits EXCEPT ![n] = @ + 1]
  BY <1>2, <1>3 DEF Places
<1>5. cursor.visits[n] \in Nat /\ cursor'.visits[n] = cursor.visits[n] + 1
  BY <1>2, <1>4 DEF Places
<1>6. PICK b : b = [node |-> n, visit |-> cursor'.visits[n] - 1, round |-> round,
                    cursor |-> cursor', calls |-> 0,
                    staged |-> {}, sent |-> {}, body |-> "busy", task |-> "rest", status |-> "forked"]
  OBVIOUS
<1>7. b \in Branches
  BY <1>2, <1>4, <1>5, <1>6 DEF Branches, Bodies, Statuses
<1>8. Ours(b)
  BY <1>6 DEF Ours, Alive, Unsent, Drains
<1>9. acts' = Append(acts, b)
  BY <1>1, <1>6 DEF Start, Branch
<1>10. /\ b.node = n /\ b.task = "rest" /\ b.status = "forked" /\ b.sent = {} /\ b.round = round
       /\ b.visit = cursor.visits[n]
  BY <1>5, <1>6
<1> QED
  BY <1>2, <1>4, <1>7, <1>8, <1>9, <1>10

\* The upstream has taken nothing under the key of a write that is not sent yet.
LEMMA KeyIsFree ==
  ASSUME IInv, NEW t \in Tasks, acts[t].task \in {"claim", "send"}, Unsent(acts[t]) # {},
         NEW i \in DOMAIN world
  PROVE  world[i].key # Key(acts[t])
<1> SUFFICES ASSUME world[i].key = Key(acts[t])
             PROVE  FALSE
  OBVIOUS
<1>1. PICK a : a = acts[t]
  OBVIOUS
<1>2. a \in Branches /\ Ours(a) /\ acts \in Seq(Branches)
  BY <1>1 DEF IInv, Typed, Tasks
<1>3. world[i].by \in Tasks /\ OfTask(world[i])
  BY DEF IInv, Upstream
<1>4. world[i].by = t
  <2>1. acts[world[i].by].node = acts[t].node /\ acts[world[i].by].visit = acts[t].visit
    BY <1>3 DEF OfTask, Key
  <2>2. world[i].by \in Int /\ t \in Int
    BY <1>2, <1>3 DEF Tasks
  <2>3. acts[t].visit \in Nat
    BY <1>1, <1>2 DEF Branches
  <2> QED
    BY <1>3, <2>1, <2>2, <2>3 DEF IInv, Named
<1>5. a.cursor.step \in a.sent
  BY <1>1, <1>3, <1>4 DEF OfTask, Key, Alive
<1>6. Unsent(a) \subseteq {a.cursor.step}
  BY <1>1, <1>2 DEF Ours, Alive
<1> QED
  BY <1>1, <1>5, <1>6 DEF Unsent

\* So a claim is never found delivered: no other branch has the key.
LEMMA NothingToSkip ==
  ASSUME IInv, NEW t \in Tasks
  PROVE  ~SkipDelivered(t)
<1> SUFFICES ASSUME SkipDelivered(t)
             PROVE  FALSE
  OBVIOUS
<1>1. acts[t].task = "claim" /\ Unsent(acts[t]) # {} /\ RowOf(Key(acts[t])) = "delivered"
  BY DEF SkipDelivered
<1>2. PICK i \in DOMAIN world : world[i].key = Key(acts[t])
  BY <1>1 DEF RowOf, IInv, Upstream
<1> QED
  BY <1>1, <1>2, KeyIsFree

\* What any step does to the branches.
LEMMA Steps ==
  ASSUME IInv, [Next]_vars
  PROVE  \/ Start
         \/ \E t \in Tasks : Send(t)
         \/ /\ Moved /\ world' = world
            /\ \A s \in Tasks : SettlesStill(acts[s], acts'[s])
<1>1. ASSUME UNCHANGED <<acts, world>>
      PROVE  Moved /\ world' = world /\ \A s \in Tasks : SettlesStill(acts[s], acts'[s])
  BY <1>1, StaysAsItIs DEF Moved, IInv, Typed
<1>2. CASE UNCHANGED vars
  BY <1>1, <1>2 DEF vars
<1>3. CASE Framework
  <2>1. CASE Fails \/ CancelRun
    BY <2>1, TasksCancelled DEF Fails, CancelRun
  <2>2. CASE Start
    BY <2>2
  <2>3. CASE GraphEnds \/ \E tasks \in Supersteps : NextSuperstep(tasks)
    BY <1>1, <2>3 DEF GraphEnds, NextSuperstep
  <2> QED
    BY <1>3, <2>1, <2>2, <2>3 DEF Framework
<1>4. CASE AccountForClaims \/ Finish
  BY <1>1, <1>4 DEF AccountForClaims, Finish
<1>5. ASSUME NEW t \in Tasks, Moved /\ \A s \in Tasks : s # t => acts'[s] = acts[s],
             SettlesStill(acts[t], acts'[t])
      PROVE  Moved /\ \A s \in Tasks : SettlesStill(acts[s], acts'[s])
  BY <1>5, StaysAsItIs
<1>6. ASSUME NEW t \in Tasks, Body(t)
      PROVE  Moved /\ world' = world /\ \A s \in Tasks : SettlesStill(acts[s], acts'[s])
  <2>1. CASE Read(t)
    BY <1>5, <2>1, ReadMoves DEF Read, Aside
  <2>2. CASE Request(t)
    BY <1>5, <2>2, RequestMoves DEF Request, Aside
  <2>3. CASE Stage(t)
    BY <1>5, <2>3, StageMoves DEF Stage, Aside
  <2>4. CASE \E how \in {"done", "raised"} : Ends(t, how)
    BY <1>5, <2>4, EndsMoves DEF Ends, Aside
  <2> QED
    BY <1>6, <2>1, <2>2, <2>3, <2>4 DEF Body
<1>7. ASSUME NEW t \in Tasks, Retirement(t), ~Send(t)
      PROVE  Moved /\ world' = world /\ \A s \in Tasks : SettlesStill(acts[s], acts'[s])
  <2>1. CASE Faults(t)
    BY <1>5, <2>1, FaultsMoves DEF Faults, Aside
  <2>2. CASE Stale(t)
    BY <1>5, <2>2, StaleMoves DEF Stale, Aside
  <2>3. CASE Confirm(t)
    BY <1>5, <2>3, ConfirmMoves DEF Confirm, Aside
  <2>4. CASE Claim(t)
    BY <1>5, <2>4, ClaimMoves DEF Claim
  <2>5. CASE Settle(t)
    BY <1>5, <2>5, SettleMoves DEF Settle
  <2>6. CASE \E sent \in {"not_sent", "maybe"} : DeadLetter(t, sent)
    BY <1>5, <2>6, DeadLetterMoves DEF DeadLetter
  <2>7. CASE DrainAgain(t)
    BY <1>5, <2>7, DrainAgainMoves DEF DrainAgain, Aside
  <2>8. CASE FaultsLate(t)
    BY <1>5, <2>8, FaultsLateMoves DEF FaultsLate, Aside
  <2>9. CASE Retire(t)
    BY <1>5, <2>9, RetireMoves DEF Retire
  <2> QED
    BY <1>7, <2>1, <2>2, <2>3, <2>4, <2>5, <2>6, <2>7, <2>8, <2>9, NothingToSkip DEF Retirement
<1> QED
  BY <1>2, <1>3, <1>4, <1>6, <1>7 DEF Next

(***************************************************************************)
(* Every step keeps the invariant.                                         *)
(***************************************************************************)

\* The run's cursor never gives a visit back.
LEMMA CursorGrows ==
  ASSUME IInv, [Next]_vars
  PROVE  cursor' \in Places /\ \A n \in Nodes : cursor.visits[n] <= cursor'.visits[n]
<1>1. cursor \in Places
  BY DEF IInv, Typed, TypeOK, Places
<1>2. CASE cursor' = cursor
  BY <1>1, <1>2 DEF Places
<1>3. CASE Start
  <2>1. PICK n \in Nodes : cursor' \in Places /\ cursor'.visits = [cursor.visits EXCEPT ![n] = @ + 1]
    BY <1>3, StartForks
  <2>2. \A m \in Nodes : cursor.visits[m] \in Nat
    BY <1>1 DEF Places
  <2> QED
    BY <1>1, <2>1, <2>2 DEF Places
<1>4. ASSUME NEW t \in Tasks, Retire(t)
      PROVE  cursor' \in Places /\ \A n \in Nodes : cursor.visits[n] <= cursor'.visits[n]
  <2>1. PICK d : d = acts[t].cursor
    OBVIOUS
  <2>0. acts[t] \in Branches
    BY DEF IInv, Typed, Tasks
  <2>2. d \in Places /\ cursor' = Merged(cursor, d)
    BY <1>4, <2>0, <2>1 DEF Retire, Branches
  <2>3. /\ cursor' = [step |-> Max2(cursor.step, d.step),
                      visits |-> [n \in Nodes |-> Max2(cursor.visits[n], d.visits[n])]]
    BY <2>2 DEF Merged
  <2>4. \A n \in Nodes :
          /\ Max2(cursor.visits[n], d.visits[n]) \in Nat
          /\ cursor.visits[n] <= Max2(cursor.visits[n], d.visits[n])
    BY <1>1, <2>2 DEF Places, Max2
  <2>5. Max2(cursor.step, d.step) \in Nat
    BY <1>1, <2>2 DEF Places, Max2
  <2> QED
    BY <2>3, <2>4, <2>5 DEF Places
<1> QED
  BY <1>2, <1>3, <1>4 DEF Next, Framework, NextSuperstep, GraphEnds, Fails, CancelRun, AccountForClaims,
    Finish, Body, Read, Request, Stage, Ends, Retirement, Faults, Stale, Confirm, Claim, SkipDelivered, Send,
    Settle, DeadLetter, DrainAgain, FaultsLate, Aside, vars

\* The fields of each branch keep saying of each other what they do.
LEMMA OursKept ==
  ASSUME IInv, [Next]_vars
  PROVE  acts' \in Seq(Branches) /\ \A t \in Tasks' : Ours(acts'[t])
<1>1. acts \in Seq(Branches) /\ \A t \in Tasks : Ours(acts[t])
  BY DEF IInv, Typed
<1>2. CASE Start
  <2>1. PICK b \in Branches : acts' = Append(acts, b) /\ Ours(b)
    BY <1>2, StartForks
  <2> QED
    BY <1>1, <2>1 DEF Tasks
<1>3. ASSUME NEW t \in Tasks, Send(t)
      PROVE  acts' \in Seq(Branches) /\ \A s \in Tasks' : Ours(acts'[s])
  BY <1>3, SendMoves DEF Moved, Tasks
<1>4. CASE Moved
  BY <1>4 DEF Moved, Tasks
<1> QED
  BY <1>2, <1>3, <1>4, Steps

\* Two branches of a node stay two visits to it.
LEMMA NamedKept ==
  ASSUME IInv, [Next]_vars
  PROVE  Named'
<1>1. acts \in Seq(Branches) /\ Named /\ \A t \in Tasks : acts[t] \in Branches /\ t \in Nat
  BY DEF IInv, Typed, Tasks
<1>2. cursor \in Places
  BY DEF IInv, Typed, TypeOK, Places
<1>3. cursor' \in Places /\ \A n \in Nodes : cursor.visits[n] <= cursor'.visits[n]
  BY CursorGrows
<1>4. CASE Start
  <2>1. PICK n \in Nodes, b \in Branches :
          /\ acts' = Append(acts, b) /\ b.node = n /\ b.visit = cursor.visits[n]
          /\ cursor'.visits = [cursor.visits EXCEPT ![n] = @ + 1]
    BY <1>4, StartForks
  <2>2. /\ Tasks = 1 .. Len(acts) /\ Tasks' = 1 .. Len(acts) + 1 /\ Len(acts) \in Nat
        /\ acts'[Len(acts) + 1] = b /\ \A t \in Tasks : acts'[t] = acts[t]
    BY <1>1, <2>1 DEF Tasks
  <2>3. cursor.visits[n] \in Nat /\ cursor'.visits[n] = cursor.visits[n] + 1
    BY <1>2, <2>1 DEF Places
  <2>4. \A t \in Tasks : acts[t].visit \in Nat /\ acts[t].node \in Nodes
    BY <1>1 DEF Branches
  <2>5. \A m \in Nodes : cursor.visits[m] \in Nat /\ cursor'.visits[m] \in Nat
    BY <1>2, <1>3 DEF Places
  <2>6. \A t \in Tasks' : acts'[t].visit < cursor'.visits[acts'[t].node]
    BY <1>1, <1>3, <2>1, <2>2, <2>3, <2>4, <2>5 DEF Named
  <2>7. ASSUME NEW s \in Tasks', NEW t \in Tasks', s < t, acts'[s].node = acts'[t].node
        PROVE  acts'[s].visit < acts'[t].visit
    <3>1. s \in Tasks /\ acts'[s] = acts[s]
      BY <2>2, <2>7
    <3>2. CASE t \in Tasks
      BY <1>1, <2>2, <2>7, <3>1, <3>2 DEF Named
    <3>3. CASE t = Len(acts) + 1
      BY <1>1, <2>1, <2>2, <2>7, <3>1, <3>3 DEF Named
    <3> QED
      BY <2>2, <3>2, <3>3
  <2> QED
    BY <2>6, <2>7 DEF Named
<1>5. CASE Moved
  <2>1. Tasks' = Tasks /\ \A t \in Tasks : acts'[t].node = acts[t].node /\ acts'[t].visit = acts[t].visit
    BY <1>5 DEF Moved, Tasks, Follows
  <2>2. \A t \in Tasks : acts[t].visit \in Nat /\ acts[t].node \in Nodes
    BY <1>1 DEF Branches
  <2>3. \A m \in Nodes : cursor.visits[m] \in Nat /\ cursor'.visits[m] \in Nat
    BY <1>2, <1>3 DEF Places
  <2> QED
    BY <1>1, <1>3, <2>1, <2>2, <2>3 DEF Named
<1> QED
  BY <1>4, <1>5, Steps, SendMoves

\* What the upstream has taken stays as it was when no branch sends.
LEMMA UpstreamStays ==
  ASSUME IInv, Moved, \A s \in Tasks : SettlesStill(acts[s], acts'[s]), world' = world,
         \A k \in DOMAIN row' : row'[k] = "delivered" =>
           (k \in DOMAIN row /\ row[k] = "delivered") \/ \E i \in DOMAIN world : world[i].key = k
  PROVE  Upstream'
<1>1. Tasks' = Tasks /\ \A s \in Tasks : Follows(acts[s], acts'[s])
  BY DEF Moved, Tasks
<1>2. \A t, s : TookOf(t, s)' <=> TookOf(t, s)
  BY DEF TookOf
<1>3. ASSUME NEW i \in DOMAIN world, NEW w, w = world[i]
      PROVE  w.by \in Tasks /\ OfTask(w)'
  <2>1. w.by \in Tasks /\ OfTask(w) /\ Follows(acts[w.by], acts'[w.by])
    BY <1>1, <1>3 DEF IInv, Upstream
  <2> QED
    BY <2>1 DEF OfTask, Follows
<1>4. ASSUME NEW t \in Tasks, Alive(acts'[t]), NEW s \in acts'[t].sent
      PROVE  TookOf(t, s)
  <2>1. Alive(acts[t]) /\ (s \in acts[t].sent \/ (acts[t].task = "settle" /\ s = acts[t].cursor.step))
    BY <1>1, <1>4 DEF Follows
  <2> QED
    BY <2>1 DEF IInv, Upstream
<1>5. ASSUME NEW t \in Tasks, acts'[t].task = "settle"
      PROVE  TookOf(t, acts'[t].cursor.step)
  <2>1. acts[t].task = "settle" /\ acts'[t].cursor = acts[t].cursor
    BY <1>5 DEF SettlesStill
  <2> QED
    BY <2>1 DEF IInv, Upstream
<1>6. /\ \A i, j \in DOMAIN world : world[i].key = world[j].key => i = j
      /\ \A k \in DOMAIN row' : row'[k] = "delivered" => \E i \in DOMAIN world : world[i].key = k
  BY DEF IInv, Upstream
<1>7. (\A i \in DOMAIN world : world[i].by \in Tasks /\ OfTask(world[i]))'
  BY <1>1, <1>3 DEF OfTask
<1>8. (\A t \in Tasks : Alive(acts[t]) => \A s \in acts[t].sent : TookOf(t, s))'
  BY <1>1, <1>4 DEF TookOf, Alive
<1>9. (\A t \in Tasks : acts[t].task = "settle" => TookOf(t, acts[t].cursor.step))'
  BY <1>1, <1>5 DEF TookOf
<1> QED
  BY <1>6, <1>7, <1>8, <1>9 DEF Upstream

\* What a branch sends is its own, under a key that nothing was sent under.
LEMMA UpstreamAdds ==
  ASSUME IInv, NEW t \in Tasks, Send(t)
  PROVE  Upstream'
<1>1. PICK a, w : a = acts[t] /\ w = [key |-> Key(a), by |-> t]
  OBVIOUS
<1>2. /\ a.task = "send" /\ world' = Append(world, w) /\ row' = row
      /\ a \in Branches
      /\ Ours(a)
      /\ acts \in Seq(Branches)
      /\ world \in Seq([key : [node : Nodes, visit : Nat, step : Nat], by : Nat])
  BY <1>1 DEF Send, IInv, Typed, Tasks
<1>3. /\ Tasks' = Tasks /\ (\A s \in Tasks : s # t => acts'[s] = acts[s])
      /\ acts'[t].task = "settle" /\ acts'[t].cursor = a.cursor /\ acts'[t].status = "confirmed"
      /\ acts'[t].sent = a.sent /\ acts'[t].node = a.node /\ acts'[t].visit = a.visit /\ Alive(a)
  BY <1>1, <1>2, SendMoves DEF Moved, Tasks, Follows, Alive
<1>4. /\ DOMAIN world' = 1 .. Len(world) + 1 /\ DOMAIN world = 1 .. Len(world) /\ Len(world) \in Nat
      /\ world'[Len(world) + 1] = w /\ \A i \in DOMAIN world : world'[i] = world[i]
  BY <1>2
<1>5. w.by = t /\ w.key = Key(a) /\ w.key.node = a.node /\ w.key.visit = a.visit /\ w.key.step = a.cursor.step
  BY <1>1 DEF Key
<1>6. ASSUME NEW i \in DOMAIN world
      PROVE  world[i].key # w.key
  BY <1>1, <1>2, <1>5, <1>6, KeyIsFree DEF Ours, Unsent
<1>7. w.by \in Tasks /\ OfTask(w)'
  BY <1>3, <1>5 DEF OfTask
<1>8. ASSUME NEW i \in DOMAIN world, NEW v, v = world[i]
      PROVE  v.by \in Tasks /\ OfTask(v)'
  <2>1. v.by \in Tasks /\ OfTask(v)
    BY <1>8 DEF IInv, Upstream
  <2> QED
    BY <1>1, <1>2, <1>3, <2>1 DEF OfTask
<1>9. (\A i \in DOMAIN world : world[i].by \in Tasks /\ OfTask(world[i]))'
  <2>1. \A i \in DOMAIN world' : i \in DOMAIN world \/ world'[i] = w
    BY <1>4
  <2> QED
    BY <1>3, <1>4, <1>7, <1>8, <2>1 DEF OfTask
<1>10. (\A i, j \in DOMAIN world : world[i].key = world[j].key => i = j)'
  <2>1. \A i, j \in DOMAIN world : world[i].key = world[j].key => i = j
    BY DEF IInv, Upstream
  <2> QED
    BY <1>4, <1>6, <2>1
<1>11. \A s, p : TookOf(s, p) => TookOf(s, p)'
  BY <1>4 DEF TookOf
<1>12. TookOf(t, a.cursor.step)'
  BY <1>4, <1>5 DEF TookOf
<1>13. ASSUME NEW s \in Tasks, Alive(acts'[s]), NEW p \in acts'[s].sent
       PROVE  TookOf(s, p)'
  <2>1. Alive(acts[s]) /\ p \in acts[s].sent
    BY <1>1, <1>3, <1>13
  <2> QED
    BY <1>11, <2>1 DEF IInv, Upstream
<1>14. ASSUME NEW s \in Tasks, acts'[s].task = "settle", NEW p, p = acts'[s].cursor.step
       PROVE  TookOf(s, p)'
  <2>1. CASE s = t
    BY <1>3, <1>12, <1>14, <2>1
  <2>2. CASE s # t
    BY <1>3, <1>11, <1>14, <2>2 DEF IInv, Upstream
  <2> QED
    BY <2>1, <2>2
<1>15. (\A s \in Tasks : Alive(acts[s]) => \A p \in acts[s].sent : TookOf(s, p))'
  BY <1>3, <1>13 DEF TookOf, Alive
<1>16. (\A s \in Tasks : acts[s].task = "settle" => TookOf(s, acts[s].cursor.step))'
  BY <1>3, <1>14 DEF TookOf
<1>17. (\A k \in DOMAIN row : row[k] = "delivered" => \E i \in DOMAIN world : world[i].key = k)'
  <2>1. \A k \in DOMAIN row : row[k] = "delivered" => \E i \in DOMAIN world : world[i].key = k
    BY DEF IInv, Upstream
  <2> QED
    BY <1>2, <1>4, <2>1
<1> QED
  BY <1>9, <1>10, <1>15, <1>16, <1>17 DEF Upstream

\* A branch just forked has sent nothing.
LEMMA UpstreamWaits ==
  ASSUME IInv, Start
  PROVE  Upstream'
<1>1. PICK b \in Branches : acts' = Append(acts, b) /\ b.task = "rest" /\ b.sent = {}
  BY StartForks
<1>2. acts \in Seq(Branches)
  BY DEF IInv, Typed
<1>3. /\ Tasks = 1 .. Len(acts) /\ Tasks' = 1 .. Len(acts) + 1 /\ Len(acts) \in Nat
      /\ acts'[Len(acts) + 1] = b /\ \A t \in Tasks : acts'[t] = acts[t]
  BY <1>1, <1>2 DEF Tasks
<1>4. world' = world /\ row' = row
  BY DEF Start
<1>5. (\A i \in DOMAIN world : world[i].by \in Tasks /\ OfTask(world[i]))'
  <2>1. \A i \in DOMAIN world : world[i].by \in Tasks /\ OfTask(world[i])
    BY DEF IInv, Upstream
  <2> QED
    BY <1>3, <1>4, <2>1 DEF OfTask
<1>6. \A t, s : TookOf(t, s)' <=> TookOf(t, s)
  BY <1>4 DEF TookOf
<1>7. ASSUME NEW t \in Tasks', Alive(acts'[t]), NEW s \in acts'[t].sent
      PROVE  TookOf(t, s)
  BY <1>1, <1>3, <1>7 DEF IInv, Upstream
<1>8. ASSUME NEW t \in Tasks', acts'[t].task = "settle", NEW s, s = acts'[t].cursor.step
      PROVE  TookOf(t, s)
  BY <1>1, <1>3, <1>8 DEF IInv, Upstream
<1>9. (\A t \in Tasks : Alive(acts[t]) => \A s \in acts[t].sent : TookOf(t, s))'
  BY <1>4, <1>7 DEF TookOf, Alive
<1>10. (\A t \in Tasks : acts[t].task = "settle" => TookOf(t, acts[t].cursor.step))'
  BY <1>4, <1>8 DEF TookOf
<1>11. /\ \A i, j \in DOMAIN world' : world'[i].key = world'[j].key => i = j
       /\ \A k \in DOMAIN row' : row'[k] = "delivered" => \E i \in DOMAIN world' : world'[i].key = k
  BY <1>4 DEF IInv, Upstream
<1> QED
  BY <1>5, <1>9, <1>10, <1>11 DEF Upstream

LEMMA Elements ==
  ASSUME NEW S, NEW s \in Seq(S), NEW i \in DOMAIN s
  PROVE  s[i] \in S
OBVIOUS

\* Which claims are delivered.
LEMMA RowSteps ==
  ASSUME IInv, [Next]_vars, NEW k \in DOMAIN row', row'[k] = "delivered"
  PROVE  (k \in DOMAIN row /\ row[k] = "delivered") \/ \E i \in DOMAIN world : world[i].key = k
<1>1. CASE row' = row
  BY <1>1
<1>2. ASSUME NEW t \in Tasks, Claim(t) \/ (\E sent \in {"not_sent", "maybe"} : DeadLetter(t, sent))
      PROVE  k \in DOMAIN row /\ row[k] = "delivered"
  BY <1>2 DEF Claim, DeadLetter, SetRow
<1>3. ASSUME NEW t \in Tasks, Settle(t)
      PROVE  (k \in DOMAIN row /\ row[k] = "delivered") \/ \E i \in DOMAIN world : world[i].key = k
  <2>1. CASE k # Key(acts[t])
    BY <1>3, <2>1 DEF Settle, SetRow
  <2>2. CASE k = Key(acts[t])
    <3>1. TookOf(t, acts[t].cursor.step)
      BY <1>3 DEF Settle, IInv, Upstream
    <3>2. PICK i \in DOMAIN world : world[i].by = t /\ world[i].key.step = acts[t].cursor.step
      BY <3>1 DEF TookOf
    <3>a. world \in Seq([key : [node : Nodes, visit : Nat, step : Nat], by : Nat])
      BY DEF IInv, Typed
    <3>30. world[i] \in [key : [node : Nodes, visit : Nat, step : Nat], by : Nat]
      BY <3>2, <3>a, Elements
    <3>3. /\ world[i].key \in [node : Nodes, visit : Nat, step : Nat]
          /\ world[i].key.node = acts[t].node /\ world[i].key.visit = acts[t].visit
      BY <3>2, <3>30 DEF IInv, Upstream, OfTask
    <3>4. world[i].key = k
      BY <2>2, <3>2, <3>3 DEF Key
    <3> QED
      BY <3>4
  <2> QED
    BY <2>1, <2>2
<1> QED
  BY <1>1, <1>2, <1>3 DEF Next, Framework, NextSuperstep, GraphEnds, Fails, CancelRun, Start,
    AccountForClaims,
    Finish, Body, Read, Request, Stage, Ends, Retirement, Faults, Stale, Confirm, SkipDelivered, Send,
    DrainAgain, FaultsLate, Retire, Aside, vars

\* What the upstream took is always what the branches sent.
LEMMA UpstreamKept ==
  ASSUME IInv, [Next]_vars
  PROVE  Upstream'
BY Steps, RowSteps, UpstreamStays, UpstreamAdds, UpstreamWaits

\* A branch that has not retired is always of the last superstep.
LEMMA VerdictsKept ==
  ASSUME IInv, [Next]_vars
  PROVE  Verdicts'
<1>1. Verdicts /\ acts \in Seq(Branches)
  BY DEF IInv, Typed
<1>2. CASE Start
  <2>1. PICK b \in Branches : acts' = Append(acts, b) /\ b.round = round
    BY <1>2, StartForks
  <2>2. \A t \in Tasks' : (t \in Tasks /\ acts'[t] = acts[t]) \/ acts'[t] = b
    BY <1>1, <2>1 DEF Tasks
  <2>3. UNCHANGED <<round, run, ok>> /\ run = "driving"
    BY <1>2 DEF Start
  <2> QED
    BY <1>1, <2>1, <2>2, <2>3 DEF Verdicts
<1>3. ASSUME Moved, NEW t \in Tasks', acts'[t].status # "retired"
      PROVE  /\ t \in Tasks /\ acts[t].status # "retired" /\ acts'[t].round = acts[t].round
             /\ round = acts[t].round /\ (run \in {"account", "finish", "over"} => ~ok)
             /\ acts[t].task # "returned"
  <2>1. t \in Tasks /\ Follows(acts[t], acts'[t]) /\ Ours(acts[t])
    BY <1>3 DEF Moved, Tasks, IInv
  <2> QED
    BY <1>1, <1>3, <2>1 DEF Follows, Verdicts, Ours
<1>4. CASE Moved /\ UNCHANGED <<round, run, ok>>
  BY <1>3, <1>4 DEF Verdicts
<1>5. CASE Moved /\ UNCHANGED round /\ (ok' = FALSE \/ run' \in {"driving", "cancelled"})
  BY <1>3, <1>5 DEF Verdicts
<1>6. CASE Moved /\ AtBarrier
  BY <1>3, <1>6 DEF Verdicts, AtBarrier
<1>7. CASE Moved /\ UNCHANGED round /\ run \in {"account", "finish", "over"} /\ (ok' => ok)
  BY <1>3, <1>7 DEF Verdicts
<1>8. \/ UNCHANGED <<round, run, ok>>
      \/ UNCHANGED round /\ (ok' = FALSE \/ run' \in {"driving", "cancelled"})
      \/ AtBarrier
      \/ UNCHANGED round /\ run \in {"account", "finish", "over"} /\ (ok' => ok)
  BY DEF Next, Framework, NextSuperstep, GraphEnds, Fails, CancelRun, Start, AccountForClaims,
    Finish, Body, Read, Request, Stage, Ends, Retirement, Faults, Stale, Confirm, Claim, SkipDelivered, Send,
    Settle, DeadLetter, DrainAgain, FaultsLate, Retire, Aside, vars
<1> QED
  BY <1>2, <1>4, <1>5, <1>6, <1>7, <1>8, Steps, SendMoves

\* Every variable keeps its type.
LEMMA TypedKept ==
  ASSUME IInv, [Next]_vars
  PROVE  Typed'
<1>1. /\ TypeOK /\ acts \in Seq(Branches)
      /\ world \in Seq([key : [node : Nodes, visit : Nat, step : Nat], by : Nat])
  BY DEF IInv, Typed
<1>2. acts' \in Seq(Branches) /\ \A t \in Tasks' : Ours(acts'[t])
  BY OursKept
<1>3. \A t \in Tasks' : acts'[t] \in Branches
  BY <1>2 DEF Tasks
<1>4. \A t \in Tasks' :
        /\ acts'[t].body \in {"busy", "asking", "parked", "done", "raised", "stopped"}
        /\ acts'[t].task \in Ended \cup Drains \cup {"rest"}
        /\ acts'[t].status \in {"forked", "confirmed", "squashed", "faulted", "retired"}
        /\ acts'[t].sent \subseteq acts'[t].staged
  BY <1>2, <1>3 DEF Branches, Bodies, Statuses, Ours
<1>5. cursor' \in [step : Nat, visits : [Nodes -> Nat]]
  BY CursorGrows DEF Places
<1>6. \A k \in DOMAIN row' : row'[k] \in {"in_flight", "delivered", "not_sent", "maybe"}
  <2>1. \A k \in DOMAIN row : row[k] \in {"in_flight", "delivered", "not_sent", "maybe"}
    BY <1>1 DEF TypeOK
  <2>2. \/ row' = row
        \/ \E k : \E status \in {"in_flight", "delivered", "not_sent", "maybe"} : SetRow(k, status)
    BY DEF Next, Framework, NextSuperstep, GraphEnds, Fails, CancelRun, Start, AccountForClaims,
      Finish, Body, Read, Request, Stage, Ends, Retirement, Faults, Stale, Confirm, Claim, SkipDelivered,
      Send, Settle, DeadLetter, DrainAgain, FaultsLate, Retire, Aside, vars
  <2> QED
    BY <2>1, <2>2 DEF SetRow
<1>7. todo' \in Seq(Nodes) /\ round' \in 0 .. MaxSupersteps
  <2>1. todo \in Seq(Nodes) /\ round \in 0 .. MaxSupersteps
    BY <1>1 DEF TypeOK
  <2>2. \/ UNCHANGED <<todo, round>>
        \/ todo' = <<>> /\ round' = round
        \/ todo # <<>> /\ todo' = Tail(todo) /\ round' = round
        \/ todo' \in Supersteps /\ round < MaxSupersteps /\ round' = round + 1
    BY DEF Next, Framework, NextSuperstep, GraphEnds, Fails, CancelRun, Start, AccountForClaims,
      Finish, Body, Read, Request, Stage, Ends, Retirement, Faults, Stale, Confirm, Claim, SkipDelivered,
      Send, Settle, DeadLetter, DrainAgain, FaultsLate, Retire, Aside, vars
  <2>3. Supersteps \subseteq Seq(Nodes) /\ MaxSupersteps \in Nat
    BY DrivenAssumption
  <2>4. todo' \in Seq(Nodes)
    <3>1. CASE todo' = <<>>
      BY <3>1
    <3>2. CASE todo # <<>> /\ todo' = Tail(todo)
      BY <2>1, <3>2
    <3>3. CASE todo' = todo
      BY <2>1, <3>3
    <3>4. CASE todo' \in Supersteps
      BY <2>3, <3>4
    <3> QED
      BY <2>2, <3>1, <3>2, <3>3, <3>4
  <2>5. round' \in 0 .. MaxSupersteps
    <3>1. round' = round \/ (round < MaxSupersteps /\ round' = round + 1)
      BY <2>2
    <3> QED
      BY <2>1, <2>3, <3>1
  <2> QED
    BY <2>4, <2>5
<1>8. run' \in {"driving", "account", "finish", "over", "cancelled"} /\ ok' \in BOOLEAN
  <2>1. run \in {"driving", "account", "finish", "over", "cancelled"} /\ ok \in BOOLEAN
    BY <1>1 DEF TypeOK
  <2>2. CASE Framework
    BY <2>1, <2>2 DEF Framework, NextSuperstep, GraphEnds, Fails, CancelRun, Start
  <2>3. CASE AccountForClaims \/ Finish \/ UNCHANGED vars
    BY <2>1, <2>3 DEF AccountForClaims, Finish, vars
  <2>4. ASSUME NEW t \in Tasks, Body(t) \/ Retirement(t)
        PROVE  UNCHANGED <<run, ok>>
    BY <2>4 DEF Body, Read, Request, Stage, Ends, Retirement, Faults, Stale, Confirm, Claim,
      SkipDelivered, Send, Settle, DeadLetter, DrainAgain, FaultsLate, Retire, Aside
  <2> QED
    BY <2>1, <2>2, <2>3, <2>4 DEF Next
<1>9. world' \in Seq([key : [node : Nodes, visit : Nat, step : Nat], by : Nat])
  <2>1. CASE world' = world
    BY <1>1, <2>1
  <2>2. ASSUME NEW t \in Tasks, Send(t)
        PROVE  world' \in Seq([key : [node : Nodes, visit : Nat, step : Nat], by : Nat])
    <3>1. PICK w : w = [key |-> Key(acts[t]), by |-> t]
      OBVIOUS
    <3>2. acts[t] \in Branches /\ t \in Nat
      BY <1>1 DEF Tasks
    <3>3. w \in [key : [node : Nodes, visit : Nat, step : Nat], by : Nat]
      BY <3>1, <3>2 DEF Key, Branches, Places
    <3> QED
      BY <1>1, <2>2, <3>1, <3>3 DEF Send
  <2>3. CASE Start
    BY <2>1, <2>3 DEF Start
  <2> QED
    BY <2>1, <2>2, <2>3, Steps
<1>10. \A i \in DOMAIN world' : world'[i].by \in Tasks'
  BY UpstreamKept DEF Upstream
<1> QED
  BY <1>2, <1>4, <1>5, <1>6, <1>7, <1>8, <1>9, <1>10 DEF Typed, TypeOK, Ended, Drains, Tasks

LEMMA Initially == Init => IInv
<1> SUFFICES ASSUME Init
             PROVE  IInv
  OBVIOUS
<1>1. Tasks = {} /\ DOMAIN world = {} /\ DOMAIN row = {}
  BY DEF Init, Tasks
<1>2. Typed
  BY <1>1, DrivenAssumption DEF Init, Typed, TypeOK
<1>3. Named /\ Upstream /\ Verdicts
  BY <1>1 DEF Named, Upstream, Verdicts
<1> QED
  BY <1>1, <1>2, <1>3 DEF IInv

LEMMA NextKeeps == IInv /\ [Next]_vars => IInv'
<1> SUFFICES ASSUME IInv, [Next]_vars
             PROVE  IInv'
  OBVIOUS
<1>1. (\A t \in Tasks : Ours(acts[t]))'
  BY OursKept
<1> QED
  BY <1>1, TypedKept, NamedKept, UpstreamKept, VerdictsKept DEF IInv

\* The branches of a driven run, and what the upstream has of them, agree.
THEOREM Invariance == Spec => []IInv
BY Initially, NextKeeps, PTL DEF Spec

\* A driven run keeps its types, for any nodes, supersteps and bounds.
THEOREM TypeCorrect == Spec => []TypeOK
<1>1. IInv => TypeOK
  BY DEF IInv, Typed
<1> QED
  BY <1>1, Invariance, PTL

\* A write of one visit is never taken for one of another: a node that retired has
\* sent each of its writes, itself, once; and a run that reports success has retired
\* every node it started - for any supersteps, overlapping as they may.
THEOREM EachVisitItsOwn == Spec => []EveryVisitSendsItsOwn
<1>1. IInv => EveryVisitSendsItsOwn
  <2> SUFFICES ASSUME IInv
               PROVE  EveryVisitSendsItsOwn
    OBVIOUS
  <2>1. \A i, j \in DOMAIN world : world[i].key = world[j].key => i = j
    BY DEF IInv, Upstream
  <2>2. ASSUME NEW t \in Tasks, acts[t].status = "retired"
        PROVE  {world[i].key.step : i \in {j \in DOMAIN world : world[j].by = t}} = acts[t].staged
    <3>1. Alive(acts[t]) /\ acts[t].task = "returned" /\ acts[t].staged = acts[t].sent
      BY <2>2 DEF IInv, Ours, Alive
    <3>2. ASSUME NEW i \in DOMAIN world, world[i].by = t
          PROVE  world[i].key.step \in acts[t].staged
      BY <3>1, <3>2 DEF IInv, Upstream, OfTask
    <3>3. ASSUME NEW s \in acts[t].staged
          PROVE  \E i \in DOMAIN world : world[i].by = t /\ world[i].key.step = s
      BY <3>1 DEF IInv, Upstream, TookOf
    <3> QED
      BY <3>2, <3>3
  <2>3. run = "over" /\ ok => \A t \in Tasks : acts[t].status = "retired"
    BY DEF IInv, Verdicts
  <2> QED
    BY <2>1, <2>2, <2>3 DEF EveryVisitSendsItsOwn
<1> QED
  BY <1>1, Invariance, PTL

\* What became of a node is never thrown away: one that was squashed has sent
\* nothing, and one that did not retire ends the run, which says that it failed.
THEOREM NoVerdictLost == Spec => []NoVerdictIsLost
<1>1. IInv => NoVerdictIsLost
  <2> SUFFICES ASSUME IInv, NEW t \in Tasks
               PROVE  /\ acts[t].status = "squashed" => \A i \in DOMAIN world : world[i].by # t
                      /\ acts[t].status # "retired" =>
                           round = acts[t].round /\ (run = "over" => ~ok)
    BY DEF NoVerdictIsLost
  <2>1. ASSUME acts[t].status = "squashed", NEW i \in DOMAIN world
        PROVE  world[i].by # t
    BY <2>1 DEF IInv, Upstream, OfTask
  <2>2. acts[t].status # "retired" => round = acts[t].round /\ (run = "over" => ~ok)
    BY DEF IInv, Verdicts
  <2> QED
    BY <2>1, <2>2
<1> QED
  BY <1>1, Invariance, PTL

=============================================================================
