-------------------------------- MODULE Group --------------------------------
(***************************************************************************)
(* A Parallel group: Scheduler._run_group, _run_lanes, _abandon_lanes and, *)
(* after a crash or a failure, recover's open group and _resume_group.     *)
(*                                                                         *)
(* The lanes fork from one position and one committed state, run side by   *)
(* side until each is finished or parked on its write, and retire one at a *)
(* time in declared order.  One node follows the group, to show where the  *)
(* run goes on from.  What a write goes through on its way, and a node     *)
(* that does not wait for its write, are Dispatch's and Drive's.           *)
(***************************************************************************)
EXTENDS Integers, Sequences, FiniteSetsExt

CONSTANTS Last,         \* lanes 1..Last, and the node Last + 1 after them
          Writers,      \* the nodes that make a write
          Early, Late,  \* positions a node takes up to its write, and after it
          Reads,        \* the lanes whose writes change what a lane reads
          Touches,      \* state keys a lane may write before its write returns
          TouchesLate,  \*   and after
          Reducible,    \* state keys with a declared reducer
          MaxResumes    \* bound: drives after the first

Lanes == 1 .. Last
Follower == Last + 1
Nodes == 1 .. Follower

ASSUME GroupAssumption ==
  /\ Last \in Nat \ {0, 1}
  /\ Writers \subseteq Nodes
  /\ Early \in [Nodes -> Nat \ {0}] /\ Late \in [Nodes -> Nat]
  /\ Reads \in [Lanes -> SUBSET Lanes]
  /\ DOMAIN Touches = Lanes /\ DOMAIN TouchesLate = Lanes
  /\ MaxResumes \in Nat

VARIABLES
  decided,    \* on disk: the group, as it was decided
  forks,      \* on disk: every branch forked, with what was journaled of it
  row,        \* on disk: the claim of each write ever claimed
  world,      \* the writes that reached upstream, in order
  pc, cur,    \* the scheduler, and the lane it is at
  first,      \* the first lane this drive runs
  body,       \* each node's body: idle, parked, done, raised or stopped
  at,         \* the position each node's branch is at
  touched,    \* the state keys each lane's branch has written
  seen,       \* the lanes whose writes a lane's reads already show
  stale,      \* the lanes found stale when all were checked together
  sent,       \* the lanes whose writes this drive knows to be delivered
  claimed,    \* the state keys each retired lane committed
  committed,  \* the nodes whose state changes are in committed state
  onward,       \* the position the run goes on from
  resumes

disk == <<decided, forks, row>>
lanes == <<body, at, touched, seen>>
drive == <<first, stale, sent, claimed, committed, onward>>
vars == <<disk, world, pc, cur, lanes, drive, resumes>>

Fresh ==
  /\ body = [n \in Nodes |-> "idle"] /\ at = [n \in Nodes |-> 0]
  /\ touched = [l \in Lanes |-> {}] /\ seen = [l \in Lanes |-> {}]
  /\ stale = {} /\ sent = {}

Init ==
  /\ decided = FALSE /\ forks = <<>> /\ row = <<>> /\ world = <<>>
  /\ pc = "route" /\ cur = 1 /\ first = 1
  /\ Fresh
  /\ claimed = [l \in Lanes |-> {}] /\ committed = {} /\ onward = 0 /\ resumes = 0

FreshAgain ==
  /\ body' = [n \in Nodes |-> "idle"] /\ at' = [n \in Nodes |-> 0]
  /\ touched' = [l \in Lanes |-> {}] /\ seen' = [l \in Lanes |-> {}]
  /\ stale' = {} /\ sent' = {}

\* A node's branch in this drive is the one it forked last.
Mine(n) == Max({i \in DOMAIN forks : forks[i].node = n})
Resolve(n, what) == forks' = [forks EXCEPT ![Mine(n)] = what]
Branch(n) == forks[Mine(n)]

Key(n) == [node |-> n, step |-> Branch(n).step + Early[n]]
RowOf(k) == IF k \in DOMAIN row THEN row[k] ELSE "none"
SetRow(status) ==
  LET k == Key(cur)
  IN row' = [x \in DOMAIN row \cup {k} |-> IF x = k THEN status ELSE row[x]]
Landed == {world[i].node : i \in DOMAIN world}

(***************************************************************************)
(* The group's lanes run to rest: _run_group, _run_lanes, _run_node.       *)
(***************************************************************************)

\* The whole decision goes to disk before any lane forks.
Decide ==
  /\ pc = "route"
  /\ decided' = TRUE
  /\ pc' = "fork" /\ cur' = 1
  /\ UNCHANGED <<forks, row, world, lanes, drive, resumes>>

\* Every lane is forked from the state and the position of the group.  Defect: a
\* resumed lane is forked from what has been committed since.
BaseNow == committed
GroupBase == committed \ Lanes
BaseOf(n) == IF n = Follower THEN committed ELSE GroupBase

Fork(n, step) ==
  forks' = Append(forks,
    [node |-> n, step |-> step, base |-> BaseOf(n), status |-> "forked",
     delta |-> FALSE, wrote |-> {}, after |-> 0])

ForkLane ==
  /\ pc = "fork"
  /\ Fork(cur, 0)
  /\ IF cur = Last THEN pc' = "bodies" /\ cur' = first
                   ELSE pc' = "fork" /\ cur' = cur + 1
  /\ UNCHANGED <<decided, row, world, lanes, drive, resumes>>

\* A lane reads, writes state, and comes to rest: parked on its write, or done.
Rests(l) ==
  /\ pc = "bodies" /\ body[l] = "idle"
  /\ \E keys \in SUBSET Touches[l], reads \in BOOLEAN :
       /\ touched' = [touched EXCEPT ![l] = keys]
       /\ seen' = [seen EXCEPT ![l] = IF reads THEN Landed ELSE Reads[l]]
  /\ body' = [body EXCEPT ![l] = IF l \in Writers THEN "parked" ELSE "done"]
  /\ at' = [at EXCEPT ![l] = Early[l] + (IF l \in Writers THEN 0 ELSE Late[l])]
  /\ UNCHANGED <<disk, world, pc, cur, drive, resumes>>

Raises(l) ==
  /\ pc = "bodies" /\ body[l] = "idle"
  /\ body' = [body EXCEPT ![l] = "raised"]
  /\ UNCHANGED <<disk, world, pc, cur, at, touched, seen, drive, resumes>>

AtRest == pc = "bodies" /\ \A l \in first .. Last : body[l] # "idle"
SomeRaised == \E l \in first .. Last : body[l] = "raised"

\* A lane clashes with a retired one over a key that nothing can combine.
\* Defect: what an earlier drive's lanes committed is not asked about.
ClashesHere(l) == \E k \in first .. Last \ {l} : (touched[l] \cap claimed[k]) \ Reducible # {}
Clashes(l) == \E k \in Lanes \ {l} : (touched[l] \cap claimed[k]) \ Reducible # {}
ClashTogether ==
  \/ \E l \in first .. Last : Clashes(l)
  \/ \E k, l \in first .. Last : k # l /\ (touched[l] \cap touched[k]) \ Reducible # {}

\* What a lane read is no longer so: a sibling's write landed after it read.
StaleNow(l) == (Reads[l] \cap Landed) \ seen[l] # {}

\* The lanes from n on will not retire: revoked, stopped, and resolved on disk.
\* Defect: they go on to retire.
GoOnFrom(n) == pc' = (IF n <= Last THEN "lane" ELSE "over") /\ cur' = n /\ body' = body
AbandonFrom(n) ==
  /\ pc' = "abandon" /\ cur' = n
  /\ body' = [l \in Nodes |-> IF l >= n /\ body[l] # "raised" THEN "stopped" ELSE body[l]]

GiveUpTogether ==
  /\ AtRest
  /\ SomeRaised \/ ClashTogether
  /\ AbandonFrom(first)
  /\ UNCHANGED <<disk, world, at, touched, seen, drive, resumes>>

CheckTogether ==
  /\ AtRest /\ ~SomeRaised /\ ~ClashTogether
  /\ stale' = {l \in first .. Last : StaleNow(l)}
  /\ pc' = "lane" /\ cur' = first
  /\ UNCHANGED <<disk, world, lanes, first, sent, claimed, committed, onward, resumes>>

Abandon ==
  /\ pc = "abandon"
  /\ IF cur <= Last
     THEN /\ Resolve(cur, [Branch(cur) EXCEPT
               !.status = IF body[cur] = "raised" THEN "faulted" ELSE "squashed"])
          /\ pc' = pc /\ cur' = cur + 1
     ELSE pc' = "over" /\ UNCHANGED <<forks, cur>>
  /\ UNCHANGED <<decided, row, world, lanes, drive, resumes>>

(***************************************************************************)
(* One lane after another retires: _run_lanes and _retire.                 *)
(***************************************************************************)

\* Checked together, a lane is checked again once an earlier one has sent.
\* Defect: the first check is kept.
CheckedOnce(l) == l \in stale
IsStale(l) == IF sent = {} THEN l \in stale ELSE StaleNow(l)

LaneClashes ==
  /\ pc = "lane" /\ cur \in Lanes
  /\ Clashes(cur)
  /\ AbandonFrom(cur)
  /\ UNCHANGED <<disk, world, at, touched, seen, drive, resumes>>

LaneStale ==
  /\ pc = "lane" /\ cur \in Lanes
  /\ ~Clashes(cur) /\ IsStale(cur)
  /\ Resolve(cur, [Branch(cur) EXCEPT !.status = "squashed"])
  /\ AbandonFrom(cur + 1)
  /\ UNCHANGED <<decided, row, world, at, touched, seen, drive, resumes>>

Confirm ==
  /\ pc = "lane"
  /\ cur \in Lanes => ~Clashes(cur) /\ ~IsStale(cur)
  /\ Resolve(cur, [Branch(cur) EXCEPT !.status = "confirmed"])
  /\ pc' = "drain"
  /\ UNCHANGED <<decided, row, world, cur, lanes, drive, resumes>>

\* Acknowledged, or nothing to send.
NothingToSend ==
  /\ pc = "drain" /\ cur \notin Writers
  /\ pc' = "acked"
  /\ UNCHANGED <<disk, world, cur, lanes, drive, resumes>>

Draining == pc = "drain" /\ cur \in Writers

\* Defect: a claim the last drive left open is taken up again.
SendAgain == {"none", "not_sent", "in_flight"}
Sendable == {"none", "not_sent"}

Claim ==
  /\ Draining /\ RowOf(Key(cur)) \in Sendable
  /\ SetRow("in_flight")
  /\ pc' = "send"
  /\ UNCHANGED <<decided, forks, world, cur, lanes, drive, resumes>>

SkipDelivered ==
  /\ Draining /\ RowOf(Key(cur)) = "delivered"
  /\ sent' = sent \cup {cur}
  /\ pc' = "acked"
  /\ UNCHANGED <<disk, world, cur, lanes, first, stale, claimed, committed, onward, resumes>>

Lands ==
  /\ pc = "send"
  /\ world' = Append(world, Key(cur))
  /\ pc' = "landed"
  /\ UNCHANGED <<disk, cur, lanes, drive, resumes>>

Delivered ==
  /\ pc = "landed"
  /\ SetRow("delivered")
  /\ sent' = sent \cup {cur}
  /\ pc' = "acked"
  /\ UNCHANGED <<decided, forks, world, cur, lanes, first, stale, claimed, committed, onward, resumes>>

\* A node's write is refused, in doubt, or was in doubt before.
DeadLetter(status) ==
  /\ \/ pc = "send" /\ status \in {"not_sent", "maybe"}
     \/ pc = "landed" /\ status = "maybe"
     \/ /\ Draining /\ RowOf(Key(cur)) \in {"in_flight", "maybe"} \ Sendable
        /\ status = "maybe"
  /\ SetRow(status)
  /\ pc' = "failed"
  /\ UNCHANGED <<decided, forks, world, cur, lanes, drive, resumes>>

\* Its write acknowledged, the node goes on to its end, writing more state.
GoesOn ==
  /\ pc = "acked" /\ body[cur] = "parked"
  /\ body' = [body EXCEPT ![cur] = "done"]
  /\ at' = [at EXCEPT ![cur] = @ + Late[cur]]
  /\ IF cur = Follower THEN UNCHANGED touched
     ELSE \E keys \in SUBSET TouchesLate[cur] :
            touched' = [touched EXCEPT ![cur] = @ \cup keys]
  /\ UNCHANGED <<disk, world, pc, cur, seen, drive, resumes>>

RaisesAfter ==
  /\ pc = "acked" /\ body[cur] = "parked"
  /\ body' = [body EXCEPT ![cur] = "raised"]
  /\ pc' = "failed"
  /\ UNCHANGED <<disk, world, cur, at, touched, seen, drive, resumes>>

\* A lane may clash by what it wrote after its write returned: refused at its
\* commit.
ClashAtCommit ==
  /\ pc = "acked" /\ body[cur] = "done" /\ cur \in Lanes
  /\ Clashes(cur)
  /\ pc' = "failed"
  /\ UNCHANGED <<disk, world, cur, lanes, drive, resumes>>

\* A lane that did not retire, whatever stopped it, is resolved and the lanes after
\* it abandoned (_close_failed_lane); a node by itself, only if its body raised.
CloseFailed ==
  /\ pc = "failed"
  /\ cur \in Lanes \/ body[cur] = "raised"
  /\ Resolve(cur, [Branch(cur) EXCEPT !.status = "faulted"])
  /\ AbandonFrom(cur + 1)
  /\ UNCHANGED <<decided, row, world, at, touched, seen, drive, resumes>>

\* A node by itself over a dead letter: it is stopped and the run halts for a human,
\* with its branch still confirmed.
RunHalts ==
  /\ pc = "failed" /\ cur = Follower /\ body[cur] = "parked"
  /\ body' = [body EXCEPT ![cur] = "stopped"]
  /\ pc' = "over"
  /\ UNCHANGED <<disk, world, cur, at, touched, seen, drive, resumes>>

Commit ==
  /\ pc = "acked" /\ body[cur] = "done"
  /\ cur \in Lanes => ~Clashes(cur)
  /\ LET wrote == IF cur \in Lanes THEN touched[cur] ELSE {}
     IN  /\ Resolve(cur, [Branch(cur) EXCEPT !.delta = TRUE, !.wrote = wrote])
         /\ claimed' = IF cur \in Lanes THEN [claimed EXCEPT ![cur] = wrote] ELSE claimed
  /\ pc' = "retire"
  /\ UNCHANGED <<decided, row, world, cur, lanes, first, stale, sent, committed, onward, resumes>>

\* The last lane journals the group's position, past every lane's, those that
\* retired before a crash included.  Defect: only this drive's.
RetiredOnes == {i \in DOMAIN forks : forks[i].status = "retired"}
PriorStep == Max({0} \cup {forks[i].after : i \in {j \in RetiredOnes : forks[j].node < first}})
ThisDrivesPosition == Max({at[l] : l \in first .. Last})
GroupPosition == Max({PriorStep, ThisDrivesPosition})

Retire ==
  /\ pc = "retire"
  /\ LET after == IF cur = Last THEN GroupPosition ELSE at[cur]
     IN  /\ Resolve(cur, [Branch(cur) EXCEPT !.status = "retired", !.after = after])
         /\ onward' = after
  /\ committed' = committed \cup {cur}
  /\ IF cur < Last THEN pc' = "lane" /\ cur' = cur + 1
     ELSE pc' = (IF cur = Last THEN "follow" ELSE "over") /\ cur' = cur
  /\ UNCHANGED <<decided, row, world, lanes, first, stale, sent, claimed, resumes>>

\* The node after the group, from where the group left off; it parks on its write.
ForkFollower ==
  /\ pc = "follow"
  /\ Fork(Follower, onward)
  /\ body' = [body EXCEPT ![Follower] = IF Follower \in Writers THEN "parked" ELSE "done"]
  /\ at' = [at EXCEPT ![Follower] = onward + Early[Follower]]
  /\ pc' = "lane" /\ cur' = Follower
  /\ UNCHANGED <<decided, row, world, touched, seen, drive, resumes>>

(***************************************************************************)
(* The end of a drive, and what comes after: recover and _resume_group.    *)
(***************************************************************************)

Stopped == {"down", "over"}

Crash ==
  /\ pc \notin Stopped
  /\ pc' = "down"
  /\ FreshAgain
  /\ claimed' = [l \in Lanes |-> {}] /\ committed' = {} /\ onward' = 0
  /\ UNCHANGED <<disk, world, cur, first, resumes>>

RetiredNodes == {forks[i].node : i \in RetiredOnes}
Open == Lanes \ RetiredNodes

\* What the lanes that retired wrote stays claimed.
RecoveredClaims ==
  [l \in Lanes |-> UNION {forks[i].wrote : i \in {j \in RetiredOnes : forks[j].node = l}}]

\* An open group is finished, by the lanes that did not retire, before the router
\* is asked anything.  Defect: every lane runs again.
FirstLane == 1
FirstOpen == IF Open = {} THEN 1 ELSE Min(Open)

Resume ==
  /\ pc \in Stopped
  /\ resumes < MaxResumes
  /\ Follower \notin RetiredNodes
  /\ resumes' = resumes + 1
  /\ FreshAgain
  /\ committed' = RetiredNodes
  /\ claimed' = RecoveredClaims
  /\ first' = FirstOpen
  /\ cur' = first'
  /\ onward' = IF RetiredOnes = {} THEN 0 ELSE forks[Max(RetiredOnes)].after
  /\ pc' = CASE ~decided -> "route" [] decided /\ Open # {} -> "fork" [] OTHER -> "follow"
  /\ UNCHANGED <<disk, world>>

\* The operator has looked upstream, and says what happened to a write in doubt.
Operator(k) ==
  /\ pc \in Stopped
  /\ row[k] \in {"in_flight", "maybe"}
  /\ row' = [row EXCEPT ![k] = IF \E i \in DOMAIN world : world[i] = k
                               THEN "delivered" ELSE "not_sent"]
  /\ UNCHANGED <<decided, forks, world, pc, cur, lanes, drive, resumes>>

-----------------------------------------------------------------------------

Together ==
  \/ Decide \/ ForkLane \/ (\E l \in first .. Last : Rests(l) \/ Raises(l))
  \/ GiveUpTogether \/ CheckTogether \/ Abandon

OneLane ==
  \/ LaneClashes \/ LaneStale \/ Confirm
  \/ NothingToSend \/ Claim \/ SkipDelivered \/ Lands \/ Delivered
  \/ (\E status \in {"not_sent", "maybe"} : DeadLetter(status))
  \/ GoesOn \/ RaisesAfter \/ ClashAtCommit \/ CloseFailed \/ RunHalts
  \/ Commit \/ Retire \/ ForkFollower

Next == Together \/ OneLane \/ Crash \/ Resume \/ (\E k \in DOMAIN row : Operator(k))

Spec == Init /\ [][Next]_vars

-----------------------------------------------------------------------------

StateKeys == UNION {Touches[l] \cup TouchesLate[l] : l \in Lanes}

Branches ==
  [node : Nodes, step : Nat, base : SUBSET Nodes,
   status : {"forked", "confirmed", "faulted", "squashed", "retired"},
   delta : BOOLEAN, wrote : SUBSET StateKeys, after : Nat]

Keys == [node : Nodes, step : Nat]
Claims == {"in_flight", "delivered", "not_sent", "maybe"}

DiskTypes ==
  /\ decided \in BOOLEAN
  /\ forks \in Seq(Branches)
  /\ DOMAIN row \subseteq Keys /\ \A k \in DOMAIN row : row[k] \in Claims
  /\ world \in Seq(Keys)

LaneTypes ==
  /\ body \in [Nodes -> {"idle", "parked", "done", "raised", "stopped"}]
  /\ at \in [Nodes -> Nat]
  /\ touched \in [Lanes -> SUBSET StateKeys]
  /\ seen \in [Lanes -> SUBSET Nodes]

DriveTypes ==
  /\ pc \in {"down", "route", "fork", "bodies", "lane", "drain", "send", "landed", "acked",
             "failed", "retire", "abandon", "follow", "over"}
  /\ first \in Lanes /\ cur \in 1 .. Follower + 1
  /\ stale \subseteq Lanes /\ sent \subseteq Nodes
  /\ claimed \in [Lanes -> SUBSET StateKeys] /\ committed \subseteq Nodes
  /\ onward \in Nat /\ resumes \in 0 .. MaxResumes

\* Everything stays in its type; a lane writes only state keys it may touch.
TypeOK == DiskTypes /\ LaneTypes /\ DriveTypes

\* However a group is stopped and finished, every lane is forked from the group's
\* position and state, never again once it has retired, and the node after it past
\* every position any lane took: a write made again is made under its own key.
GroupRunsInPlace ==
  \A i \in DOMAIN forks :
    LET b == forks[i]
    IN  IF b.node = Follower
        THEN b.base = Lanes /\ b.step = Max({Early[l] + Late[l] : l \in Lanes})
        ELSE /\ b.base = {} /\ b.step = 0
             /\ \A j \in RetiredOnes : forks[j].node = b.node => i <= j

\* No write of the group, or after it, reaches upstream twice.
GroupSendsOnce == \A i, j \in DOMAIN world : world[i] = world[j] => i = j

\* The lanes' writes reach upstream in declared order, each only once every lane
\* before it has retired on disk.
LanesInOrder ==
  \A i \in DOMAIN world : \A l \in Lanes : l < world[i].node => l \in RetiredNodes

\* No two lanes commit a key that nothing combines, whichever drive they retire in.
NoSilentOverwrite ==
  \A i, j \in RetiredOnes :
    forks[i].node # forks[j].node =>
      forks[i].wrote \cap forks[j].wrote \subseteq Reducible

\* A write leaves only if no lane that retired, now or before a crash, committed a
\* key its lane had written by then, or sent something that changed what it read.
Sends(l) == Len(world') > Len(world) /\ cur = l
NothingSentOnAClash ==
  [][\A l \in Lanes : Sends(l) =>
       /\ \A i \in RetiredOnes :
            forks[i].node # l => touched[l] \cap forks[i].wrote \subseteq Reducible
       /\ Reads[l] \cap Landed \subseteq seen[l] \cup {l}]_vars

\* A drive that ends by itself leaves every lane it forked with its ending on disk:
\* retired, faulted or squashed.  The node by itself may be left confirmed instead,
\* but only over a write of its own that was claimed: there is something to look up.
LeftConfirmed(n) ==
  n = Follower /\ Branch(n).status = "confirmed" /\ Key(n) \in DOMAIN row
EveryForkResolved ==
  pc = "over" =>
    \A n \in first .. Follower : n \in {forks[i].node : i \in DOMAIN forks} =>
      Branch(n).status \in {"retired", "faulted", "squashed"} \/ LeftConfirmed(n)
=============================================================================
