----------------------------- MODULE DriveProofs -----------------------------
(***************************************************************************)
(* A run that is stopped and resumed any number of times, over any number  *)
(* of nodes: each is driven where the run that never stops would drive it, *)
(* its write goes out once and in its turn, and a run that reports success *)
(* has left nothing open.                                                  *)
(***************************************************************************)
EXTENDS Drive, SequenceTheorems, TLAPS

USE DriveAssumption

(***************************************************************************)
(* The inductive invariant.                                                *)
(***************************************************************************)

RetiredNodes == {branches[i].node : i \in RetiredOnes}

\* A branch is forked once all the nodes before its own have retired, and none is
\* forked for a node that has.
InOrder ==
  /\ \A i \in DOMAIN branches : \A n \in 1 .. branches[i].node - 1 :
       \E j \in RetiredOnes : j < i /\ branches[j].node = n
  /\ \A i \in RetiredOnes : \A j \in DOMAIN branches :
       i < j => branches[i].node < branches[j].node

\* Where a run is that has retired the nodes up to m.
EndOf(m) ==
  [step |-> Begins[m + 1], visits |-> [n \in Nodes |-> IF n <= m THEN 1 ELSE 0]]

\* What a retirement carries is the place after its node; its claim is not open.
Closed == {"delivered", "not_sent", "maybe"}
Retirements ==
  \A i \in RetiredOnes :
    /\ branches[i].delta /\ branches[i].after = EndOf(branches[i].node)
    /\ RowOf(Key(branches[i])) \in Closed

Working == {"body", "rest", "drain", "send", "landed", "acked", "dead", "commit", "retire"}

\* The nodes retired are the first m, and a drive goes on from there.
Progress ==
  \E m \in 0 .. Last :
    /\ RetiredNodes = 1 .. m
    /\ pc \notin Stopped => committed = 1 .. m
    /\ pc = "route" => cursor = EndOf(m)
    /\ pc \in Working =>
         /\ Mine # 0 /\ Branch.node = m + 1 /\ Branch.status # "retired"
         /\ cursor.visits = EndOf(m + 1).visits
         /\ cursor.step = Begins[IF pc = "body" THEN m + 1 ELSE m + 2]

\* What has become of the write of the node being driven.
AtWork ==
  /\ pc \in {"send", "landed"} => RowOf(Key(Branch)) = "in_flight"
  /\ pc = "send" => \A i \in DOMAIN world : world[i] # Key(Branch)
  /\ pc = "acked" => RowOf(Key(Branch)) = "delivered"
  /\ pc = "dead" => RowOf(Key(Branch)) \in {"not_sent", "maybe"}
  /\ pc \in {"commit", "retire"} => RowOf(Key(Branch)) \in Closed
  /\ pc = "retire" => Branch.delta

\* A write upstream has a claim that does not deny it.
Claimed ==
  \A i \in DOMAIN world : RowOf(world[i]) \in {"in_flight", "delivered", "maybe"}

\* A drive ends well only with every node retired and every claim settled.
EndsWell ==
  /\ pc = "account" => ~ok
  /\ (pc = "finish" /\ ok) \/ (pc = "over" /\ verdict = "ok") =>
       /\ RetiredNodes = Nodes
       /\ \A k \in DOMAIN row : row[k] \in {"delivered", "not_sent"}

DriveInv ==
  /\ TypeOK
  /\ RunsInPlace
  /\ SentOnceInTurn
  /\ InOrder
  /\ Retirements
  /\ Progress
  /\ AtWork
  /\ Claimed
  /\ EndsWell

Record == RunsInPlace /\ SentOnceInTurn /\ InOrder /\ Retirements /\ Claimed

(***************************************************************************)
(* Places, keys, rows and branches.                                        *)
(***************************************************************************)

LEMMA Places ==
  /\ \A n \in 1 .. Last + 1 : Begins[n] \in Nat /\ Begins[n] <= Begins[Last + 1]
  /\ \A n \in Nodes : Takes(n) \in Nat /\ Begins[n] + Takes(n) = Begins[n + 1]
<1>1. \A n \in 1 .. Last + 1 : Begins[n] \in Nat
  OBVIOUS
<1>2. \A n \in 1 .. Last + 1 : n # Last + 1 => Begins[n] < Begins[Last + 1]
  OBVIOUS
<1>3. \A n \in 1 .. Last + 1 : Begins[n] <= Begins[Last + 1]
  BY <1>1, <1>2
<1>4. ASSUME NEW n \in Nodes
      PROVE  Takes(n) \in Nat /\ Begins[n] + Takes(n) = Begins[n + 1]
  <2>1. n \in 1 .. Last + 1 /\ n + 1 \in 1 .. Last + 1 /\ n < n + 1
    BY DEF Nodes
  <2>2. Begins[n] < Begins[n + 1]
    BY <2>1
  <2> QED
    BY <1>1, <2>1, <2>2 DEF Takes
<1> QED
  BY <1>3, <1>1, <1>4

LEMMA EndsTyped ==
  ASSUME NEW m \in 0 .. Last
  PROVE  /\ EndOf(m) \in [step : 0 .. Begins[Last + 1], visits : [Nodes -> {0, 1}]]
         /\ EndOf(m) \in Cursors
         /\ EndOf(m).step = Begins[m + 1]
         /\ \A n \in Nodes : EndOf(m).visits[n] = IF n <= m THEN 1 ELSE 0
<1>1. Begins[m + 1] \in 0 .. Begins[Last + 1]
  BY Places
<1> QED
  BY <1>1 DEF EndOf, Cursors

LEMMA StartIs == Start = EndOf(0) /\ Start \in Cursors
<1>1. Start = EndOf(0)
  BY DEF Start, EndOf, Nodes
<1> QED
  BY <1>1, EndsTyped

LEMMA KeysTyped ==
  ASSUME NEW b \in Branches
  PROVE  Key(b) \in Keys /\ Key(b).node = b.node /\ b.node \in Nodes
<1>1. b.node \in Nodes /\ b.visit \in Nat /\ b.step \in Nat /\ b.call \in Decisions
  BY DEF Branches
<1>2. b.step + Takes(b.node) \in Nat
  BY <1>1, Places
<1> QED
  BY <1>1, <1>2 DEF Key, Keys

LEMMA Marked ==
  ASSUME NEW b \in Branches
  PROVE  /\ \A s \in Statuses : [b EXCEPT !.status = s] \in Branches
         /\ \A s \in Statuses : [b EXCEPT !.status = s, !.confirmed = TRUE] \in Branches
         /\ \A s \in Statuses, c \in Cursors :
              [b EXCEPT !.status = s, !.after = c] \in Branches
         /\ \A c \in Decisions : [b EXCEPT !.call = c] \in Branches
         /\ [b EXCEPT !.delta = TRUE] \in Branches
BY DEF Branches

LEMMA MineIs ==
  ASSUME TypeOK
  PROVE  /\ Mine \in Nat /\ DOMAIN branches = 1 .. Mine
         /\ \A i \in DOMAIN branches : branches[i] \in Branches
         /\ Mine # 0 => Branch \in Branches /\ Mine \in DOMAIN branches
<1>1. branches \in Seq(Branches)
  BY DEF TypeOK
<1>2. /\ Mine \in Nat /\ DOMAIN branches = 1 .. Mine
      /\ \A i \in DOMAIN branches : branches[i] \in Branches
  BY <1>1, LenProperties DEF Mine
<1> QED
  BY <1>2 DEF Branch

\* The branch being driven changes, and no other.
LEMMA Resolved ==
  ASSUME TypeOK, Mine # 0, NEW b \in Branches, branches' = [branches EXCEPT ![Mine] = b]
  PROVE  /\ branches' \in Seq(Branches) /\ Mine' = Mine /\ Branch' = b
         /\ DOMAIN branches' = DOMAIN branches
         /\ \A i \in DOMAIN branches : branches'[i] = IF i = Mine THEN b ELSE branches[i]
<1>1. branches \in Seq(Branches) /\ Mine \in 1 .. Len(branches)
  BY MineIs DEF TypeOK, Mine
<1>2. /\ branches' \in Seq(Branches) /\ Len(branches') = Len(branches)
      /\ \A i \in 1 .. Len(branches) : branches'[i] = IF i = Mine THEN b ELSE branches[i]
  BY <1>1, ExceptSeq
<1>3. DOMAIN branches = 1 .. Len(branches) /\ DOMAIN branches' = 1 .. Len(branches')
  BY <1>1, <1>2, LenProperties
<1> QED
  BY <1>1, <1>2, <1>3 DEF Mine, Branch

RowStates == {"in_flight", "delivered", "not_sent", "maybe"}

LEMMA RowSet ==
  ASSUME TypeOK, NEW k \in Keys, NEW status \in RowStates, SetRow(k, status)
  PROVE  /\ DOMAIN row' \subseteq Keys /\ k \in DOMAIN row'
         /\ \A x \in DOMAIN row' : row'[x] \in RowStates
         /\ \A x : RowOf(x)' = IF x = k THEN status ELSE RowOf(x)
BY DEF TypeOK, SetRow, RowOf, RowStates

\* What the journal says of retired branches, and the world, is as it was.
LEMMA RecordStays ==
  ASSUME Record, UNCHANGED <<branches, row, world>>
  PROVE  Record' /\ RetiredNodes' = RetiredNodes
<1>1. RetiredOnes' = RetiredOnes /\ RetiredNodes' = RetiredNodes
  BY DEF RetiredOnes, RetiredNodes
<1>2. \A k : RowOf(k)' = RowOf(k)
  BY DEF RowOf
<1>3. RunsInPlace' /\ SentOnceInTurn' /\ InOrder' /\ Claimed'
  BY <1>1, <1>2 DEF Record, RunsInPlace, SentOnceInTurn, InOrder, Claimed
<1>4. Retirements'
  BY <1>1, <1>2 DEF Record, Retirements, Key
<1> QED
  BY <1>1, <1>3, <1>4 DEF Record

\* A branch that is not retired may be marked, and its call decided.
LEMMA RecordMarked ==
  ASSUME TypeOK, Record, Mine # 0, Branch.status # "retired",
         NEW b \in Branches, branches' = [branches EXCEPT ![Mine] = b],
         b.node = Branch.node, b.visit = Branch.visit, b.step = Branch.step,
         b.base = Branch.base, b.status # "retired", UNCHANGED <<row, world>>
  PROVE  Record' /\ RetiredNodes' = RetiredNodes
<1>1. /\ DOMAIN branches' = DOMAIN branches
      /\ \A i \in DOMAIN branches : branches'[i] = IF i = Mine THEN b ELSE branches[i]
  BY Resolved
<1>2. Branch = branches[Mine]
  BY DEF Branch
<1>3. /\ RetiredOnes' = RetiredOnes
      /\ \A i \in RetiredOnes : branches'[i] = branches[i]
      /\ RetiredOnes \subseteq DOMAIN branches
  BY <1>1, <1>2 DEF RetiredOnes
<1>4. RetiredNodes' = RetiredNodes
  BY <1>3 DEF RetiredNodes
<1>5. \A i \in DOMAIN branches :
        /\ branches'[i].node = branches[i].node /\ branches'[i].visit = branches[i].visit
        /\ branches'[i].step = branches[i].step /\ branches'[i].base = branches[i].base
  BY <1>1, <1>2
<1>6. \A k : RowOf(k)' = RowOf(k)
  BY DEF RowOf
<1>7. RunsInPlace'
  BY <1>1, <1>5 DEF Record, RunsInPlace
<1>8. SentOnceInTurn'
  BY <1>3 DEF Record, SentOnceInTurn
<1>9. InOrder'
  BY <1>1, <1>3, <1>5 DEF Record, InOrder
<1>10. Retirements' /\ Claimed'
  BY <1>3, <1>6 DEF Record, Retirements, Claimed, Key
<1> QED
  BY <1>4, <1>7, <1>8, <1>9, <1>10 DEF Record

\* A claim changes.
LEMMA RecordClaims ==
  ASSUME TypeOK, Record, NEW k \in Keys, NEW status \in RowStates, SetRow(k, status),
         status = "not_sent" => \A i \in DOMAIN world : world[i] # k,
         status = "in_flight" => \A i \in RetiredOnes : Key(branches[i]) # k,
         UNCHANGED <<branches, world>>
  PROVE  Record' /\ RetiredNodes' = RetiredNodes
<1>1. RetiredOnes' = RetiredOnes /\ RetiredNodes' = RetiredNodes
  BY DEF RetiredOnes, RetiredNodes
<1>2. \A x : RowOf(x)' = IF x = k THEN status ELSE RowOf(x)
  BY RowSet
<1>3. RunsInPlace' /\ SentOnceInTurn' /\ InOrder'
  BY <1>1 DEF Record, RunsInPlace, SentOnceInTurn, InOrder
<1>4. Retirements'
  <2>1. ASSUME NEW i \in RetiredOnes
        PROVE  RowOf(Key(branches[i]))' \in Closed
    <3>1. RowOf(Key(branches[i])) \in Closed
      BY DEF Record, Retirements
    <3>2. Key(branches[i])' = Key(branches[i])
      BY DEF Key
    <3> QED
      BY <1>2, <3>1, <3>2 DEF Closed, RowStates
  <2> QED
    BY <1>1, <2>1 DEF Record, Retirements, Key
<1>5. Claimed'
  BY <1>2 DEF Record, Claimed, RowStates
<1> QED
  BY <1>1, <1>3, <1>4, <1>5 DEF Record

\* The node being driven is the first that has not retired: its key is its own.
LEMMA OwnKey ==
  ASSUME DriveInv, pc \in Working
  PROVE  /\ Mine # 0 /\ Branch \in Branches /\ Branch.status # "retired"
         /\ Key(Branch) \in Keys
         /\ \A i \in RetiredOnes : Key(branches[i]) # Key(Branch)
<1>1. Mine # 0 /\ Branch.status # "retired"
  BY DEF DriveInv, Progress
<1>2. Branch \in Branches
  BY <1>1, MineIs DEF DriveInv
<1>3. ASSUME NEW i \in RetiredOnes
      PROVE  Key(branches[i]).node < Key(Branch).node
  <2>1. i \in DOMAIN branches /\ i # Mine /\ Mine \in DOMAIN branches
    BY <1>1, MineIs DEF RetiredOnes, Branch, DriveInv
  <2>2. i < Mine /\ branches[i] \in Branches
    BY <2>1, MineIs DEF DriveInv
  <2>3. branches[i].node < Branch.node
    BY <2>1, <2>2 DEF DriveInv, InOrder, Branch
  <2> QED
    BY <1>2, <2>2, <2>3, KeysTyped
<1>4. \A i \in RetiredOnes : Key(branches[i]) \in Keys
  BY MineIs, KeysTyped DEF RetiredOnes, DriveInv
<1>5. \A k \in Keys : k.node \in Int
  BY DEF Keys, Nodes
<1>6. Key(Branch) \in Keys
  BY <1>2, KeysTyped
<1> QED
  BY <1>1, <1>2, <1>3, <1>4, <1>5, <1>6

LEMMA Initially == Init => DriveInv
<1> SUFFICES ASSUME Init PROVE DriveInv
  OBVIOUS
<1>1. /\ DOMAIN branches = {} /\ DOMAIN row = {} /\ DOMAIN world = {}
      /\ branches \in Seq(Branches) /\ world \in Seq(Keys)
      /\ pc = "route" /\ committed = {} /\ cursor = Start /\ verdict = "none"
  BY DEF Init
<1>2. RetiredOnes = {} /\ RetiredNodes = {}
  BY <1>1 DEF RetiredOnes, RetiredNodes
<1>3. TypeOK
  BY <1>1, StartIs, EndsTyped DEF Init, TypeOK
<1>4. Progress
  <2>1. 1 .. 0 = {} /\ 0 \in 0 .. Last
    OBVIOUS
  <2> QED
    BY <1>1, <1>2, <2>1, StartIs DEF Progress, Working
<1>5. RunsInPlace /\ SentOnceInTurn /\ InOrder /\ Retirements /\ Claimed
  BY <1>1, <1>2 DEF RunsInPlace, SentOnceInTurn, InOrder, Retirements, Claimed
<1>6. AtWork /\ EndsWell
  BY <1>1 DEF AtWork, EndsWell
<1> QED
  BY <1>3, <1>4, <1>5, <1>6 DEF DriveInv

(***************************************************************************)
(* The node, and the steps that only move the drive on.                    *)
(***************************************************************************)

\* The drive moves within the work on one node.
LEMMA WorkGoesOn ==
  ASSUME DriveInv, pc \in Working \ {"body"}, pc' \in Working \ {"body"},
         RetiredNodes' = RetiredNodes, UNCHANGED <<committed, cursor>>,
         Mine' = Mine, Branch'.node = Branch.node, Branch'.status # "retired"
  PROVE  Progress'
<1>1. PICK m \in 0 .. Last :
        /\ RetiredNodes = 1 .. m
        /\ pc \notin Stopped => committed = 1 .. m
        /\ pc \in Working =>
             /\ Mine # 0 /\ Branch.node = m + 1
             /\ cursor.visits = EndOf(m + 1).visits
             /\ cursor.step = Begins[IF pc = "body" THEN m + 1 ELSE m + 2]
  BY DEF DriveInv, Progress
<1>2. pc \notin Stopped /\ pc' # "route" /\ pc # "body" /\ pc' # "body"
  BY DEF Working, Stopped
<1>3. /\ RetiredNodes' = 1 .. m /\ committed' = 1 .. m
      /\ Mine' # 0 /\ Branch'.node = m + 1
      /\ cursor'.visits = EndOf(m + 1).visits /\ cursor'.step = Begins[m + 2]
  BY <1>1, <1>2
<1> QED
  BY <1>2, <1>3 DEF Progress, EndOf

\* The drive of a node is over without its retirement, or the run is.
LEMMA WorkEnds ==
  ASSUME DriveInv, pc \notin Stopped, pc' \in {"account", "finish", "over", "down"},
         RetiredNodes' = RetiredNodes, committed' = committed \/ pc' = "down"
  PROVE  Progress'
<1>1. PICK m \in 0 .. Last :
        RetiredNodes = 1 .. m /\ (pc \notin Stopped => committed = 1 .. m)
  BY DEF DriveInv, Progress
<1>2. pc' \notin Working /\ pc' # "route" /\ (pc' = "down" => pc' \in Stopped)
  BY DEF Working, Stopped
<1>3. RetiredNodes' = 1 .. m /\ (pc' \notin Stopped => committed' = 1 .. m)
  BY <1>1, <1>2
<1> QED
  BY <1>2, <1>3 DEF Progress

LEMMA NodeMovesKeeps ==
  ASSUME DriveInv, GivesUp \/ RaisesLate \/ NodeFinishes
  PROVE  DriveInv'
<1>1. /\ UNCHANGED <<branches, row, verdict, world, pc, committed, cursor, ok, resumes>>
      /\ node' \in {"done", "raised"}
  BY DEF GivesUp, RaisesLate, NodeFinishes, disk
<1>2. Record' /\ RetiredNodes' = RetiredNodes
  BY <1>1, RecordStays DEF DriveInv, Record
<1>3. Mine' = Mine /\ Branch' = Branch /\ \A k : RowOf(k)' = RowOf(k)
  BY <1>1 DEF Mine, Branch, RowOf
<1>4. TypeOK'
  BY <1>1 DEF DriveInv, TypeOK
<1>5. Progress'
  BY <1>1, <1>2, <1>3 DEF DriveInv, Progress
<1>6. AtWork'
  BY <1>1, <1>3 DEF DriveInv, AtWork, Key
<1>7. EndsWell'
  BY <1>1, <1>2 DEF DriveInv, EndsWell
<1> QED
  BY <1>2, <1>4, <1>5, <1>6, <1>7 DEF DriveInv, Record

\* The write is decided on, and its position taken.
LEMMA StageKeeps ==
  ASSUME DriveInv, NEW c \in Decisions, Stage(c)
  PROVE  DriveInv'
<1> DEFINE b == [Branch EXCEPT !.call = c]
<1>1. /\ pc = "body" /\ pc' = "rest" /\ node' = "waits"
      /\ branches' = [branches EXCEPT ![Mine] = b]
      /\ cursor' = [cursor EXCEPT !.step = @ + Takes(Branch.node)]
      /\ UNCHANGED <<row, verdict, world, committed, ok, resumes>>
  BY DEF Stage, Resolve
<1>2. /\ Mine # 0 /\ Branch \in Branches /\ Branch.status # "retired"
  BY <1>1, OwnKey DEF Working
<1>3. /\ b \in Branches /\ b.node = Branch.node /\ b.visit = Branch.visit
      /\ b.step = Branch.step /\ b.base = Branch.base /\ b.status # "retired"
  BY <1>2, Marked DEF Branches
<1> HIDE DEF b
<1>4. Record' /\ RetiredNodes' = RetiredNodes
  BY <1>1, <1>2, <1>3, RecordMarked DEF DriveInv, Record
<1>5. branches' \in Seq(Branches) /\ Mine' = Mine /\ Branch' = b
  BY <1>1, <1>2, <1>3, Resolved DEF DriveInv
<1>6. PICK m \in 0 .. Last :
        /\ RetiredNodes = 1 .. m /\ committed = 1 .. m
        /\ Branch.node = m + 1
        /\ cursor.visits = EndOf(m + 1).visits /\ cursor.step = Begins[m + 1]
  BY <1>1 DEF DriveInv, Progress, Working, Stopped
<1>7. m + 1 \in Nodes /\ m + 1 \in 0 .. Last
  BY <1>2, <1>6 DEF Branches, Nodes
<1>8. /\ cursor'.visits = cursor.visits
      /\ cursor'.step = Begins[m + 2]
      /\ cursor' \in [step : 0 .. Begins[Last + 1], visits : [Nodes -> {0, 1}]]
  <2>1. cursor \in [step : 0 .. Begins[Last + 1], visits : [Nodes -> {0, 1}]]
    BY DEF DriveInv, TypeOK
  <2>2. cursor.step + Takes(m + 1) = Begins[m + 2]
    <3>1. Begins[m + 1] + Takes(m + 1) = Begins[(m + 1) + 1] /\ (m + 1) + 1 = m + 2
      BY <1>7, Places
    <3> QED
      BY <1>6, <3>1
  <2>3. m + 2 \in 1 .. Last + 1
    BY <1>7
  <2>4. Begins[m + 2] \in 0 .. Begins[Last + 1]
    BY <2>3, Places
  <2> QED
    BY <1>1, <1>6, <2>1, <2>2, <2>4
<1>9. TypeOK'
  BY <1>1, <1>5, <1>8 DEF DriveInv, TypeOK
<1>10. Progress'
  BY <1>1, <1>2, <1>3, <1>4, <1>5, <1>6, <1>8 DEF Progress, EndOf, Stopped, Working
<1>11. AtWork' /\ EndsWell'
  BY <1>1 DEF AtWork, EndsWell
<1> QED
  BY <1>4, <1>9, <1>10, <1>11 DEF DriveInv, Record

\* The branch is marked as faulted, squashed or confirmed.
LEMMA MarksKeeps ==
  ASSUME DriveInv, Faults \/ Stale \/ Confirm \/ FaultsAfter \/ CommitDelta
  PROVE  DriveInv'
<1>1. PICK b \in {[Branch EXCEPT !.status = "faulted"], [Branch EXCEPT !.status = "squashed"],
                  [Branch EXCEPT !.status = "confirmed", !.confirmed = TRUE],
                  [Branch EXCEPT !.delta = TRUE]} :
        /\ branches' = [branches EXCEPT ![Mine] = b]
        /\ pc \in Working
        /\ \/ pc' = "account" /\ ok' = FALSE
           \/ pc = "rest" /\ pc' = "drain" /\ ok' = ok
           \/ pc = "commit" /\ pc' = "retire" /\ ok' = ok /\ b = [Branch EXCEPT !.delta = TRUE]
        /\ node' \in {node, "raised"}
        /\ UNCHANGED <<row, verdict, world, committed, cursor, resumes>>
  BY DEF Faults, Stale, Confirm, FaultsAfter, CommitDelta, Resolve, Working, AfterConfirm
<1>2. /\ Mine # 0 /\ Branch \in Branches /\ Branch.status # "retired"
  BY <1>1, OwnKey
<1>3. /\ b \in Branches /\ b.node = Branch.node /\ b.visit = Branch.visit
      /\ b.step = Branch.step /\ b.base = Branch.base /\ b.call = Branch.call
      /\ b.status # "retired"
  <2>1. CASE b = [Branch EXCEPT !.status = "faulted"]
    <3>1. "faulted" \in Statuses
      BY DEF Statuses
    <3>2. b \in Branches
      BY <1>2, <2>1, <3>1, Marked
    <3> QED
      BY <1>2, <2>1, <3>2 DEF Branches
  <2>2. CASE b = [Branch EXCEPT !.status = "squashed"]
    <3>1. "squashed" \in Statuses
      BY DEF Statuses
    <3>2. b \in Branches
      BY <1>2, <2>2, <3>1, Marked
    <3> QED
      BY <1>2, <2>2, <3>2 DEF Branches
  <2>3. CASE b = [Branch EXCEPT !.status = "confirmed", !.confirmed = TRUE]
    <3>1. "confirmed" \in Statuses
      BY DEF Statuses
    <3>2. b \in Branches
      BY <1>2, <2>3, <3>1, Marked
    <3> QED
      BY <1>2, <2>3, <3>2 DEF Branches
  <2>4. CASE b = [Branch EXCEPT !.delta = TRUE]
    BY <1>2, <2>4, Marked DEF Branches
  <2> QED
    BY <1>1, <2>1, <2>2, <2>3, <2>4
<1>a. b = [Branch EXCEPT !.delta = TRUE] => b.delta
  BY <1>2 DEF Branches
<1>4. Record' /\ RetiredNodes' = RetiredNodes
  BY <1>1, <1>2, <1>3, RecordMarked DEF DriveInv, Record
<1>5. branches' \in Seq(Branches) /\ Mine' = Mine /\ Branch' = b
  BY <1>1, <1>2, <1>3, Resolved DEF DriveInv
<1>6. TypeOK'
  BY <1>1, <1>5 DEF DriveInv, TypeOK
<1>7. Progress'
  <2>1. CASE pc' = "account"
    BY <1>1, <1>4, <2>1, WorkEnds DEF Working, Stopped
  <2>2. CASE pc' # "account"
    BY <1>1, <1>3, <1>4, <1>5, <2>2, WorkGoesOn DEF Working
  <2> QED
    BY <2>1, <2>2
<1>8. \A k : RowOf(k)' = RowOf(k)
  BY <1>1 DEF RowOf
<1>9. Key(Branch)' = Key(Branch)
  BY <1>3, <1>5 DEF Key
<1>10. AtWork'
  BY <1>1, <1>a, <1>5, <1>8, <1>9 DEF DriveInv, AtWork
<1>11. EndsWell'
  BY <1>1 DEF EndsWell
<1> QED
  BY <1>4, <1>6, <1>7, <1>10, <1>11 DEF DriveInv, Record

(***************************************************************************)
(* The write.                                                              *)
(***************************************************************************)

\* A claim of the node's own write, and what is heard of it.
LEMMA ClaimsKeeps ==
  ASSUME DriveInv,
         \/ Claim \/ StopOnDoubt \/ Delivered
         \/ \E status \in {"not_sent", "maybe"} : DeadLetter(status)
  PROVE  DriveInv'
<1> DEFINE k == Key(Branch)
<1>1. PICK status \in RowStates :
        /\ SetRow(k, status)
        /\ \/ pc = "drain" /\ pc' = "send" /\ status = "in_flight" /\ RowOf(k) \in Sendable
           \/ pc = "drain" /\ pc' = "dead" /\ status = "maybe"
           \/ pc = "landed" /\ pc' = "acked" /\ status = "delivered"
           \/ pc = "send" /\ pc' = "dead" /\ status \in {"not_sent", "maybe"}
           \/ pc = "landed" /\ pc' = "dead" /\ status = "maybe"
        /\ UNCHANGED <<branches, verdict, world, node, committed, cursor, ok, resumes>>
  BY DEF Claim, StopOnDoubt, Delivered, DeadLetter, RowStates
<1>2. pc \in Working \ {"body"} /\ pc' \in Working \ {"body"}
  BY <1>1 DEF Working
<1>3. k \in Keys /\ \A i \in RetiredOnes : Key(branches[i]) # k
  BY <1>2, OwnKey
<1>4. Branch' = Branch /\ Mine' = Mine /\ k' = k /\ Branch.status # "retired"
  BY <1>1, <1>2, OwnKey DEF Branch, Mine, Key
<1> HIDE DEF k
<1>5. status \in {"not_sent", "in_flight"} => \A i \in DOMAIN world : world[i] # k
  <2>1. CASE pc = "drain"
    BY <1>1, <2>1 DEF DriveInv, Claimed, Sendable
  <2>2. CASE pc = "send"
    BY <2>2 DEF DriveInv, AtWork, k
  <2> QED
    BY <1>1, <2>1, <2>2
<1>6. Record' /\ RetiredNodes' = RetiredNodes
  BY <1>1, <1>3, <1>5, RecordClaims DEF DriveInv, Record
<1>7. /\ DOMAIN row' \subseteq Keys /\ \A x \in DOMAIN row' : row'[x] \in RowStates
      /\ RowOf(k)' = status
  BY <1>1, <1>3, <1>4, RowSet DEF DriveInv, RowOf
<1>8. TypeOK'
  BY <1>1, <1>7 DEF DriveInv, TypeOK, RowStates
<1>9. Progress'
  BY <1>1, <1>2, <1>4, <1>6, WorkGoesOn
<1>10. AtWork'
  <2>1. RowOf(Key(Branch))' = status
    BY <1>4, <1>7 DEF k, RowOf
  <2>2. pc' = "send" => \A i \in DOMAIN world' : world'[i] # Key(Branch)'
    BY <1>1, <1>4, <1>5 DEF k
  <2> QED
    BY <1>1, <2>1, <2>2 DEF AtWork
<1>11. EndsWell'
  BY <1>1 DEF EndsWell
<1> QED
  BY <1>6, <1>8, <1>9, <1>10, <1>11 DEF DriveInv, Record

\* It reaches upstream: for the first time, with every node before its own retired.
LEMMA LandsKeeps ==
  ASSUME DriveInv, Lands
  PROVE  DriveInv'
<1> DEFINE k == Key(Branch)
           n == Len(world)
<1>1. /\ pc = "send" /\ pc' = "landed" /\ world' = Append(world, k)
      /\ UNCHANGED <<branches, row, verdict, node, committed, cursor, ok, resumes>>
  BY DEF Lands, disk
<1>2. /\ k \in Keys /\ Mine # 0 /\ Branch.status # "retired"
      /\ Branch \in Branches /\ k.node = Branch.node
  BY <1>1, OwnKey, KeysTyped DEF Working
<1>3. RowOf(k) = "in_flight" /\ \A i \in DOMAIN world : world[i] # k
  BY <1>1 DEF DriveInv, AtWork
<1>4. /\ Branch' = Branch /\ Mine' = Mine /\ \A x : RowOf(x)' = RowOf(x)
      /\ RetiredOnes' = RetiredOnes /\ RetiredNodes' = RetiredNodes
  BY <1>1 DEF Branch, Mine, RowOf, RetiredOnes, RetiredNodes
<1>a. k' = k
  BY <1>4 DEF Key
<1>5. \A m \in 1 .. k.node - 1 : \E j \in RetiredOnes : branches[j].node = m
  <2>1. Mine \in DOMAIN branches
    BY <1>2, MineIs DEF DriveInv
  <2> QED
    BY <1>2, <2>1 DEF DriveInv, InOrder, Branch
<1>6. /\ n \in Nat /\ DOMAIN world = 1 .. n /\ world' \in Seq(Keys)
      /\ DOMAIN world' = 1 .. n + 1 /\ world'[n + 1] = k
      /\ \A i \in 1 .. n : world'[i] = world[i]
  <2>1. world \in Seq(Keys)
    BY DEF DriveInv, TypeOK
  <2> HIDE DEF k
  <2> QED
    BY <1>1, <1>2, <2>1, AppendProperties, LenProperties
<1> HIDE DEF k, n
<1>7. SentOnceInTurn'
  <2>1. \A i, j \in DOMAIN world' : world'[i] = world'[j] => i = j
    BY <1>3, <1>6 DEF DriveInv, SentOnceInTurn
  <2>2. ASSUME NEW i \in DOMAIN world', NEW m \in 1 .. world'[i].node - 1
        PROVE  \E j \in RetiredOnes : branches[j].node = m
    <3>1. CASE i \in 1 .. n
      BY <1>6, <2>2, <3>1 DEF DriveInv, SentOnceInTurn
    <3>2. CASE i = n + 1
      BY <1>5, <1>6, <2>2, <3>2
    <3> QED
      BY <1>6, <3>1, <3>2
  <2> QED
    BY <1>1, <1>4, <2>1, <2>2 DEF SentOnceInTurn
<1>8. Claimed'
  <2>1. ASSUME NEW i \in DOMAIN world'
        PROVE  RowOf(world'[i]) \in {"in_flight", "delivered", "maybe"}
    BY <1>3, <1>6 DEF DriveInv, Claimed
  <2> QED
    BY <1>4, <2>1 DEF Claimed, RowOf
<1>9. RunsInPlace' /\ InOrder' /\ Retirements'
  BY <1>1, <1>4 DEF DriveInv, RunsInPlace, InOrder, Retirements, Key
<1>10. TypeOK'
  BY <1>1, <1>6 DEF DriveInv, TypeOK
<1>11. Progress'
  BY <1>1, <1>2, <1>4, WorkGoesOn DEF Working
<1>12. AtWork' /\ EndsWell'
  BY <1>1, <1>3, <1>4, <1>a DEF AtWork, EndsWell, k
<1> QED
  BY <1>7, <1>8, <1>9, <1>10, <1>11, <1>12 DEF DriveInv

\* The node is told, or it is not.
LEMMA DrainEndsKeeps ==
  ASSUME DriveInv, SkipDelivered \/ Drained \/ Halts
  PROVE  DriveInv'
<1>1. /\ \/ pc = "drain" /\ pc' = "acked" /\ ok' = ok /\ RowOf(Key(Branch)) = "delivered"
         \/ pc \in {"acked", "dead"} /\ pc' = "commit" /\ ok' \in BOOLEAN
         \/ pc = "dead" /\ pc' = "account" /\ ok' = FALSE
      /\ node' \in {node, "raised"}
      /\ UNCHANGED <<branches, row, verdict, world, committed, cursor, resumes>>
  BY DEF SkipDelivered, Drained, Halts, disk
<1>2. Record' /\ RetiredNodes' = RetiredNodes
  BY <1>1, RecordStays DEF DriveInv, Record
<1>3. /\ Branch' = Branch /\ Mine' = Mine /\ \A x : RowOf(x)' = RowOf(x)
      /\ Key(Branch)' = Key(Branch)
  BY <1>1 DEF Branch, Mine, RowOf, Key
<1>4. pc \in Working \ {"body"} /\ Branch.status # "retired"
  BY <1>1, OwnKey DEF Working
<1>5. TypeOK'
  BY <1>1 DEF DriveInv, TypeOK
<1>6. Progress'
  <2>1. CASE pc' = "account"
    BY <1>1, <1>2, <1>4, <2>1, WorkEnds DEF Working, Stopped
  <2>2. CASE pc' # "account"
    BY <1>1, <1>2, <1>3, <1>4, <2>2, WorkGoesOn DEF Working
  <2> QED
    BY <2>1, <2>2
<1>7. AtWork'
  BY <1>1, <1>3 DEF DriveInv, AtWork, Closed
<1>8. EndsWell'
  BY <1>1 DEF EndsWell
<1> QED
  BY <1>2, <1>5, <1>6, <1>7, <1>8 DEF DriveInv, Record

\* The operator settles a claim as the world shows it.
LEMMA OperatorKeeps ==
  ASSUME DriveInv, NEW k \in DOMAIN row, Operator(k)
  PROVE  DriveInv'
<1>1. PICK status \in RowStates :
        /\ SetRow(k, status) /\ status \in {"delivered", "not_sent"}
        /\ status = "not_sent" => \A i \in DOMAIN world : world[i] # k
        /\ pc \in Stopped /\ row[k] \in {"in_flight", "maybe"}
        /\ UNCHANGED <<branches, verdict, world, pc, node, committed, cursor, ok, resumes>>
  <2> DEFINE landed == \E i \in DOMAIN world : world[i] = k
  <2>1. CASE landed
    BY <2>1 DEF Operator, RowStates
  <2>2. CASE ~landed
    BY <2>2 DEF Operator, RowStates
  <2> QED
    BY <2>1, <2>2
<1>2. k \in Keys
  BY DEF DriveInv, TypeOK
<1>3. Record' /\ RetiredNodes' = RetiredNodes
  BY <1>1, <1>2, RecordClaims DEF DriveInv, Record
<1>4. DOMAIN row' \subseteq Keys /\ \A x \in DOMAIN row' : row'[x] \in RowStates
  BY <1>1, <1>2, RowSet DEF DriveInv
<1>5. TypeOK'
  BY <1>1, <1>4 DEF DriveInv, TypeOK, RowStates
<1>6. Progress'
  BY <1>1, <1>3 DEF DriveInv, Progress, Working, Stopped
<1>7. AtWork'
  BY <1>1 DEF AtWork, Stopped
<1>8. EndsWell'
  BY <1>1 DEF DriveInv, EndsWell, Stopped
<1> QED
  BY <1>3, <1>5, <1>6, <1>7, <1>8 DEF DriveInv, Record

(***************************************************************************)
(* From node to node, and from drive to drive.                             *)
(***************************************************************************)

\* The router names the first node that has not retired.
LEMMA ForkKeeps ==
  ASSUME DriveInv, Fork
  PROVE  DriveInv'
<1>1. PICK m \in 0 .. Last :
        RetiredNodes = 1 .. m /\ committed = 1 .. m /\ cursor = EndOf(m)
  BY DEF DriveInv, Progress, Fork, Stopped
<1>2. m + 1 \in Nodes /\ m + 1 \in 0 .. Last /\ Min(Ahead) = m + 1
  <2>1. \A y : y \in Ahead <=> y \in Nodes /\ y > m
    BY <1>1 DEF Ahead, Nodes
  <2>2. PICK n \in Nodes : n > m
    BY <2>1 DEF Fork
  <2>3. m + 1 \in Nodes /\ m + 1 \in 0 .. Last
    BY <2>2 DEF Nodes
  <2>4. m + 1 \in Ahead /\ \A y \in Ahead : m + 1 <= y
    BY <2>1, <2>3 DEF Nodes
  <2>5. \A x \in Ahead : (\A y \in Ahead : x <= y) => x = m + 1
    BY <2>1, <2>4 DEF Nodes
  <2> QED
    BY <2>3, <2>4, <2>5 DEF Min
<1>3. PICK b : /\ b = [node |-> m + 1, visit |-> cursor.visits[m + 1], step |-> cursor.step,
                       base |-> committed, call |-> CHOOSE c \in Decisions : TRUE,
                       status |-> "forked", confirmed |-> FALSE, delta |-> FALSE,
                       after |-> Start]
               /\ branches' = Append(branches, b)
               /\ cursor' = [cursor EXCEPT !.visits[m + 1] = @ + 1]
               /\ pc = "route" /\ pc' = "body" /\ node' = "busy"
               /\ UNCHANGED <<row, verdict, world, committed, ok, resumes>>
  BY <1>2 DEF Fork
<1>b. /\ pc = "route" /\ pc' = "body" /\ node' = "busy"
      /\ UNCHANGED <<row, verdict, world, committed, ok, resumes>>
  BY <1>3
<1>4. /\ cursor.visits[m + 1] = 0 /\ cursor.step = Begins[m + 1] /\ Begins[m + 1] \in Nat
      /\ cursor \in [step : 0 .. Begins[Last + 1], visits : [Nodes -> {0, 1}]]
  BY <1>1, <1>2, EndsTyped, Places DEF DriveInv, TypeOK
<1>5. /\ b.node = m + 1 /\ b.visit = 0 /\ b.step = Begins[m + 1] /\ b.base = 1 .. m
      /\ b.status = "forked"
  BY <1>1, <1>3, <1>4
<1>6. b \in Branches
  <2>1. (CHOOSE c \in Decisions : TRUE) \in Decisions
    OBVIOUS
  <2>2. 1 .. m \in SUBSET Nodes
    BY DEF Nodes
  <2> QED
    BY <1>1, <1>2, <1>3, <1>4, <2>1, <2>2, StartIs DEF Branches, Statuses
<1>7. /\ cursor'.step = Begins[m + 1] /\ cursor'.visits = EndOf(m + 1).visits
      /\ cursor' \in [step : 0 .. Begins[Last + 1], visits : [Nodes -> {0, 1}]]
  <2>1. cursor' = [step |-> cursor.step, visits |-> [cursor.visits EXCEPT ![m + 1] = @ + 1]]
    BY <1>3, <1>4
  <2>2. /\ cursor'.step = cursor.step
        /\ cursor'.visits = [cursor.visits EXCEPT ![m + 1] = 1]
    BY <1>4, <2>1
  <2>3. cursor.visits = [n \in Nodes |-> IF n <= m THEN 1 ELSE 0]
    BY <1>1 DEF EndOf
  <2>4. cursor'.visits = [n \in Nodes |-> IF n <= m + 1 THEN 1 ELSE 0]
    <3>1. /\ DOMAIN cursor'.visits = Nodes
          /\ cursor'.visits = [n \in Nodes |-> cursor'.visits[n]]
      BY <2>2, <2>3
    <3>2. \A n \in Nodes : cursor'.visits[n] = IF n <= m + 1 THEN 1 ELSE 0
      BY <1>2, <2>2, <2>3 DEF Nodes
    <3> QED
      BY <3>1, <3>2
  <2>5. cursor'.visits = EndOf(m + 1).visits
    BY <2>4 DEF EndOf
  <2>6. cursor'.visits \in [Nodes -> {0, 1}]
    BY <2>4
  <2> QED
    BY <1>4, <2>1, <2>2, <2>5, <2>6
<1>8. /\ branches' \in Seq(Branches) /\ Mine' = Mine + 1 /\ Branch' = b
      /\ DOMAIN branches = 1 .. Mine /\ DOMAIN branches' = 1 .. Mine + 1 /\ Mine \in Nat
      /\ branches'[Mine + 1] = b /\ \A i \in 1 .. Mine : branches'[i] = branches[i]
  <2>1. branches \in Seq(Branches)
    BY DEF DriveInv, TypeOK
  <2> HIDE DEF Branches
  <2>2. /\ branches' \in Seq(Branches) /\ Len(branches') = Len(branches) + 1
        /\ \A i \in 1 .. Len(branches) : branches'[i] = branches[i]
        /\ branches'[Len(branches) + 1] = b
    BY <1>3, <1>6, <2>1, AppendProperties
  <2>3. /\ Len(branches) \in Nat /\ DOMAIN branches = 1 .. Len(branches)
        /\ DOMAIN branches' = 1 .. Len(branches')
    BY <2>1, <2>2, LenProperties
  <2> QED
    BY <2>2, <2>3 DEF Mine, Branch
<1>9. /\ RetiredOnes' = RetiredOnes /\ RetiredNodes' = RetiredNodes
      /\ \A i \in RetiredOnes : i \in 1 .. Mine /\ branches'[i] = branches[i]
  <2>1. RetiredOnes' = RetiredOnes
    BY <1>5, <1>8 DEF RetiredOnes
  <2>2. \A i \in RetiredOnes : i \in 1 .. Mine /\ branches'[i] = branches[i]
    BY <1>8 DEF RetiredOnes
  <2> QED
    BY <2>1, <2>2 DEF RetiredNodes
<1>10. \A k : RowOf(k)' = RowOf(k)
  BY <1>b DEF RowOf
<1>11. RunsInPlace'
  <2>1. m = (m + 1) - 1
    OBVIOUS
  <2>2. ASSUME NEW i \in 1 .. Mine + 1
        PROVE  /\ branches'[i].step = Begins[branches'[i].node] /\ branches'[i].visit = 0
               /\ branches'[i].base = 1 .. branches'[i].node - 1
    <3>1. CASE i = Mine + 1
      BY <1>5, <1>8, <2>1, <3>1
    <3>2. CASE i \in 1 .. Mine
      BY <1>8, <3>2 DEF DriveInv, RunsInPlace
    <3> QED
      BY <1>8, <3>1, <3>2
  <2> QED
    BY <1>8, <2>2 DEF RunsInPlace
<1>12. SentOnceInTurn'
  BY <1>b, <1>9 DEF DriveInv, SentOnceInTurn
<1>13. InOrder'
  <2>1. ASSUME NEW i \in 1 .. Mine + 1, NEW n \in 1 .. branches'[i].node - 1
        PROVE  \E j \in RetiredOnes : j < i /\ branches'[j].node = n
    <3>1. CASE i = Mine + 1
      <4>1. n \in RetiredNodes
        BY <1>1, <1>5, <1>8, <2>1, <3>1
      <4>2. PICK j \in RetiredOnes : branches[j].node = n
        BY <4>1 DEF RetiredNodes
      <4> QED
        BY <1>8, <1>9, <3>1, <4>2
    <3>2. CASE i \in 1 .. Mine
      <4>1. n \in 1 .. branches[i].node - 1
        BY <1>8, <2>1, <3>2
      <4>2. PICK j \in RetiredOnes : j < i /\ branches[j].node = n
        BY <1>8, <3>2, <4>1 DEF DriveInv, InOrder
      <4> QED
        BY <1>9, <4>2
    <3> QED
      BY <1>8, <3>1, <3>2
  <2>2. ASSUME NEW i \in RetiredOnes, NEW j \in 1 .. Mine + 1, i < j
        PROVE  branches'[i].node < branches'[j].node
    <3>1. CASE j = Mine + 1
      <4>1. branches[i].node \in 1 .. m
        BY <1>1 DEF RetiredNodes
      <4> QED
        BY <1>5, <1>8, <1>9, <3>1, <4>1
    <3>2. CASE j \in 1 .. Mine
      BY <1>8, <1>9, <2>2, <3>2 DEF DriveInv, InOrder
    <3> QED
      BY <1>8, <3>1, <3>2
  <2> QED
    BY <1>8, <1>9, <2>1, <2>2 DEF InOrder
<1>14. Retirements' /\ Claimed'
  BY <1>b, <1>9, <1>10 DEF DriveInv, Retirements, Claimed, Key
<1>15. TypeOK'
  BY <1>3, <1>7, <1>8 DEF DriveInv, TypeOK
<1>16. Progress'
  <2>1. Mine' # 0 /\ Branch'.node = m + 1 /\ Branch'.status # "retired"
    BY <1>5, <1>8
  <2> QED
    BY <1>1, <1>3, <1>7, <1>9, <2>1 DEF Progress, EndOf, Stopped
<1>17. AtWork' /\ EndsWell'
  BY <1>3 DEF AtWork, EndsWell
<1> QED
  BY <1>11, <1>12, <1>13, <1>14, <1>15, <1>16, <1>17 DEF DriveInv

\* One more node has retired, with all that has to be on disk with it.
LEMMA RetireKeeps ==
  ASSUME DriveInv, Retire
  PROVE  DriveInv'
<1> DEFINE b == [Branch EXCEPT !.status = "retired", !.after = cursor]
<1>1. /\ pc = "retire" /\ branches' = [branches EXCEPT ![Mine] = b]
      /\ committed' = committed \cup {Branch.node}
      /\ pc' = IF ok THEN "route" ELSE "account"
      /\ UNCHANGED <<row, verdict, world, node, cursor, ok, resumes>>
  BY DEF Retire, Resolve
<1>2. /\ Mine # 0 /\ Branch \in Branches /\ Branch.status # "retired"
      /\ Key(Branch) \in Keys /\ Mine \in DOMAIN branches /\ Branch = branches[Mine]
  BY <1>1, OwnKey, MineIs DEF Working, Branch, DriveInv
<1>3. PICK m \in 0 .. Last :
        /\ RetiredNodes = 1 .. m /\ committed = 1 .. m /\ Branch.node = m + 1
        /\ cursor.visits = EndOf(m + 1).visits /\ cursor.step = Begins[m + 2]
  BY <1>1 DEF DriveInv, Progress, Working, Stopped
<1>4. m + 1 \in Nodes /\ m + 1 \in 0 .. Last
  BY <1>2, <1>3 DEF Branches, Nodes
<1>5. cursor = EndOf(m + 1) /\ cursor \in Cursors
  <2>1. cursor = [step |-> cursor.step, visits |-> cursor.visits]
    BY DEF DriveInv, TypeOK
  <2>2. (m + 1) + 1 = m + 2
    OBVIOUS
  <2>3. cursor = EndOf(m + 1)
    BY <1>3, <2>1, <2>2 DEF EndOf
  <2> QED
    BY <1>4, <2>3, EndsTyped
<1>6. /\ b \in Branches /\ b.node = Branch.node /\ b.visit = Branch.visit
      /\ b.step = Branch.step /\ b.base = Branch.base /\ b.call = Branch.call
      /\ b.status = "retired" /\ b.after = cursor /\ b.delta = Branch.delta
  <2>1. "retired" \in Statuses
    BY DEF Statuses
  <2>2. b \in Branches
    BY <1>2, <1>5, <2>1, Marked
  <2> QED
    BY <1>2, <2>2 DEF Branches
<1> HIDE DEF b
<1>7. /\ branches' \in Seq(Branches) /\ Mine' = Mine /\ Branch' = b
      /\ DOMAIN branches' = DOMAIN branches
      /\ \A i \in DOMAIN branches : branches'[i] = IF i = Mine THEN b ELSE branches[i]
  BY <1>1, <1>2, <1>6, Resolved DEF DriveInv
<1>8. /\ RetiredOnes' = RetiredOnes \cup {Mine} /\ Mine \notin RetiredOnes
      /\ \A i \in RetiredOnes : branches'[i] = branches[i]
      /\ branches'[Mine] = b
  BY <1>2, <1>6, <1>7 DEF RetiredOnes
<1>9. RetiredNodes' = 1 .. m + 1
  <2>1. RetiredNodes' = RetiredNodes \cup {m + 1}
    BY <1>3, <1>6, <1>8 DEF RetiredNodes
  <2> QED
    BY <1>3, <2>1
<1>10. /\ \A k : RowOf(k)' = RowOf(k)
       /\ Key(b) = Key(Branch)
  BY <1>1, <1>6 DEF RowOf, Key
<1>11. \A i \in DOMAIN branches :
        /\ branches'[i].node = branches[i].node /\ branches'[i].visit = branches[i].visit
        /\ branches'[i].step = branches[i].step /\ branches'[i].base = branches[i].base
  BY <1>2, <1>6, <1>7
<1>12. RunsInPlace'
  BY <1>7, <1>11 DEF DriveInv, RunsInPlace
<1>13. SentOnceInTurn'
  BY <1>1, <1>8 DEF DriveInv, SentOnceInTurn
<1>14. InOrder'
  <2>1. ASSUME NEW i \in DOMAIN branches', NEW n \in 1 .. branches'[i].node - 1
        PROVE  \E j \in RetiredOnes' : j < i /\ branches'[j].node = n
    BY <1>7, <1>8, <1>11, <2>1 DEF DriveInv, InOrder
  <2>2. ASSUME NEW i \in RetiredOnes', NEW j \in DOMAIN branches', i < j
        PROVE  branches'[i].node < branches'[j].node
    <3>1. i \in RetiredOnes
      BY <1>7, <1>8, <2>2, MineIs DEF DriveInv
    <3>2. i \in DOMAIN branches
      BY <3>1 DEF RetiredOnes
    <3> QED
      BY <1>7, <1>11, <2>2, <3>1, <3>2 DEF DriveInv, InOrder
  <2> QED
    BY <2>1, <2>2 DEF InOrder
<1>15. Retirements'
  <2>1. ASSUME NEW i \in RetiredOnes'
        PROVE  /\ branches'[i].delta /\ branches'[i].after = EndOf(branches'[i].node)
               /\ RowOf(Key(branches'[i])) \in Closed
    <3>1. CASE i = Mine
      <4>1. Branch.delta /\ RowOf(Key(Branch)) \in Closed
        BY <1>1 DEF DriveInv, AtWork
      <4> QED
        BY <1>3, <1>5, <1>6, <1>8, <1>10, <3>1, <4>1
    <3>2. CASE i \in RetiredOnes
      BY <1>8, <3>2 DEF DriveInv, Retirements
    <3> QED
      BY <1>8, <3>1, <3>2
  <2> QED
    BY <1>10, <2>1 DEF Retirements, EndOf, Key, RowOf
<1>16. Claimed'
  BY <1>1, <1>10 DEF DriveInv, Claimed
<1>17. TypeOK'
  <2>1. committed' \subseteq Nodes
    BY <1>1, <1>3, <1>4 DEF DriveInv, TypeOK
  <2> QED
    BY <1>1, <1>7, <2>1 DEF DriveInv, TypeOK
<1>18. Progress'
  <2>1. committed' = 1 .. m + 1
    BY <1>1, <1>3
  <2>2. pc' \in {"route", "account"} /\ cursor' = EndOf(m + 1)
    BY <1>1, <1>5
  <2> QED
    BY <1>4, <1>9, <2>1, <2>2 DEF Progress, EndOf, Working
<1>19. AtWork'
  BY <1>1 DEF AtWork
<1>20. EndsWell'
  BY <1>1 DEF EndsWell
<1> QED
  BY <1>12, <1>13, <1>14, <1>15, <1>16, <1>17, <1>18, <1>19, <1>20 DEF DriveInv

\* A drive ends: it is accounted for, reported, or cut off.
LEMMA EndingKeeps ==
  ASSUME DriveInv, Account \/ Finish \/ Crash
  PROVE  DriveInv'
<1>1. /\ pc \notin Stopped /\ pc' \in {"finish", "over", "down"}
      /\ UNCHANGED <<branches, row, world, resumes>>
      /\ (UNCHANGED <<committed, cursor, node>>
            \/ (pc' = "down" /\ committed' = {} /\ cursor' = Start /\ node' = "done"))
      /\ ok' \in BOOLEAN /\ verdict' \in {"ok", "failed", verdict}
  <2>1. ok \in BOOLEAN
    BY DEF DriveInv, TypeOK
  <2>2. CASE Account
    BY <2>1, <2>2 DEF Account, disk, Stopped
  <2>3. CASE Finish
    BY <2>1, <2>3 DEF Finish, Stopped
  <2>4. CASE Crash
    BY <2>4 DEF Crash, disk, Stopped
  <2> QED
    BY <2>2, <2>3, <2>4
<1>2. Record' /\ RetiredNodes' = RetiredNodes
  BY <1>1, RecordStays DEF DriveInv, Record
<1>3. TypeOK'
  <2>1. cursor' \in [step : 0 .. Begins[Last + 1], visits : [Nodes -> {0, 1}]]
    BY <1>1, StartIs, EndsTyped DEF DriveInv, TypeOK
  <2> QED
    BY <1>1, <2>1 DEF DriveInv, TypeOK
<1>4. Progress'
  BY <1>1, <1>2, WorkEnds
<1>5. AtWork'
  BY <1>1 DEF AtWork
<1>6. EndsWell'
  <2>1. CASE Account
    <3>1. ASSUME ok'
          PROVE  /\ RetiredNodes = Nodes
                 /\ \A k \in DOMAIN row : row[k] \in {"delivered", "not_sent"}
      <4>1. ok /\ ~Unsettled
        BY <2>1, <3>1 DEF Account
      <4>2. pc = "route" /\ Ahead = {}
        BY <2>1, <4>1 DEF Account, DriveInv, EndsWell
      <4>3. RetiredNodes = committed /\ committed \subseteq Nodes
        BY <4>2 DEF DriveInv, Progress, Stopped, TypeOK
      <4> QED
        BY <4>1, <4>2, <4>3 DEF Ahead, Unsettled, DriveInv, TypeOK
    <3> QED
      BY <1>1, <1>2, <2>1, <3>1 DEF Account, EndsWell
  <2>2. CASE Finish
    BY <1>1, <1>2, <2>2 DEF Finish, DriveInv, EndsWell
  <2>3. CASE Crash
    BY <2>3 DEF Crash, EndsWell
  <2> QED
    BY <2>1, <2>2, <2>3
<1> QED
  BY <1>2, <1>3, <1>4, <1>5, <1>6 DEF DriveInv, Record

\* recover() finds the retired nodes, and the place after the last of them.
LEMMA RecoveryIs ==
  ASSUME DriveInv
  PROVE  \E m \in 0 .. Last : /\ RetiredNodes = 1 .. m
                              /\ RecoveredState = 1 .. m
                              /\ RecoveredCursor = EndOf(m)
<1>1. PICK m \in 0 .. Last : RetiredNodes = 1 .. m
  BY DEF DriveInv, Progress
<1>2. RecoveredState = RetiredNodes
  BY DEF RecoveredState, Counted, RetiredNodes, DriveInv, Retirements
<1>3. RecoveredCursor = EndOf(m)
  <2>1. CASE RetiredOnes = {}
    <3>1. 1 \notin 1 .. m
      BY <1>1, <2>1 DEF RetiredNodes
    <3>2. m = 0
      BY <3>1
    <3> QED
      BY <2>1, <3>2, StartIs DEF RecoveredCursor
  <2>2. CASE RetiredOnes # {}
    <3>1. \A i \in RetiredOnes : branches[i].node \in 1 .. m /\ i \in Nat
      BY <1>1, MineIs DEF RetiredNodes, RetiredOnes, DriveInv
    <3>2. m \in RetiredNodes
      BY <1>1, <2>2, <3>1
    <3>3. PICK i \in RetiredOnes : branches[i].node = m
      BY <3>2 DEF RetiredNodes
    <3>4. \A j \in RetiredOnes : j <= i
      <4>1. ASSUME NEW j \in RetiredOnes, i < j
            PROVE  FALSE
        <5>1. branches[i].node < branches[j].node
          BY <4>1 DEF DriveInv, InOrder, RetiredOnes
        <5> QED
          BY <3>1, <3>3, <5>1
      <4> QED
        BY <3>1, <4>1
    <3>5. Max(RetiredOnes) = i
      <4>1. \A x \in RetiredOnes : (\A j \in RetiredOnes : x >= j) => x = i
        BY <3>1, <3>4
      <4> QED
        BY <3>1, <3>4, <4>1 DEF Max
    <3> QED
      BY <2>2, <3>3, <3>5 DEF RecoveredCursor, DriveInv, Retirements
  <2> QED
    BY <2>1, <2>2
<1> QED
  BY <1>1, <1>2, <1>3

LEMMA ResumeKeeps ==
  ASSUME DriveInv, Resume
  PROVE  DriveInv'
<1>1. /\ pc' = "route" /\ node' = "done" /\ ok' = TRUE
      /\ committed' = RecoveredState /\ cursor' = RecoveredCursor
      /\ resumes' \in 0 .. MaxResumes
      /\ UNCHANGED <<branches, row, verdict, world>>
  BY DEF Resume, disk, DriveInv, TypeOK
<1>2. PICK m \in 0 .. Last : /\ RetiredNodes = 1 .. m
                             /\ RecoveredState = 1 .. m /\ RecoveredCursor = EndOf(m)
  BY RecoveryIs
<1>3. Record' /\ RetiredNodes' = RetiredNodes
  BY <1>1, RecordStays DEF DriveInv, Record
<1>4. TypeOK'
  <2>1. 1 .. m \subseteq Nodes
    BY DEF Nodes
  <2> QED
    BY <1>1, <1>2, <2>1, EndsTyped DEF DriveInv, TypeOK
<1>5. Progress'
  BY <1>1, <1>2, <1>3 DEF Progress, EndOf, Working
<1>6. AtWork' /\ EndsWell'
  BY <1>1 DEF AtWork, EndsWell
<1> QED
  BY <1>3, <1>4, <1>5, <1>6 DEF DriveInv, Record

LEMMA NextKeeps == DriveInv /\ [Next]_vars => DriveInv'
<1> SUFFICES ASSUME DriveInv, [Next]_vars PROVE DriveInv'
  OBVIOUS
<1>1. CASE UNCHANGED vars
  <2>1. /\ UNCHANGED <<branches, row, verdict, world, pc, node, committed, cursor, ok, resumes>>
    BY <1>1 DEF vars
  <2>2. Record' /\ RetiredNodes' = RetiredNodes
    BY <2>1, RecordStays DEF DriveInv, Record
  <2>3. Mine' = Mine /\ Branch' = Branch /\ Key(Branch)' = Key(Branch) /\ \A k : RowOf(k)' = RowOf(k)
    BY <2>1 DEF Mine, Branch, RowOf, Key
  <2>4. TypeOK' /\ Progress'
    BY <2>1, <2>2, <2>3 DEF DriveInv, TypeOK, Progress
  <2>5. AtWork' /\ EndsWell'
    BY <2>1, <2>2, <2>3 DEF DriveInv, AtWork, EndsWell
  <2> QED
    BY <2>2, <2>4, <2>5 DEF DriveInv, Record
<1>2. CASE NodeStep
  BY <1>2, StageKeeps, NodeMovesKeeps, MarksKeeps DEF NodeStep
<1>3. CASE RetireStep
  BY <1>3, MarksKeeps, ClaimsKeeps, LandsKeeps, DrainEndsKeeps, RetireKeeps DEF RetireStep
<1>4. CASE Fork \/ Account \/ Finish \/ Crash \/ Resume
  BY <1>4, ForkKeeps, EndingKeeps, ResumeKeeps
<1>5. CASE \E k \in DOMAIN row : Operator(k)
  BY <1>5, OperatorKeeps
<1> QED
  BY <1>1, <1>2, <1>3, <1>4, <1>5 DEF Next

(***************************************************************************)
(* The theorems.                                                           *)
(***************************************************************************)

\* The inductive invariant holds.
THEOREM Invariance == Spec => []DriveInv
BY Initially, NextKeeps, PTL DEF Spec

\* Everything keeps its type, and a position never passes the end of the run.
THEOREM TypeCorrect == Spec => []TypeOK
<1>1. DriveInv => TypeOK
  BY DEF DriveInv
<1> QED
  BY <1>1, Invariance, PTL

\* However often a run is stopped, every node is forked where the uninterrupted run
\* forks it: at its position, on its first visit, on the state of all before it.
THEOREM InPlace == Spec => []RunsInPlace
<1>1. DriveInv => RunsInPlace
  BY DEF DriveInv
<1> QED
  BY <1>1, Invariance, PTL

\* No write reaches upstream twice, nor before every node ahead of its own has retired.
THEOREM OnceInTurn == Spec => []SentOnceInTurn
<1>1. DriveInv => SentOnceInTurn
  BY DEF DriveInv
<1> QED
  BY <1>1, Invariance, PTL

\* A node retires once, with its state change on disk and its claim closed.
THEOREM WholeRetirements == Spec => []RetirementIsWhole
<1>1. DriveInv => RetirementIsWhole
  <2> SUFFICES ASSUME DriveInv PROVE RetirementIsWhole
    OBVIOUS
  <2>1. ASSUME NEW i \in RetiredOnes, NEW j \in DOMAIN branches, j > i
        PROVE  branches[j].node # branches[i].node
    <3>1. i \in DOMAIN branches /\ i \in Nat /\ j \in Nat
      BY MineIs DEF RetiredOnes, DriveInv
    <3>2. branches[i].node < branches[j].node /\ branches[i] \in Branches
      BY <2>1, <3>1, MineIs DEF DriveInv, InOrder
    <3> QED
      BY <3>2 DEF Branches, Nodes
  <2> QED
    BY <2>1 DEF DriveInv, Retirements, Closed, RetirementIsWhole
<1> QED
  BY <1>1, Invariance, PTL

\* A run that reports success has retired every node and left nothing in doubt, and a
\* resume is not offered: every branch confirmed on the way is superseded.
THEOREM WholeSuccess == Spec => []SuccessIsWhole
<1>1. DriveInv => SuccessIsWhole
  <2> SUFFICES ASSUME DriveInv, pc = "over", verdict = "ok"
               PROVE  /\ RetiredNodes = Nodes
                      /\ \A k \in DOMAIN row : row[k] \in {"delivered", "not_sent"}
                      /\ ~Resumable
    BY DEF SuccessIsWhole, RetiredNodes
  <2>1. /\ RetiredNodes = Nodes
        /\ \A k \in DOMAIN row : row[k] \in {"delivered", "not_sent"}
    BY DEF DriveInv, EndsWell
  <2>2. ASSUME NEW i \in DOMAIN branches
        PROVE  Superseded(i)
    <3>1. branches[i] \in Branches /\ branches[i].node \in Nodes
      BY MineIs DEF DriveInv, Branches
    <3>2. PICK j \in RetiredOnes : branches[j].node = branches[i].node
      BY <2>1, <3>1 DEF RetiredNodes
    <3>3. j \in DOMAIN branches /\ j \in Nat /\ i \in Nat
      BY <3>2, MineIs DEF RetiredOnes, DriveInv
    <3>4. i <= j
      <4>1. ASSUME j < i
            PROVE  FALSE
        <5>1. branches[j].node < branches[i].node
          BY <3>2, <4>1 DEF DriveInv, InOrder
        <5> QED
          BY <3>1, <3>2, <5>1 DEF Nodes
      <4> QED
        BY <3>3, <4>1
    <3>5. branches[i].visit = branches[j].visit
      BY <3>3 DEF DriveInv, RunsInPlace
    <3> QED
      BY <3>2, <3>4, <3>5 DEF Superseded
  <2>3. ~Resumable
    BY <2>2 DEF Resumable, ConfirmedNotRetired
  <2> QED
    BY <2>1, <2>3
<1> QED
  BY <1>1, Invariance, PTL
=============================================================================
