----------------------------- MODULE GroupProofs -----------------------------
(***************************************************************************)
(* A group of any number of lanes, stopped and finished any number of      *)
(* times: its lanes send in declared order, each write once and under the  *)
(* key the undisturbed run gives it, none sends on a decision a sibling    *)
(* has made stale, none silently overwrites what another has committed.    *)
(***************************************************************************)
EXTENDS Group, SequenceTheorems, WellFoundedInduction, NaturalsInduction, TLAPS

(***************************************************************************)
(* The inductive invariant.                                                *)
(***************************************************************************)

\* The position the group ends at: past every lane's.
GroupEnd == Max({Early[l] + Late[l] : l \in Lanes})

\* A retired branch has its state change on disk, and carries the place its lane got
\* to, the last lane's the group's; those of later nodes were forked later.
Retirements ==
  \A i \in RetiredOnes :
    /\ forks[i].delta
    /\ forks[i].node = Follower => forks[i].wrote = {}
    /\ forks[i].node \in Lanes =>
         forks[i].after = IF forks[i].node = Last THEN GroupEnd
                          ELSE Early[forks[i].node] + Late[forks[i].node]
    /\ \A j \in RetiredOnes : forks[i].node < forks[j].node => i < j

\* Nothing is forked before the decision is on disk, and the node after the group
\* only when all lanes have retired.
Forks ==
  /\ ~decided => DOMAIN forks = {}
  /\ \A i \in DOMAIN forks : forks[i].node = Follower => Lanes \subseteq RetiredNodes

\* A write upstream has a claim that does not deny it.
Claimed ==
  \A i \in DOMAIN world : RowOf(world[i]) \in {"in_flight", "delivered", "maybe"}

\* GroupRunsInPlace in two parts: each branch is at its place, and no lane forks
\* again that has retired.
Place(b) ==
  IF b.node = Follower THEN b.base = Lanes /\ b.step = GroupEnd ELSE b.base = {} /\ b.step = 0
AllInPlace == \A i \in DOMAIN forks : Place(forks[i])
NotAgain ==
  \A i \in DOMAIN forks : \A j \in RetiredOnes :
    forks[i].node # Follower /\ forks[j].node = forks[i].node => i <= j

\* What holds of the disk and the world wherever the run is stopped.
History ==
  /\ AllInPlace /\ NotAgain /\ GroupSendsOnce /\ LanesInOrder /\ NoSilentOverwrite
  /\ Retirements /\ Forks /\ Claimed

AtLane == {"lane", "drain", "send", "landed", "acked", "retire"}
Working == AtLane \cup {"failed"}

\* The nodes retired are the first m, and the drive is at the one after them.
Progress ==
  \E m \in 0 .. Follower :
    /\ RetiredNodes = 1 .. m
    /\ pc \notin Stopped => committed = 1 .. m
    /\ pc = "route" => ~decided /\ first = 1
    /\ pc \in {"fork", "bodies"} => first = m + 1 /\ m < Last /\ cur \in first .. Last
    /\ pc = "bodies" => cur = first
    /\ pc \in Working => cur = m + 1 /\ first <= cur /\ cur <= Follower
    /\ pc = "abandon" => m < cur /\ first <= cur /\ (cur <= Follower => m < Last)
    /\ pc = "follow" => m = Last
    /\ pc = "fork" => decided

\* A node forked in this drive: after all branches of the nodes before it.
Forked(n) == \E i \in DOMAIN forks : forks[i].node = n
Newly(n) == Forked(n) /\ \A j \in DOMAIN forks : forks[j].node < n => j < Mine(n)

Forking ==
  /\ pc = "fork" => \A l \in first .. cur - 1 : Newly(l)
  /\ pc \in {"bodies", "abandon"} \cup Working /\ cur \in Lanes =>
       \A l \in first .. Last : Newly(l)
  /\ pc \in Working /\ cur = Follower => Newly(Follower)

\* A lane that has come to its end is at its end, and so are all that have retired.
Placed ==
  /\ pc \in {"route", "fork"} => \A l \in Lanes : body[l] = "idle"
  /\ pc \in {"bodies"} \cup AtLane /\ cur \in Lanes =>
       \A l \in first .. Last :
         /\ body[l] = "parked" => at[l] = Early[l]
         /\ body[l] = "done" => at[l] = Early[l] + Late[l]
  /\ pc \in AtLane /\ cur \in Lanes => \A l \in first .. cur - 1 : body[l] = "done"
  /\ pc = "retire" => body[cur] = "done"
  /\ pc = "follow" => onward = GroupEnd

\* What retired lanes wrote is claimed, and what a lane is about to retire with is
\* claimed by no other.
ClaimedKeys ==
  /\ pc \notin Stopped => \A i \in RetiredOnes :
       forks[i].node \in Lanes => forks[i].wrote \subseteq claimed[forks[i].node]
  /\ pc = "retire" =>
       /\ Branch(cur).delta
       /\ cur = Follower => Branch(cur).wrote = {}
       /\ cur \in Lanes =>
            /\ Branch(cur).wrote = claimed[cur]
            /\ \A k \in Lanes \ {cur} : claimed[cur] \cap claimed[k] \subseteq Reducible

\* A lane that is sending was found neither to clash nor to be stale; as long as
\* nothing has been sent, the check of all lanes together stands.
NotStale(l) == Reads[l] \cap Landed \subseteq seen[l]
Cleared ==
  /\ pc \in {"drain", "send"} /\ cur \in Lanes => ~Clashes(cur) /\ NotStale(cur)
  /\ pc \in {"lane", "drain", "send", "acked", "retire"} /\ cur \in Lanes /\ sent = {} =>
       \A l \in first .. Last : l \notin stale => NotStale(l)

Sending ==
  /\ pc \in {"send", "landed"} => RowOf(Key(cur)) = "in_flight"
  /\ pc = "send" => \A i \in DOMAIN world : world[i] # Key(cur)

\* The node by itself is confirmed when it sends, and has claimed what it fails over.
Halting ==
  /\ pc \in {"drain", "send", "landed"} /\ cur = Follower => Branch(cur).status = "confirmed"
  /\ pc = "failed" /\ cur = Follower /\ body[cur] = "parked" => LeftConfirmed(cur)

\* A drive that stops leaves every branch it forked with an ending, or the last one
\* confirmed over its claim.
Ended(n) == Forked(n) => Branch(n).status \in {"retired", "faulted", "squashed"}
Ending ==
  /\ pc = "abandon" => \A n \in Nodes : n \in first .. cur - 1 => Ended(n)
  /\ pc = "over" => \A n \in first .. Follower : Ended(n) \/ LeftConfirmed(n)

GroupInv ==
  /\ TypeOK
  /\ History
  /\ Progress
  /\ Forking
  /\ Placed
  /\ ClaimedKeys
  /\ Cleared
  /\ Sending
  /\ Halting
  /\ Ending

(***************************************************************************)
(* The largest of a set of positions, or of the branches of a node.        *)
(***************************************************************************)

\* A set of naturals has a least, since < on them is well-founded.
LEMMA LeastExists ==
  ASSUME NEW T \in SUBSET Nat, T # {}
  PROVE  \E x \in T : \A y \in T : x <= y
<1> DEFINE R == {p \in Nat \X Nat : p[1] < p[2]}
<1>1. IsWellFoundedOn(R, Nat)
  BY NatLessThanWellFounded DEF OpToRel
<1>2. PICK x \in T : \A y \in T : ~(<<y, x>> \in R)
  BY <1>1, WFMin
<1>3. ASSUME NEW y \in T, y < x
      PROVE  FALSE
  <2>1. <<y, x>> \in Nat \X Nat /\ <<y, x>>[1] = y /\ <<y, x>>[2] = x
    OBVIOUS
  <2>2. <<y, x>> \in R
    BY <1>3, <2>1
  <2> QED
    BY <1>2, <2>2
<1> QED
  BY <1>3

\* A bounded one has a largest.
LEMMA MaxIs ==
  ASSUME NEW S \in SUBSET Nat, S # {}, NEW b \in Nat, \A x \in S : x <= b
  PROVE  Max(S) \in S /\ \A x \in S : x <= Max(S)
<1> DEFINE T == {b - x : x \in S}
<1>1. T \in SUBSET Nat /\ T # {}
  <2>1. \A x \in S : x \in Nat /\ b - x \in Nat
    OBVIOUS
  <2>2. T \in SUBSET Nat
    BY <2>1
  <2>3. PICK x \in S : TRUE
    OBVIOUS
  <2> QED
    BY <2>2, <2>3
<1>2. PICK y \in T : \A z \in T : y <= z
  <2> HIDE DEF T
  <2> QED BY <1>1, LeastExists
<1>3. PICK x \in S : y = b - x
  BY <1>2
<1>4. \A z \in S : z <= x
  BY <1>2, <1>3
<1> QED
  BY <1>4 DEF Max

\* What 1..N is mapped to is bounded: or there were a least n up to which it is not.
LEMMA Bounded ==
  ASSUME NEW N \in Nat, NEW f, \A l \in 1 .. N : f[l] \in Nat
  PROVE  \E b \in Nat : \A l \in 1 .. N : f[l] <= b
<1> DEFINE Below(n) == \E b \in Nat : \A l \in 1 .. n : f[l] <= b
           T == {n \in 0 .. N : ~Below(n)}
<1> SUFFICES ASSUME ~Below(N) PROVE FALSE
  OBVIOUS
<1>1. T \in SUBSET Nat /\ T # {}
  OBVIOUS
<1>2. PICK n \in T : \A k \in T : n <= k
  <2> HIDE DEF T
  <2> QED
    BY <1>1, LeastExists
<1>3. n \in 0 .. N /\ ~Below(n)
  OBVIOUS
<1>4. n # 0
  <2>1. 1 .. 0 = {} /\ 0 \in Nat
    OBVIOUS
  <2>2. Below(0)
    BY <2>1
  <2> QED
    BY <1>3, <2>2
<1>5. n - 1 \in 0 .. N /\ n - 1 < n
  BY <1>3, <1>4
<1>6. PICK b \in Nat : \A l \in 1 .. n - 1 : f[l] <= b
  <2>1. n - 1 \notin T
    <3> HIDE DEF T
    <3>1. n - 1 \in T => n <= n - 1
      BY <1>2
    <3> QED
      BY <1>3, <1>5, <3>1
  <2> QED
    BY <1>5, <2>1
<1> DEFINE c == IF b <= f[n] THEN f[n] ELSE b
<1>7. f[n] \in Nat /\ c \in Nat /\ b <= c /\ f[n] <= c
  BY <1>3, <1>4
<1>8. ASSUME NEW l \in 1 .. n
      PROVE  f[l] <= c
  <2>1. f[l] \in Nat
    BY <1>3
  <2>2. CASE l = n
    BY <1>7, <2>2
  <2>3. CASE l \in 1 .. n - 1
    <3>1. f[l] <= b
      BY <1>6, <2>3
    <3> QED
      BY <1>7, <2>1, <3>1
  <2> QED
    BY <1>3, <2>2, <2>3
<1> QED
  BY <1>3, <1>7, <1>8

LEMMA MaxOnly ==
  ASSUME NEW S \in SUBSET Nat, NEW x \in S, \A y \in S : y <= x
  PROVE  Max(S) = x
<1>1. \A z \in S : (\A y \in S : z >= y) => z = x
  OBVIOUS
<1> QED
  BY <1>1 DEF Max

USE GroupAssumption DEF Lanes, Follower, Nodes

LEMMA Positions ==
  /\ \A l \in Lanes : Early[l] + Late[l] \in Nat /\ Early[l] + Late[l] > 0
  /\ \E b \in Nat : \A l \in Lanes : Early[l] + Late[l] <= b
<1>1. \A l \in Lanes : Early[l] \in Nat /\ Early[l] > 0 /\ Late[l] \in Nat
  OBVIOUS
<1>2. \A l \in Lanes : Early[l] + Late[l] \in Nat /\ Early[l] + Late[l] > 0
  BY <1>1
<1> DEFINE f == [l \in Lanes |-> Early[l] + Late[l]]
<1>3. \E b \in Nat : \A l \in 1 .. Last : f[l] <= b
  <2>1. Last \in Nat /\ \A l \in 1 .. Last : f[l] \in Nat
    BY <1>2
  <2> HIDE DEF f
  <2> QED
    BY <2>1, Bounded
<1> QED
  BY <1>2, <1>3

LEMMA GroupEndIs == GroupEnd \in Nat
<1> DEFINE S == {Early[l] + Late[l] : l \in Lanes}
<1>1. S \in SUBSET Nat /\ Early[1] + Late[1] \in S
  BY Positions
<1>2. PICK b \in Nat : \A x \in S : x <= b
  BY Positions
<1>3. Max(S) \in S
  <2> HIDE DEF S
  <2> QED
    BY <1>1, <1>2, MaxIs
<1> QED
  BY <1>1, <1>3 DEF GroupEnd

LEMMA ForksAre ==
  ASSUME TypeOK
  PROVE  /\ Len(forks) \in Nat /\ DOMAIN forks = 1 .. Len(forks)
         /\ \A i \in DOMAIN forks : /\ forks[i] \in Branches /\ i \in Nat
                                    /\ forks[i].node \in Nodes
<1>1. forks \in Seq(Branches)
  BY DEF TypeOK, DiskTypes
<1>2. /\ Len(forks) \in Nat /\ DOMAIN forks = 1 .. Len(forks)
      /\ \A i \in DOMAIN forks : forks[i] \in Branches
  BY <1>1, LenProperties
<1> QED
  BY <1>2, SMTT(20) DEF Branches

\* A node's branch is the one it forked last.
LEMMA LastIs ==
  ASSUME NEW f \in Seq(Branches), NEW n, NEW m \in DOMAIN f, f[m].node = n,
         \A j \in DOMAIN f : f[j].node = n => j <= m
  PROVE  Max({i \in DOMAIN f : f[i].node = n}) = m
<1> DEFINE S == {i \in DOMAIN f : f[i].node = n}
<1>1. DOMAIN f = 1 .. Len(f) /\ Len(f) \in Nat
  BY LenProperties
<1>2. S \in SUBSET Nat /\ m \in S /\ \A j \in S : j <= m
  BY <1>1
<1> HIDE DEF S
<1>3. Max(S) = m
  BY <1>2, MaxOnly
<1> QED
  BY <1>3 DEF S

LEMMA ForkedIs ==
  ASSUME TypeOK, NEW n, Forked(n)
  PROVE  /\ n \in Nodes /\ Mine(n) \in DOMAIN forks /\ Mine(n) \in Nat
         /\ Branch(n) = forks[Mine(n)] /\ Branch(n) \in Branches /\ Branch(n).node = n
         /\ \A j \in DOMAIN forks : forks[j].node = n => j <= Mine(n)
<1> DEFINE S == {i \in DOMAIN forks : forks[i].node = n}
<1>1. /\ S \in SUBSET Nat /\ S # {} /\ Len(forks) \in Nat
      /\ \A x \in S : x <= Len(forks)
  BY ForksAre DEF Forked
<1>2. Max(S) \in S /\ \A x \in S : x <= Max(S)
  <2> HIDE DEF S
  <2> QED
    BY <1>1, MaxIs
<1>3. Mine(n) = Max(S)
  BY DEF Mine
<1>4. Mine(n) \in S /\ \A x \in S : x <= Mine(n)
  BY <1>2, <1>3
<1> QED
  BY <1>4, ForksAre DEF Branch

\* A branch changes, and no other.
LEMMA Resolved ==
  ASSUME TypeOK, NEW n, Forked(n), NEW b \in Branches, b.node = n, Resolve(n, b)
  PROVE  /\ forks' \in Seq(Branches) /\ DOMAIN forks' = DOMAIN forks
         /\ \A i \in DOMAIN forks : forks'[i] = IF i = Mine(n) THEN b ELSE forks[i]
         /\ \A i \in DOMAIN forks : forks'[i].node = forks[i].node
         /\ \A k : Mine(k)' = Mine(k) /\ (Forked(k)' <=> Forked(k)) /\ (Newly(k)' <=> Newly(k))
         /\ Branch(n)' = b
         /\ \A k : Forked(k) /\ k # n => Branch(k)' = Branch(k)
<1>1. forks \in Seq(Branches) /\ Mine(n) \in 1 .. Len(forks) /\ DOMAIN forks = 1 .. Len(forks)
  BY ForkedIs, ForksAre DEF TypeOK, DiskTypes
<1>2. /\ forks' \in Seq(Branches) /\ Len(forks') = Len(forks)
      /\ \A i \in 1 .. Len(forks) : forks'[i] = IF i = Mine(n) THEN b ELSE forks[i]
  BY <1>1, ExceptSeq DEF Resolve
<1>3. DOMAIN forks' = DOMAIN forks
  BY <1>1, <1>2, LenProperties
<1>4. \A i \in DOMAIN forks : forks'[i].node = forks[i].node
  BY <1>1, <1>2, ForkedIs
<1>5. ASSUME NEW k
      PROVE  Mine(k)' = Mine(k) /\ (Forked(k)' <=> Forked(k))
  <2>1. {i \in DOMAIN forks : forks[i].node = k} = {i \in DOMAIN forks' : forks'[i].node = k}
    BY <1>3, <1>4
  <2>2. Mine(k)' = Max({i \in DOMAIN forks' : forks'[i].node = k})
    BY DEF Mine
  <2>3. Mine(k)' = Mine(k)
    BY <2>1, <2>2 DEF Mine
  <2> QED
    BY <1>3, <1>4, <2>3 DEF Forked
<1>6. ASSUME NEW k
      PROVE  Newly(k)' <=> Newly(k)
  <2>1. (\A j \in DOMAIN forks' : forks'[j].node < k => j < Mine(k))
          <=> (\A j \in DOMAIN forks : forks[j].node < k => j < Mine(k))
    BY <1>3, <1>4
  <2>2. Mine(k)' = Mine(k) /\ (Forked(k)' <=> Forked(k))
    BY <1>5
  <2> QED
    BY <2>1, <2>2, Zenon DEF Newly
<1>7. Branch(n)' = b
  BY <1>1, <1>2, <1>5 DEF Branch
<1>8. ASSUME NEW k, Forked(k), k # n
      PROVE  Branch(k)' = Branch(k)
  <2>1. Mine(k) \in DOMAIN forks /\ Mine(k) # Mine(n)
    <3>1. Mine(k) \in DOMAIN forks /\ forks[Mine(k)].node = k
      BY <1>8, ForkedIs
    <3>2. forks[Mine(n)].node = n
      BY ForkedIs
    <3> QED
      BY <1>8, <3>1, <3>2
  <2>2. Mine(k)' = Mine(k) /\ forks'[Mine(k)] = forks[Mine(k)]
    BY <1>1, <1>2, <1>5, <2>1
  <2> QED
    BY <2>2 DEF Branch
<1> QED
  BY <1>1, <1>2, <1>3, <1>4, <1>5, <1>6, <1>7, <1>8

LEMMA Before ==
  ASSUME NEW k \in Nat, NEW j \in 1 .. k + 1, j # k + 1
  PROVE  j < k + 1
OBVIOUS

\* A branch is added, its node's last.
LEMMA Added ==
  ASSUME TypeOK, NEW n \in Nodes, NEW b \in Branches, b.node = n, forks' = Append(forks, b),
         b.status # "retired"
  PROVE  /\ forks' \in Seq(Branches) /\ DOMAIN forks' = DOMAIN forks \cup {Len(forks) + 1}
         /\ forks'[Len(forks) + 1] = b
         /\ \A i \in DOMAIN forks : forks'[i] = forks[i] /\ i # Len(forks) + 1
         /\ RetiredOnes' = RetiredOnes /\ RetiredNodes' = RetiredNodes
         /\ Newly(n)' /\ \A k \in Nodes : k < n /\ Newly(k) => Newly(k)'
<1>1. /\ forks \in Seq(Branches) /\ Len(forks) \in Nat /\ DOMAIN forks = 1 .. Len(forks)
      /\ \A i \in DOMAIN forks : forks[i].node \in Nodes
  BY ForksAre DEF TypeOK, DiskTypes
<1>2. /\ forks' \in Seq(Branches) /\ Len(forks') = Len(forks) + 1
      /\ \A i \in 1 .. Len(forks) : forks'[i] = forks[i]
      /\ forks'[Len(forks) + 1] = b
  BY <1>1, AppendProperties
<1>3. DOMAIN forks' = 1 .. Len(forks) + 1
  BY <1>2, LenProperties
<1>4. DOMAIN forks' = DOMAIN forks \cup {Len(forks) + 1} /\ Len(forks) + 1 \notin DOMAIN forks
  BY <1>1, <1>3
<1>5. RetiredOnes' = RetiredOnes /\ RetiredNodes' = RetiredNodes
  <2>1. RetiredOnes' = {i \in DOMAIN forks' : forks'[i].status = "retired"}
    BY DEF RetiredOnes
  <2>2. RetiredOnes' = RetiredOnes
    BY <1>1, <1>2, <1>4, <2>1 DEF RetiredOnes
  <2>3. \A i \in RetiredOnes : forks'[i] = forks[i]
    BY <1>1, <1>2 DEF RetiredOnes
  <2> QED
    BY <2>2, <2>3 DEF RetiredNodes
<1>6. Newly(n)'
  <2>1. Max({i \in DOMAIN forks' : forks'[i].node = n}) = Len(forks) + 1
    <3>1. Len(forks) + 1 \in DOMAIN forks' /\ forks'[Len(forks) + 1].node = n
      BY <1>2, <1>4
    <3>2. \A j \in DOMAIN forks' : j <= Len(forks) + 1
      BY <1>1, <1>3
    <3> QED
      BY <1>2, <3>1, <3>2, LastIs
  <2>2. Mine(n)' = Len(forks) + 1
    BY <2>1 DEF Mine
  <2>3. ASSUME NEW j \in DOMAIN forks', forks'[j].node < n
        PROVE  j < Len(forks) + 1
    <3>1. j # Len(forks) + 1
      <4>1. n \in Int /\ ~(n < n) /\ forks'[Len(forks) + 1].node = n
        BY <1>2
      <4> QED
        BY <2>3, <4>1
    <3>2. j \in 1 .. Len(forks) + 1
      BY <1>3
    <3>3. Len(forks) \in Nat
      BY <1>1
    <3> QED
      BY <3>1, <3>2, <3>3, Before
  <2>4. Forked(n)'
    BY <1>2, <1>4 DEF Forked
  <2> QED
    BY <2>2, <2>3, <2>4 DEF Newly
<1>7. ASSUME NEW k \in Nodes, k < n, Newly(k)
      PROVE  Newly(k)'
  <2>1. Forked(k) /\ Forked(k)'
    BY <1>1, <1>2, <1>4, <1>7 DEF Newly, Forked
  <2>2. {i \in DOMAIN forks' : forks'[i].node = k} = {i \in DOMAIN forks : forks[i].node = k}
    <3>1. forks'[Len(forks) + 1].node # k
      BY <1>2, <1>7
    <3>2. \A i \in DOMAIN forks : forks'[i] = forks[i]
      BY <1>1, <1>2
    <3> QED
      BY <1>4, <3>1, <3>2
  <2>3. Mine(k)' = Mine(k)
    BY <2>2 DEF Mine
  <2>4. ASSUME NEW j \in DOMAIN forks', forks'[j].node < k
        PROVE  j < Mine(k)
    <3>1. j # Len(forks) + 1
      <4>1. ~(n < k) /\ forks'[Len(forks) + 1].node = n
        BY <1>2, <1>7
      <4> QED
        BY <2>4, <4>1
    <3> QED
      BY <1>1, <1>2, <1>4, <1>7, <2>4, <3>1 DEF Newly
  <2> QED
    BY <2>1, <2>3, <2>4 DEF Newly
<1> QED
  BY <1>1, <1>2, <1>4, <1>5, <1>6, <1>7

LEMMA RowSet ==
  ASSUME TypeOK, Key(cur) \in Keys, NEW status \in Claims, SetRow(status)
  PROVE  /\ DOMAIN row' \subseteq Keys /\ \A x \in DOMAIN row' : row'[x] \in Claims
         /\ \A x : RowOf(x)' = IF x = Key(cur) THEN status ELSE RowOf(x)
BY DEF TypeOK, DiskTypes, SetRow, RowOf

(***************************************************************************)
(* What is on disk and upstream, as the steps leave it.                    *)
(***************************************************************************)

LEMMA SameForks ==
  ASSUME UNCHANGED forks
  PROVE  /\ RetiredOnes' = RetiredOnes /\ RetiredNodes' = RetiredNodes
         /\ \A n : /\ Mine(n)' = Mine(n) /\ Branch(n)' = Branch(n)
                   /\ (Forked(n)' <=> Forked(n)) /\ (Newly(n)' <=> Newly(n))
BY DEF RetiredOnes, RetiredNodes, Mine, Branch, Forked, Newly

LEMMA HistoryStays ==
  ASSUME History, UNCHANGED <<forks, row, world>>, decided' = decided \/ decided'
  PROVE  History'
<1>1. RetiredOnes' = RetiredOnes /\ RetiredNodes' = RetiredNodes
  BY SameForks
<1>2. \A k : RowOf(k)' = RowOf(k)
  BY DEF RowOf
<1>3. AllInPlace' /\ NotAgain' /\ GroupSendsOnce' /\ LanesInOrder' /\ NoSilentOverwrite'
  BY <1>1 DEF History, AllInPlace, Place, GroupEnd, NotAgain, GroupSendsOnce, LanesInOrder, NoSilentOverwrite
<1>4. Retirements' /\ Forks' /\ Claimed'
  BY <1>1, <1>2 DEF History, Retirements, Forks, Claimed, GroupEnd
<1> QED
  BY <1>3, <1>4 DEF History

\* A branch that has not retired is marked.
LEMMA HistoryMarked ==
  ASSUME TypeOK, History, NEW n, Forked(n), Branch(n).status # "retired",
         NEW b \in Branches, Resolve(n, b), b.status # "retired",
         b.node = n, b.step = Branch(n).step, b.base = Branch(n).base,
         UNCHANGED <<decided, row, world>>
  PROVE  /\ History' /\ RetiredOnes' = RetiredOnes /\ RetiredNodes' = RetiredNodes
         /\ \A i \in RetiredOnes : forks'[i] = forks[i]
<1>1. /\ DOMAIN forks' = DOMAIN forks
      /\ \A i \in DOMAIN forks : forks'[i] = IF i = Mine(n) THEN b ELSE forks[i]
      /\ Mine(n) \in DOMAIN forks /\ Branch(n) = forks[Mine(n)] /\ Branch(n).node = n
  BY Resolved, ForkedIs
<1>2. /\ RetiredOnes' = RetiredOnes
      /\ \A i \in RetiredOnes : forks'[i] = forks[i]
      /\ RetiredOnes \subseteq DOMAIN forks
  BY <1>1 DEF RetiredOnes
<1>3. RetiredNodes' = RetiredNodes
  BY <1>2 DEF RetiredNodes
<1>4. \A i \in DOMAIN forks :
        /\ forks'[i].node = forks[i].node /\ forks'[i].step = forks[i].step
        /\ forks'[i].base = forks[i].base
  BY <1>1
<1>5. AllInPlace' /\ NotAgain'
  <2>1. \A i \in DOMAIN forks : Place(forks[i])' <=> Place(forks[i])
    BY <1>4 DEF Place, GroupEnd
  <2>2. AllInPlace'
    BY <1>1, <2>1 DEF History, AllInPlace
  <2>3. NotAgain'
    BY <1>1, <1>2, <1>4 DEF History, NotAgain
  <2> QED
    BY <2>2, <2>3
<1>6. GroupSendsOnce' /\ LanesInOrder' /\ NoSilentOverwrite'
  <2>1. GroupSendsOnce' /\ LanesInOrder'
    BY <1>3 DEF History, GroupSendsOnce, LanesInOrder
  <2>2. NoSilentOverwrite'
    BY <1>2 DEF History, NoSilentOverwrite
  <2> QED
    BY <2>1, <2>2
<1>7. Retirements'
  <2>1. GroupEnd' = GroupEnd
    BY DEF GroupEnd
  <2>2. ASSUME NEW i \in RetiredOnes
        PROVE  /\ forks'[i].delta
               /\ forks'[i].node = Follower => forks'[i].wrote = {}
               /\ forks'[i].node \in Lanes =>
                    forks'[i].after = IF forks'[i].node = Last THEN GroupEnd
                                      ELSE Early[forks'[i].node] + Late[forks'[i].node]
    <3>1. forks'[i] = forks[i]
      BY <1>2
    <3> QED
      BY <3>1 DEF History, Retirements
  <2>3. ASSUME NEW i \in RetiredOnes, NEW j \in RetiredOnes, forks'[i].node < forks'[j].node
        PROVE  i < j
    <3>1. forks'[i] = forks[i] /\ forks'[j] = forks[j]
      BY <1>2
    <3> QED
      BY <2>3, <3>1 DEF History, Retirements
  <2> QED
    BY <1>2, <2>1, <2>2, <2>3, Zenon DEF Retirements
<1>8. Forks' /\ Claimed'
  BY <1>1, <1>3, <1>4 DEF History, Forks, Claimed, RowOf
<1> QED
  BY <1>2, <1>3, <1>5, <1>6, <1>7, <1>8 DEF History

\* A claim changes.
LEMMA HistoryClaims ==
  ASSUME History, NEW k, NEW status \in Claims,
         \A x : RowOf(x)' = IF x = k THEN status ELSE RowOf(x),
         status = "not_sent" => \A i \in DOMAIN world : world[i] # k,
         UNCHANGED <<decided, forks, world>>
  PROVE  History'
<1>1. RetiredOnes' = RetiredOnes /\ RetiredNodes' = RetiredNodes
  BY SameForks
<1>2. AllInPlace' /\ NotAgain' /\ GroupSendsOnce' /\ LanesInOrder' /\ NoSilentOverwrite'
  BY <1>1 DEF History, AllInPlace, Place, GroupEnd, NotAgain, GroupSendsOnce, LanesInOrder, NoSilentOverwrite
<1>3. Retirements' /\ Forks'
  BY <1>1 DEF History, Retirements, Forks, GroupEnd
<1>4. Claimed'
  BY DEF History, Claimed, Claims
<1> QED
  BY <1>2, <1>3, <1>4 DEF History

\* The drive is at the first node that has not retired.
LEMMA AtWork ==
  ASSUME GroupInv, pc \in Working
  PROVE  /\ cur \in Nodes /\ cur \notin RetiredNodes /\ Forked(cur)
         /\ Mine(cur) \in DOMAIN forks /\ Branch(cur) = forks[Mine(cur)]
         /\ Branch(cur) \in Branches /\ Branch(cur).node = cur
         /\ Branch(cur).status # "retired"
         /\ Key(cur) \in Keys /\ Key(cur).node = cur
<1>1. PICK m \in 0 .. Follower : RetiredNodes = 1 .. m /\ cur = m + 1 /\ cur <= Follower
                                   /\ first <= cur
  BY DEF GroupInv, Progress
<1>2. cur \in Nodes /\ cur \notin RetiredNodes /\ first \in Lanes
  BY <1>1 DEF GroupInv, TypeOK, DriveTypes
<1>3. Forked(cur)
  <2>1. CASE cur = Follower
    BY <2>1 DEF GroupInv, Forking, Newly
  <2>2. CASE cur # Follower
    <3>1. cur \in Lanes /\ cur \in first .. Last
      BY <1>1, <1>2, <2>2
    <3> QED
      BY <3>1 DEF GroupInv, Forking, Newly
  <2> QED
    BY <2>1, <2>2
<1>4. /\ Mine(cur) \in DOMAIN forks /\ Branch(cur) = forks[Mine(cur)]
      /\ Branch(cur) \in Branches /\ Branch(cur).node = cur
  BY <1>3, ForkedIs DEF GroupInv
<1>5. Branch(cur).status # "retired"
  BY <1>2, <1>4 DEF RetiredNodes, RetiredOnes
<1>6. Key(cur) \in Keys /\ Key(cur).node = cur
  <2>1. Branch(cur).step \in Nat /\ Early[cur] \in Nat
    BY <1>2, <1>4 DEF Branches
  <2>2. Branch(cur).step + Early[cur] \in Nat
    BY <2>1
  <2> QED
    BY <1>2, <2>2 DEF Key, Keys
<1> QED
  BY <1>2, <1>3, <1>4, <1>5, <1>6

\* A lane that has retired did so with the branch it forked last.
LEMMA RetiredIs ==
  ASSUME TypeOK, History, NEW n \in Lanes, n \in RetiredNodes
  PROVE  Forked(n) /\ Mine(n) \in RetiredOnes /\ Branch(n).status = "retired"
<1>1. PICK i \in RetiredOnes : forks[i].node = n
  BY DEF RetiredNodes
<1>2. i \in DOMAIN forks /\ Forked(n)
  BY <1>1 DEF RetiredOnes, Forked
<1>3. /\ Mine(n) \in DOMAIN forks /\ Mine(n) \in Nat /\ Branch(n) = forks[Mine(n)]
      /\ Branch(n).node = n /\ i <= Mine(n) /\ i \in Nat
  BY <1>1, <1>2, ForkedIs, ForksAre
<1>4. Mine(n) <= i
  BY <1>1, <1>2, <1>3, SMTT(20) DEF History, NotAgain
<1>5. Mine(n) = i
  BY <1>3, <1>4
<1> QED
  BY <1>1, <1>2, <1>3, <1>5 DEF RetiredOnes

\* The drive goes on with the lane it is at.
LEMMA WorkGoesOn ==
  ASSUME GroupInv, pc \in Working, pc' \in Working, RetiredNodes' = RetiredNodes,
         UNCHANGED <<committed, cur, first>>,
         \A n : Newly(n)' <=> Newly(n)
  PROVE  Progress' /\ Forking' /\ Ending'
<1>1. pc \notin Stopped /\ pc' \notin Stopped \cup {"route", "fork", "bodies", "abandon", "follow"}
  BY DEF Working, AtLane, Stopped
<1>2. PICK m \in 0 .. Follower :
        /\ RetiredNodes = 1 .. m /\ committed = 1 .. m
        /\ cur = m + 1 /\ first <= cur /\ cur <= Follower
  BY <1>1 DEF GroupInv, Progress
<1>3. Progress'
  BY <1>1, <1>2 DEF Progress
<1>4. Forking'
  BY <1>1 DEF GroupInv, Forking
<1>5. Ending'
  BY <1>1 DEF Ending, Stopped
<1> QED
  BY <1>3, <1>4, <1>5

LEMMA Initially == Init => GroupInv
<1> SUFFICES ASSUME Init PROVE GroupInv
  OBVIOUS
<1>1. /\ forks \in Seq(Branches) /\ world \in Seq(Keys)
      /\ DOMAIN forks = {} /\ DOMAIN row = {} /\ DOMAIN world = {}
      /\ pc = "route" /\ cur = 1 /\ first = 1 /\ ~decided /\ decided \in BOOLEAN
      /\ committed = {} /\ onward = 0 /\ resumes = 0 /\ stale = {} /\ sent = {}
  <2>1. /\ forks = <<>> /\ world = <<>> /\ row = <<>> /\ decided = FALSE
        /\ pc = "route" /\ cur = 1 /\ first = 1
        /\ committed = {} /\ onward = 0 /\ resumes = 0 /\ stale = {} /\ sent = {}
    BY DEF Init, Fresh
  <2>2. forks \in Seq(Branches) /\ world \in Seq(Keys)
    BY <2>1
  <2>3. DOMAIN forks = {} /\ DOMAIN row = {} /\ DOMAIN world = {}
    BY <2>1
  <2> QED
    BY <2>1, <2>2, <2>3
<1>2. RetiredOnes = {} /\ RetiredNodes = {}
  BY <1>1 DEF RetiredOnes, RetiredNodes
<1>3. TypeOK
  <2>1. /\ 1 \in Lanes /\ 1 \in 1 .. Follower + 1 /\ 0 \in 0 .. MaxResumes
    OBVIOUS
  <2>2. /\ body \in [Nodes -> {"idle", "parked", "done", "raised", "stopped"}]
        /\ at \in [Nodes -> Nat]
        /\ touched \in [Lanes -> SUBSET StateKeys] /\ claimed \in [Lanes -> SUBSET StateKeys]
        /\ seen \in [Lanes -> SUBSET Nodes]
    BY DEF Init, Fresh
  <2> QED
    BY <1>1, <2>1, <2>2 DEF TypeOK, DiskTypes, LaneTypes, DriveTypes
<1>4. History
  BY <1>1, <1>2 DEF History, AllInPlace, NotAgain, GroupSendsOnce, LanesInOrder,
     NoSilentOverwrite, Retirements, Forks, Claimed
<1>5. Progress
  <2>1. 0 \in 0 .. Follower /\ 1 .. 0 = {}
    OBVIOUS
  <2> QED
    BY <1>1, <1>2, <2>1 DEF Progress, Working, AtLane
<1>6. Forking /\ Placed /\ ClaimedKeys /\ Cleared /\ Sending /\ Halting /\ Ending
  <2>1. \A l \in Lanes : body[l] = "idle"
    BY DEF Init, Fresh
  <2> QED
    BY <1>1, <1>2, <2>1 DEF Forking, Placed, ClaimedKeys, Cleared, Sending, Halting, Ending, Working, AtLane
<1> QED
  BY <1>3, <1>4, <1>5, <1>6 DEF GroupInv

(***************************************************************************)
(* The lanes run to rest.                                                  *)
(***************************************************************************)

LEMMA DecideKeeps ==
  ASSUME GroupInv, Decide
  PROVE  GroupInv'
<1>1. /\ pc = "route" /\ decided' = TRUE /\ pc' = "fork" /\ cur' = 1
      /\ UNCHANGED <<forks, row, world, body, at, touched, seen, first, stale, sent, claimed,
                     committed, onward, resumes>>
  BY DEF Decide, lanes, drive
<1>2. RetiredOnes' = RetiredOnes /\ RetiredNodes' = RetiredNodes
  BY <1>1, SameForks
<1>3. PICK m \in 0 .. Follower :
        RetiredNodes = 1 .. m /\ committed = 1 .. m /\ ~decided /\ first = 1
  BY <1>1 DEF GroupInv, Progress, Stopped
<1>4. m = 0
  <2>1. RetiredNodes = {}
    BY <1>3 DEF GroupInv, History, Forks, RetiredNodes, RetiredOnes
  <2>2. 1 \notin 1 .. m
    BY <1>3, <2>1
  <2> QED
    BY <2>2
<1>5. TypeOK'
  <2>1. DiskTypes'
    BY <1>1 DEF GroupInv, TypeOK, DiskTypes
  <2>2. LaneTypes'
    BY <1>1 DEF GroupInv, TypeOK, LaneTypes
  <2>3. DriveTypes'
    BY <1>1 DEF GroupInv, TypeOK, DriveTypes
  <2> QED
    BY <2>1, <2>2, <2>3 DEF TypeOK
<1>6. History'
  BY <1>1, HistoryStays DEF GroupInv
<1>7. Progress'
  BY <1>1, <1>2, <1>3, <1>4 DEF Progress, Working, AtLane
<1>8. Forking' /\ Placed' /\ Cleared' /\ Sending' /\ Halting' /\ Ending'
  BY <1>1, <1>3 DEF GroupInv, Forking, Placed, Cleared, Sending, Halting, Ending, Working, AtLane
<1>9. ClaimedKeys'
  BY <1>1, <1>2 DEF GroupInv, ClaimedKeys, Stopped
<1> QED
  BY <1>5, <1>6, <1>7, <1>8, <1>9 DEF GroupInv

LEMMA BodyKeeps ==
  ASSUME GroupInv, NEW l \in first .. Last, Rests(l) \/ Raises(l)
  PROVE  GroupInv'
<1>1. /\ pc = "bodies" /\ l \in Lanes
      /\ UNCHANGED <<decided, forks, row, world, pc, cur, first, stale, sent, claimed,
                     committed, onward, resumes>>
  BY DEF Rests, Raises, disk, drive, GroupInv, TypeOK, DriveTypes
<1>2. /\ RetiredOnes' = RetiredOnes /\ RetiredNodes' = RetiredNodes
      /\ \A n : Newly(n)' <=> Newly(n)
  BY <1>1, SameForks
<1>3. TypeOK'
  <2>1. Early[l] \in Nat /\ Early[l] + Late[l] \in Nat
    BY <1>1, Positions
  <2>2. body' \in [Nodes -> {"idle", "parked", "done", "raised", "stopped"}]
    BY <1>1 DEF Rests, Raises, GroupInv, TypeOK, LaneTypes
  <2>3. at' \in [Nodes -> Nat]
    <3>1. PICK p \in Nat : at' = at \/ at' = [at EXCEPT ![l] = p]
      <4>1. Early[l] + (IF l \in Writers THEN 0 ELSE Late[l]) \in Nat
        BY <2>1
      <4> QED
        BY <4>1 DEF Rests, Raises
    <3> QED
      BY <3>1 DEF GroupInv, TypeOK, LaneTypes
  <2>4. touched' \in [Lanes -> SUBSET StateKeys]
    <3>1. PICK keys \in SUBSET Touches[l] :
            touched' = touched \/ touched' = [touched EXCEPT ![l] = keys]
      BY DEF Rests, Raises
    <3>2. keys \in SUBSET StateKeys
      BY <1>1 DEF StateKeys
    <3> QED
      BY <3>1, <3>2 DEF GroupInv, TypeOK, LaneTypes
  <2>5. seen' \in [Lanes -> SUBSET Nodes]
    <3>1. Landed \subseteq Nodes
      <4>1. \A i \in DOMAIN world : world[i] \in Keys
        BY LenProperties DEF GroupInv, TypeOK, DiskTypes
      <4> QED
        BY <4>1 DEF Landed, Keys
    <3>2. Reads[l] \subseteq Nodes
      BY <1>1
    <3>3. \E reads \in SUBSET Nodes : seen' = seen \/ seen' = [seen EXCEPT ![l] = reads]
      BY <3>1, <3>2 DEF Rests, Raises
    <3> QED
      BY <3>3 DEF GroupInv, TypeOK, LaneTypes
  <2> QED
    BY <1>1, <2>2, <2>3, <2>4, <2>5 DEF GroupInv, TypeOK, DiskTypes, LaneTypes, DriveTypes
<1>4. History'
  BY <1>1, HistoryStays DEF GroupInv
<1>5. Progress'
  BY <1>1, <1>2 DEF GroupInv, Progress
<1>6. Forking'
  BY <1>1, <1>2 DEF GroupInv, Forking
<1>7. Placed'
  <2>1. ASSUME NEW k \in first .. Last, cur \in Lanes
        PROVE  /\ body'[k] = "parked" => at'[k] = Early[k]
               /\ body'[k] = "done" => at'[k] = Early[k] + Late[k]
    <3>1. k \in Nodes /\ l \in Nodes /\ first \in Lanes
      BY DEF GroupInv, TypeOK, DriveTypes
    <3>2. CASE k # l
      BY <1>1, <2>1, <3>1, <3>2 DEF Rests, Raises, GroupInv, Placed, TypeOK, LaneTypes
    <3>3. CASE k = l /\ Rests(l)
      <4>1. /\ body'[k] = IF k \in Writers THEN "parked" ELSE "done"
            /\ at'[k] = Early[k] + (IF k \in Writers THEN 0 ELSE Late[k])
        BY <3>1, <3>3 DEF Rests, GroupInv, TypeOK, LaneTypes
      <4>2. Early[k] \in Nat /\ Late[k] \in Nat
        BY <3>1
      <4> QED
        BY <4>1, <4>2
    <3>4. CASE k = l /\ Raises(l)
      BY <3>1, <3>4 DEF Raises, GroupInv, TypeOK, LaneTypes
    <3> QED
      BY <3>2, <3>3, <3>4
  <2> QED
    BY <1>1, <2>1 DEF Placed, AtLane
<1>8. ClaimedKeys'
  BY <1>1, <1>2 DEF GroupInv, ClaimedKeys
<1>9. Cleared' /\ Sending' /\ Halting' /\ Ending'
  BY <1>1 DEF Cleared, Sending, Halting, Ending
<1> QED
  BY <1>3, <1>4, <1>5, <1>6, <1>7, <1>8, <1>9 DEF GroupInv

\* All are at rest and pass: what is not stale has been seen.
LEMMA CheckTogetherKeeps ==
  ASSUME GroupInv, CheckTogether
  PROVE  GroupInv'
<1>1. /\ pc = "bodies" /\ pc' = "lane" /\ cur' = first
      /\ stale' = {l \in first .. Last : StaleNow(l)}
      /\ UNCHANGED <<decided, forks, row, world, body, at, touched, seen, first, sent, claimed,
                     committed, onward, resumes>>
  BY DEF CheckTogether, AtRest, disk, lanes
<1>2. /\ RetiredOnes' = RetiredOnes /\ RetiredNodes' = RetiredNodes
      /\ \A n : Newly(n)' <=> Newly(n)
  BY <1>1, SameForks
<1>3. PICK m \in 0 .. Follower :
        /\ RetiredNodes = 1 .. m /\ committed = 1 .. m
        /\ first = m + 1 /\ m < Last /\ cur = first
  BY <1>1 DEF GroupInv, Progress, Stopped
<1>4. cur' = cur /\ cur \in Lanes /\ first \in Lanes
  BY <1>1, <1>3 DEF GroupInv, TypeOK, DriveTypes
<1>5. TypeOK'
  <2>1. DiskTypes'
    BY <1>1, <1>4 DEF GroupInv, TypeOK, DiskTypes
  <2>2. LaneTypes'
    BY <1>1, <1>4 DEF GroupInv, TypeOK, LaneTypes
  <2>3. DriveTypes'
    BY <1>1, <1>4 DEF GroupInv, TypeOK, DriveTypes
  <2> QED
    BY <2>1, <2>2, <2>3 DEF TypeOK
<1>6. History'
  BY <1>1, HistoryStays DEF GroupInv
<1>7. Progress'
  BY <1>1, <1>2, <1>3 DEF Progress, Working, AtLane
<1>8. Forking'
  BY <1>1, <1>2, <1>4 DEF GroupInv, Forking, Working, AtLane
<1>9. Placed'
  BY <1>1, <1>3, <1>4 DEF GroupInv, Placed, AtLane
<1>10. ClaimedKeys'
  BY <1>1, <1>2 DEF GroupInv, ClaimedKeys, Stopped
<1>11. Cleared'
  BY <1>1 DEF Cleared, NotStale, StaleNow, Landed
<1>12. Sending' /\ Halting' /\ Ending'
  BY <1>1 DEF Sending, Halting, Ending
<1> QED
  BY <1>5, <1>6, <1>7, <1>8, <1>9, <1>10, <1>11, <1>12 DEF GroupInv

\* The lanes from the one that is next to retire give up.
LEMMA GiveUpKeeps ==
  ASSUME GroupInv, GiveUpTogether \/ LaneClashes
  PROVE  GroupInv'
<1>1. PICK m \in 0 .. Follower :
        /\ RetiredNodes = 1 .. m /\ committed = 1 .. m
        /\ cur = m + 1 /\ cur \in Lanes /\ first <= cur /\ pc \in {"bodies", "lane"}
  <2>1. CASE pc = "bodies"
    BY <2>1 DEF GroupInv, Progress, TypeOK, DriveTypes, Stopped
  <2>2. CASE pc = "lane" /\ cur \in Lanes
    BY <2>2 DEF GroupInv, Progress, Working, AtLane, Stopped
  <2> QED
    BY <2>1, <2>2 DEF GiveUpTogether, LaneClashes, AtRest
<1>2. /\ AbandonFrom(cur)
      /\ UNCHANGED <<decided, forks, row, world, at, touched, seen, first, stale, sent, claimed,
                     committed, onward, resumes>>
  <2>1. pc = "bodies" => cur = first
    BY DEF GroupInv, Progress
  <2> QED
    BY <2>1 DEF GiveUpTogether, AtRest, LaneClashes, disk, drive
<1>3. /\ pc' = "abandon" /\ cur' = cur
      /\ body' \in [Nodes -> {"idle", "parked", "done", "raised", "stopped"}]
  BY <1>2 DEF AbandonFrom, GroupInv, TypeOK, LaneTypes, DriveTypes
<1>4. /\ RetiredOnes' = RetiredOnes /\ RetiredNodes' = RetiredNodes
      /\ \A n : Newly(n)' <=> Newly(n)
      /\ \A n : Branch(n)' = Branch(n) /\ (Forked(n)' <=> Forked(n))
  BY <1>2, SameForks
<1>5. TypeOK'
  <2>1. DiskTypes'
    BY <1>2, <1>3 DEF GroupInv, TypeOK, DiskTypes
  <2>2. LaneTypes'
    BY <1>2, <1>3 DEF GroupInv, TypeOK, LaneTypes
  <2>3. DriveTypes'
    BY <1>2, <1>3 DEF GroupInv, TypeOK, DriveTypes
  <2> QED
    BY <2>1, <2>2, <2>3 DEF TypeOK
<1>6. History'
  BY <1>2, HistoryStays DEF GroupInv
<1>7. Progress'
  <2>1. m < cur' /\ first' <= cur' /\ m < Last
    BY <1>1, <1>2, <1>3
  <2> QED
    BY <1>1, <1>2, <1>3, <1>4, <2>1 DEF Progress, Working, AtLane
<1>8. Forking'
  BY <1>1, <1>2, <1>3, <1>4 DEF GroupInv, Forking, Working, AtLane
<1>9. ClaimedKeys'
  BY <1>1, <1>2, <1>3, <1>4 DEF GroupInv, ClaimedKeys, Stopped
<1>10. Placed' /\ Cleared' /\ Sending' /\ Halting'
  BY <1>3 DEF Placed, Cleared, Sending, Halting, AtLane
<1>11. Ending'
  <2>1. ASSUME NEW n \in Nodes, n \in first .. cur - 1
        PROVE  Ended(n)'
    <3>1. n \in Lanes /\ n \in RetiredNodes
      BY <1>1, <2>1
    <3>2. Branch(n).status = "retired"
      BY <3>1, RetiredIs DEF GroupInv
    <3> QED
      BY <1>4, <3>2 DEF Ended
  <2> QED
    BY <1>2, <1>3, <2>1 DEF Ending
<1> QED
  BY <1>5, <1>6, <1>7, <1>8, <1>9, <1>10, <1>11 DEF GroupInv

(***************************************************************************)
(* A branch is marked.                                                     *)
(***************************************************************************)

\* A branch ends without retiring, and the drive goes on to abandon the next lane.
LEMMA GivesUp ==
  ASSUME GroupInv, pc \in {"abandon"} \cup Working,
         NEW n \in Nodes, n = cur, Forked(n), n \notin RetiredNodes,
         NEW b \in Branches, b.node = n, b.step = Branch(n).step, b.base = Branch(n).base,
         b.status \in {"faulted", "squashed"}, Resolve(n, b),
         NEW m \in 0 .. Follower, RetiredNodes = 1 .. m, committed = 1 .. m,
         first <= n, n <= Last => m < Last,
         \A k \in Nodes : k \in first .. n - 1 => Ended(k),
         pc' = "abandon", cur' = n + 1,
         body' \in [Nodes -> {"idle", "parked", "done", "raised", "stopped"}],
         UNCHANGED <<decided, row, world, at, touched, seen, first, stale, sent, claimed,
                     committed, onward, resumes>>
  PROVE  GroupInv'
<1>1. Branch(n) \in Branches /\ Branch(n).node = n /\ Branch(n).status # "retired"
  BY ForkedIs DEF GroupInv, RetiredNodes, RetiredOnes
<1>2. /\ History' /\ RetiredOnes' = RetiredOnes /\ RetiredNodes' = RetiredNodes
      /\ \A i \in RetiredOnes : forks'[i] = forks[i]
  BY <1>1, HistoryMarked DEF GroupInv
<1>3. /\ forks' \in Seq(Branches) /\ Branch(n)' = b
      /\ \A k : (Forked(k)' <=> Forked(k)) /\ (Newly(k)' <=> Newly(k))
      /\ \A k : Forked(k) /\ k # n => Branch(k)' = Branch(k)
  BY Resolved DEF GroupInv
<1>4. first \in Lanes /\ n + 1 \in 1 .. Follower + 1 /\ pc \notin Stopped
  BY DEF GroupInv, TypeOK, DriveTypes, Stopped, Working, AtLane
<1>5. TypeOK'
  <2>1. DiskTypes'
    BY <1>3 DEF GroupInv, TypeOK, DiskTypes
  <2>2. LaneTypes'
    BY DEF GroupInv, TypeOK, LaneTypes
  <2>3. DriveTypes'
    BY <1>4 DEF GroupInv, TypeOK, DriveTypes
  <2> QED
    BY <2>1, <2>2, <2>3 DEF TypeOK
<1>6. Progress'
  <2>1. m < n + 1
    <3>1. CASE n <= Last
      <4>1. n \notin 1 .. m
        OBVIOUS
      <4> QED
        BY <4>1
    <3>2. CASE n = Follower
      <4>1. n \notin 1 .. m
        OBVIOUS
      <4> QED
        BY <3>2, <4>1
    <3> QED
      BY <3>1, <3>2
  <2>2. RetiredNodes' = 1 .. m /\ committed' = 1 .. m /\ first' <= cur'
        /\ (cur' <= Follower => m < Last) /\ m < cur'
    BY <1>2, <1>4, <2>1, SMTT(20)
  <2> QED
    BY <2>2 DEF Progress, Working, AtLane
<1>7. Forking'
  <2>1. cur' \in Lanes => cur \in Lanes
    BY <1>4
  <2> QED
    BY <1>3, <2>1 DEF GroupInv, Forking, Working, AtLane
<1>8. ClaimedKeys'
  BY <1>2, <1>4 DEF GroupInv, ClaimedKeys
<1>9. Placed' /\ Cleared' /\ Sending' /\ Halting'
  BY DEF Placed, Cleared, Sending, Halting, AtLane
<1>10. Ending'
  <2>1. ASSUME NEW k \in Nodes, k \in first .. n, Forked(k)
        PROVE  Branch(k)'.status \in {"retired", "faulted", "squashed"}
    <3>1. CASE k = n
      BY <1>3, <3>1
    <3>2. CASE k # n
      <4>1. k \in first .. n - 1
        BY <1>4, <2>1, <3>2
      <4> QED
        BY <1>3, <2>1, <3>2, <4>1 DEF Ended
    <3> QED
      BY <3>1, <3>2
  <2>2. cur' - 1 = n
    BY <1>4
  <2> QED
    BY <1>3, <2>1, <2>2 DEF Ending, Ended
<1> QED
  BY <1>2, <1>5, <1>6, <1>7, <1>8, <1>9, <1>10 DEF GroupInv

LEMMA AbandonKeeps ==
  ASSUME GroupInv, Abandon
  PROVE  GroupInv'
<1>1. PICK m \in 0 .. Follower :
        /\ RetiredNodes = 1 .. m /\ committed = 1 .. m
        /\ m < cur /\ first <= cur /\ (cur <= Follower => m < Last)
  BY DEF Abandon, GroupInv, Progress, Stopped
<1>2. /\ pc = "abandon" /\ cur \in 1 .. Follower + 1 /\ first \in Lanes
      /\ UNCHANGED <<decided, row, world, body, at, touched, seen, first, stale, sent, claimed,
                     committed, onward, resumes>>
  BY DEF Abandon, lanes, drive, GroupInv, TypeOK, DriveTypes
<1>3. CASE cur <= Last
  <2>1. PICK n \in Nodes : n = cur
    BY <1>2, <1>3
  <2>2. PICK status \in {"faulted", "squashed"} :
          Resolve(n, [Branch(n) EXCEPT !.status = status])
    <3> DEFINE s == IF body[cur] = "raised" THEN "faulted" ELSE "squashed"
    <3>1. s \in {"faulted", "squashed"}
      OBVIOUS
    <3>2. Resolve(cur, [Branch(cur) EXCEPT !.status = s])
      BY <1>3, Zenon DEF Abandon
    <3> HIDE DEF s
    <3> QED
      BY <2>1, <3>1, <3>2
  <2>3. pc' = "abandon" /\ cur' = n + 1
    <3>1. pc' = pc /\ cur' = cur + 1
      BY <1>3, Zenon DEF Abandon
    <3> QED
      BY <1>2, <2>1, <3>1
  <2>4. cur \in Lanes /\ n \in first .. Last /\ n \notin RetiredNodes
    BY <1>1, <1>2, <1>3, <2>1
  <2>5. Forked(n)
    BY <1>2, <2>4 DEF GroupInv, Forking, Newly
  <2>6. \A k \in Nodes : k \in first .. n - 1 => Ended(k)
    BY <1>2, <2>1 DEF GroupInv, Ending
  <2>7. body' \in [Nodes -> {"idle", "parked", "done", "raised", "stopped"}]
    BY <1>2 DEF GroupInv, TypeOK, LaneTypes
  <2>8. PICK b \in Branches : /\ b.node = n /\ b.step = Branch(n).step /\ b.base = Branch(n).base
                            /\ b.status \in {"faulted", "squashed"} /\ Resolve(n, b)
    <3> DEFINE b == [Branch(n) EXCEPT !.status = status]
    <3>1. Branch(n) \in Branches /\ Branch(n).node = n
      BY <2>5, ForkedIs DEF GroupInv
    <3>2. /\ b \in Branches /\ b.node = n /\ b.step = Branch(n).step
          /\ b.base = Branch(n).base /\ b.status \in {"faulted", "squashed"}
      BY <3>1 DEF Branches
    <3>3. Resolve(n, b)
      BY <2>2
    <3> HIDE DEF b
    <3> QED
      BY <3>2, <3>3
  <2>9. /\ RetiredNodes = 1 .. m /\ committed = 1 .. m
        /\ first <= n /\ (n <= Last => m < Last) /\ pc \in {"abandon"} \cup Working
    BY <1>1, <1>2, <1>3, <2>1
  <2> QED
    BY <1>2, <2>1, <2>3, <2>4, <2>5, <2>6, <2>7, <2>8, <2>9, GivesUp
<1>4. CASE ~(cur <= Last)
  <2>1. pc' = "over" /\ UNCHANGED <<forks, cur>>
    BY <1>4 DEF Abandon
  <2>2. /\ RetiredOnes' = RetiredOnes /\ RetiredNodes' = RetiredNodes
        /\ \A n : Branch(n)' = Branch(n) /\ (Forked(n)' <=> Forked(n))
    BY <2>1, SameForks
  <2>3. TypeOK'
    <3>1. DiskTypes'
      BY <1>2, <2>1 DEF GroupInv, TypeOK, DiskTypes
    <3>2. LaneTypes'
      BY <1>2, <2>1 DEF GroupInv, TypeOK, LaneTypes
    <3>3. DriveTypes'
      BY <1>2, <2>1 DEF GroupInv, TypeOK, DriveTypes
    <3> QED
      BY <3>1, <3>2, <3>3 DEF TypeOK
  <2>4. History'
    BY <1>2, <2>1, HistoryStays DEF GroupInv
  <2>5. Progress'
    BY <1>1, <2>1, <2>2 DEF Progress, Working, AtLane, Stopped
  <2>6. Forking' /\ Placed' /\ ClaimedKeys' /\ Cleared' /\ Sending' /\ Halting'
    BY <2>1 DEF Forking, Placed, ClaimedKeys, Cleared, Sending, Halting, Working, AtLane, Stopped
  <2>7. Ending'
    <3>1. ASSUME NEW n \in first .. Follower, Forked(n)
          PROVE  Branch(n).status \in {"retired", "faulted", "squashed"}
      <4>1. n \in Nodes /\ cur \in {Follower, Follower + 1}
        BY <1>2, <1>4
      <4>2. n # cur
        <5>1. ASSUME n = cur
              PROVE  FALSE
          <6>1. n = Follower /\ m < Last
            BY <1>1, <4>1, <5>1
          <6>2. Lanes \subseteq RetiredNodes
            BY <3>1, <6>1 DEF GroupInv, History, Forks, Forked
          <6>3. Last \in RetiredNodes
            BY <6>2
          <6> QED
            BY <1>1, <6>1, <6>3
        <5> QED
          BY <5>1
      <4>3. n \in first .. cur - 1
        BY <1>2, <4>1, <4>2
      <4> QED
        BY <1>2, <3>1, <4>1, <4>3 DEF GroupInv, Ending, Ended
    <3> QED
      BY <1>2, <2>1, <2>2, <3>1 DEF Ending, Ended
  <2> QED
    BY <2>3, <2>4, <2>5, <2>6, <2>7 DEF GroupInv
<1> QED
  BY <1>2, <1>3, <1>4

\* A lane ends without retiring, and those after it are abandoned.
LEMMA LaneEndsKeeps ==
  ASSUME GroupInv, LaneStale \/ CloseFailed
  PROVE  GroupInv'
<1>1. /\ pc \in {"lane", "failed"} /\ pc \in Working /\ AbandonFrom(cur + 1)
      /\ UNCHANGED <<decided, row, world, at, touched, seen, first, stale, sent, claimed,
                     committed, onward, resumes>>
      /\ \E status \in {"squashed", "faulted"} :
           Resolve(cur, [Branch(cur) EXCEPT !.status = status])
  BY DEF LaneStale, CloseFailed, drive, Working, AtLane
<1>2. PICK n \in Nodes : n = cur
  BY <1>1, AtWork
<1>3. PICK status \in {"squashed", "faulted"} :
        Resolve(n, [Branch(n) EXCEPT !.status = status])
  BY <1>1, <1>2
<1>4. PICK m \in 0 .. Follower :
        /\ RetiredNodes = 1 .. m /\ committed = 1 .. m
        /\ cur = m + 1 /\ first <= cur /\ cur <= Follower
  BY <1>1 DEF GroupInv, Progress, Stopped, Working, AtLane
<1>5. /\ pc' = "abandon" /\ cur' = n + 1 /\ first \in Lanes
      /\ body' \in [Nodes -> {"idle", "parked", "done", "raised", "stopped"}]
  BY <1>1, <1>2 DEF AbandonFrom, GroupInv, TypeOK, LaneTypes, DriveTypes
<1>6. Forked(n) /\ n \notin RetiredNodes
  BY <1>1, <1>2, AtWork
<1>7. ASSUME NEW k \in Nodes, k \in first .. n - 1
      PROVE  Ended(k)
  <2>1. k \in Lanes /\ k \in RetiredNodes
    BY <1>2, <1>4, <1>5, <1>7
  <2> QED
    BY <2>1, RetiredIs DEF GroupInv, Ended
<1>8. n <= Last => m < Last
  BY <1>2, <1>4
<1>9. PICK b \in Branches : /\ b.node = n /\ b.step = Branch(n).step /\ b.base = Branch(n).base
                            /\ b.status \in {"faulted", "squashed"} /\ Resolve(n, b)
  <2> DEFINE b == [Branch(n) EXCEPT !.status = status]
  <2>1. Branch(n) \in Branches /\ Branch(n).node = n
    BY <1>6, ForkedIs DEF GroupInv
  <2>2. /\ b \in Branches /\ b.node = n /\ b.step = Branch(n).step
        /\ b.base = Branch(n).base /\ b.status \in {"faulted", "squashed"}
    BY <2>1 DEF Branches
  <2>3. Resolve(n, b)
    BY <1>3
  <2> HIDE DEF b
  <2> QED
    BY <2>2, <2>3
<1> QED
  BY <1>1, <1>2, <1>4, <1>5, <1>6, <1>7, <1>8, <1>9, GivesUp

\* The run halts over a dead letter of the node by itself, which is left confirmed.
LEMMA RunHaltsKeeps ==
  ASSUME GroupInv, RunHalts
  PROVE  GroupInv'
<1>1. /\ pc = "failed" /\ pc \in Working /\ cur = Follower /\ body[cur] = "parked"
      /\ pc' = "over" /\ body' = [body EXCEPT ![cur] = "stopped"]
      /\ UNCHANGED <<decided, forks, row, world, cur, at, touched, seen, first, stale, sent,
                     claimed, committed, onward, resumes>>
  BY DEF RunHalts, disk, drive, Working, AtLane
<1>2. /\ RetiredOnes' = RetiredOnes /\ RetiredNodes' = RetiredNodes
      /\ \A n : Branch(n)' = Branch(n) /\ (Forked(n)' <=> Forked(n))
  BY <1>1, SameForks
<1>3. PICK m \in 0 .. Follower : RetiredNodes = 1 .. m /\ cur = m + 1
  BY <1>1 DEF GroupInv, Progress
<1>4. TypeOK'
  <2>1. DiskTypes'
    BY <1>1 DEF GroupInv, TypeOK, DiskTypes
  <2>2. LaneTypes'
    BY <1>1 DEF GroupInv, TypeOK, LaneTypes
  <2>3. DriveTypes'
    BY <1>1 DEF GroupInv, TypeOK, DriveTypes
  <2> QED
    BY <2>1, <2>2, <2>3 DEF TypeOK
<1>5. History'
  BY <1>1, HistoryStays DEF GroupInv
<1>6. Progress'
  BY <1>1, <1>2 DEF GroupInv, Progress, Working, AtLane, Stopped
<1>7. Forking' /\ Placed' /\ ClaimedKeys' /\ Cleared' /\ Sending' /\ Halting'
  BY <1>1 DEF Forking, Placed, ClaimedKeys, Cleared, Sending, Halting, Working, AtLane, Stopped
<1>8. Ending'
  <2>1. LeftConfirmed(Follower)'
    BY <1>1, <1>2 DEF GroupInv, Halting, LeftConfirmed, Key
  <2>2. ASSUME NEW n \in first .. Follower, n # Follower
        PROVE  Ended(n)'
    <3>1. n \in Lanes /\ n \in RetiredNodes
      BY <1>1, <1>3, <2>2 DEF GroupInv, TypeOK, DriveTypes
    <3> QED
      BY <1>2, <3>1, RetiredIs DEF GroupInv, Ended
  <2> QED
    BY <1>1, <2>1, <2>2 DEF Ending
<1> QED
  BY <1>4, <1>5, <1>6, <1>7, <1>8 DEF GroupInv

LEMMA ConfirmKeeps ==
  ASSUME GroupInv, Confirm
  PROVE  GroupInv'
<1>1. /\ pc = "lane" /\ pc' = "drain" /\ pc \in Working /\ pc' \in Working
      /\ Resolve(cur, [Branch(cur) EXCEPT !.status = "confirmed"])
      /\ cur \in Lanes => ~Clashes(cur) /\ ~IsStale(cur)
      /\ UNCHANGED <<decided, row, world, cur, body, at, touched, seen, first, stale, sent,
                     claimed, committed, onward, resumes>>
  BY DEF Confirm, lanes, drive, Working, AtLane
<1>2. PICK n \in Nodes : n = cur
  BY <1>1, AtWork
<1>3. /\ Forked(n) /\ Branch(n) \in Branches /\ Branch(n).node = n
      /\ Branch(n).status # "retired"
  BY <1>1, <1>2, AtWork
<1>4. PICK b \in Branches : /\ b.node = n /\ b.step = Branch(n).step /\ b.base = Branch(n).base
                            /\ b.status = "confirmed" /\ Resolve(n, b)
  <2> DEFINE b == [Branch(n) EXCEPT !.status = "confirmed"]
  <2>1. /\ b \in Branches /\ b.node = n /\ b.step = Branch(n).step
        /\ b.base = Branch(n).base /\ b.status = "confirmed"
    BY <1>3 DEF Branches
  <2>2. Resolve(n, b)
    BY <1>1, <1>2
  <2> HIDE DEF b
  <2> QED
    BY <2>1, <2>2
<1>5. /\ History' /\ RetiredOnes' = RetiredOnes /\ RetiredNodes' = RetiredNodes
      /\ \A i \in RetiredOnes : forks'[i] = forks[i]
  BY <1>1, <1>3, <1>4, HistoryMarked DEF GroupInv
<1>6. forks' \in Seq(Branches) /\ \A k : Newly(k)' <=> Newly(k)
  BY <1>3, <1>4, Resolved DEF GroupInv
<1>7. TypeOK'
  <2>1. DiskTypes'
    BY <1>1, <1>6 DEF GroupInv, TypeOK, DiskTypes
  <2>2. LaneTypes'
    BY <1>1 DEF GroupInv, TypeOK, LaneTypes
  <2>3. DriveTypes'
    BY <1>1 DEF GroupInv, TypeOK, DriveTypes
  <2> QED
    BY <2>1, <2>2, <2>3 DEF TypeOK
<1>8. Progress' /\ Forking' /\ Ending'
  BY <1>1, <1>5, <1>6, WorkGoesOn
<1>9. Placed'
  BY <1>1 DEF GroupInv, Placed, AtLane
<1>10. ClaimedKeys'
  BY <1>1, <1>5 DEF GroupInv, ClaimedKeys, Stopped
<1>11. Cleared'
  <2>1. /\ \A l : NotStale(l)' <=> NotStale(l)
        /\ \A l : Clashes(l)' <=> Clashes(l)
    BY <1>1 DEF NotStale, Landed, Clashes
  <2>2. ASSUME cur \in Lanes
        PROVE  NotStale(cur)
    <3>1. CASE sent = {}
      <4>1. cur \in first .. Last /\ cur \notin stale
        <5>1. first <= cur
          BY <1>1 DEF GroupInv, Progress
        <5> QED
          BY <1>1, <2>2, <3>1, <5>1 DEF IsStale, GroupInv, TypeOK, DriveTypes
      <4> QED
        BY <1>1, <2>2, <3>1, <4>1 DEF GroupInv, Cleared
    <3>2. CASE sent # {}
      BY <1>1, <2>2, <3>2 DEF IsStale, StaleNow, NotStale
    <3> QED
      BY <3>1, <3>2
  <2> QED
    BY <1>1, <2>1, <2>2 DEF GroupInv, Cleared
<1>12. Sending' /\ Halting'
  <2>1. Branch(n)'.status = "confirmed"
    BY <1>3, <1>4, Resolved DEF GroupInv
  <2> QED
    BY <1>1, <1>2, <2>1 DEF Sending, Halting
<1> QED
  BY <1>5, <1>7, <1>8, <1>9, <1>10, <1>11, <1>12 DEF GroupInv

(***************************************************************************)
(* The lane's write goes out, and the lane goes on to its end.             *)
(***************************************************************************)

\* There is nothing to send, or it has gone out before; or the lane fails.
LEMMA MovesKeeps ==
  ASSUME GroupInv, NothingToSend \/ SkipDelivered \/ RaisesAfter \/ ClashAtCommit
  PROVE  GroupInv'
<1>1. /\ pc \in {"drain", "acked"} /\ pc' \in {"acked", "failed"}
      /\ pc \in Working /\ pc' \in Working
      /\ body' \in [Nodes -> {"idle", "parked", "done", "raised", "stopped"}]
      /\ body' = body \/ pc' = "failed"
      /\ pc' = "failed" => cur \in Lanes \/ body' = [body EXCEPT ![cur] = "raised"]
      /\ sent' \in {sent, sent \cup {cur}}
      /\ UNCHANGED <<decided, forks, row, world, cur, at, touched, seen, first, stale,
                     claimed, committed, onward, resumes>>
  BY DEF NothingToSend, SkipDelivered, Draining, RaisesAfter, ClashAtCommit, disk, lanes, drive,
     Working, AtLane, GroupInv, TypeOK, LaneTypes
<1>2. /\ RetiredOnes' = RetiredOnes /\ RetiredNodes' = RetiredNodes
      /\ \A n : Newly(n)' <=> Newly(n)
  BY <1>1, SameForks
<1>3. TypeOK'
  <2>1. DiskTypes'
    BY <1>1 DEF GroupInv, TypeOK, DiskTypes
  <2>2. LaneTypes'
    BY <1>1 DEF GroupInv, TypeOK, LaneTypes
  <2>3. DriveTypes'
    BY <1>1, AtWork DEF GroupInv, TypeOK, DriveTypes
  <2> QED
    BY <2>1, <2>2, <2>3 DEF TypeOK
<1>4. History'
  BY <1>1, HistoryStays DEF GroupInv
<1>5. Progress' /\ Forking' /\ Ending'
  BY <1>1, <1>2, WorkGoesOn
<1>6. Placed'
  BY <1>1 DEF GroupInv, Placed, AtLane
<1>7. ClaimedKeys'
  BY <1>1, <1>2 DEF GroupInv, ClaimedKeys, Stopped
<1>8. Cleared'
  <2>1. \A l : NotStale(l)' <=> NotStale(l)
    BY <1>1 DEF NotStale, Landed
  <2>2. sent' = {} => sent = {}
    BY <1>1
  <2> QED
    BY <1>1, <2>1, <2>2 DEF GroupInv, Cleared
<1>9. Sending' /\ Halting'
  <2>1. pc' = "failed" => cur \in Lanes \/ body'[cur] # "parked"
    BY <1>1, AtWork DEF GroupInv, TypeOK, LaneTypes
  <2>2. cur \in Lanes => cur # Follower
    OBVIOUS
  <2> QED
    BY <1>1, <2>1, <2>2 DEF Sending, Halting
<1> QED
  BY <1>3, <1>4, <1>5, <1>6, <1>7, <1>8, <1>9 DEF GroupInv

LEMMA GoesOnKeeps ==
  ASSUME GroupInv, GoesOn
  PROVE  GroupInv'
<1>1. /\ pc = "acked" /\ pc' = "acked" /\ pc \in Working /\ body[cur] = "parked"
      /\ body' = [body EXCEPT ![cur] = "done"]
      /\ at' = [at EXCEPT ![cur] = @ + Late[cur]]
      /\ UNCHANGED <<decided, forks, row, world, cur, seen, first, stale, sent, claimed,
                     committed, onward, resumes>>
  BY DEF GoesOn, disk, drive, Working, AtLane
<1>2. /\ RetiredOnes' = RetiredOnes /\ RetiredNodes' = RetiredNodes
      /\ \A n : Newly(n)' <=> Newly(n)
  BY <1>1, SameForks
<1>3. cur \in Nodes /\ Late[cur] \in Nat /\ at[cur] \in Nat
  BY <1>1, AtWork DEF GroupInv, TypeOK, LaneTypes
<1>4. TypeOK'
  <2>1. DiskTypes'
    BY <1>1 DEF GroupInv, TypeOK, DiskTypes
  <2>2. body' \in [Nodes -> {"idle", "parked", "done", "raised", "stopped"}]
    BY <1>1 DEF GroupInv, TypeOK, LaneTypes
  <2>3. at' \in [Nodes -> Nat]
    <3>1. at[cur] + Late[cur] \in Nat
      BY <1>3
    <3> QED
      BY <1>1, <3>1 DEF GroupInv, TypeOK, LaneTypes
  <2>4. touched' \in [Lanes -> SUBSET StateKeys]
    <3>1. CASE cur = Follower
      BY <3>1 DEF GoesOn, GroupInv, TypeOK, LaneTypes
    <3>2. CASE cur # Follower
      <4>1. cur \in Lanes
        BY <1>3, <3>2
      <4>2. PICK keys \in SUBSET TouchesLate[cur] :
              touched' = [touched EXCEPT ![cur] = @ \cup keys]
        BY <3>2 DEF GoesOn
      <4>3. keys \subseteq StateKeys
        BY <4>1 DEF StateKeys
      <4> QED
        BY <4>1, <4>2, <4>3 DEF GroupInv, TypeOK, LaneTypes
    <3> QED
      BY <3>1, <3>2
  <2>5. LaneTypes'
    BY <1>1, <2>2, <2>3, <2>4 DEF GroupInv, TypeOK, LaneTypes
  <2>6. DriveTypes'
    BY <1>1 DEF GroupInv, TypeOK, DriveTypes
  <2> QED
    BY <2>1, <2>5, <2>6 DEF TypeOK
<1>5. History'
  BY <1>1, HistoryStays DEF GroupInv
<1>6. Progress' /\ Forking' /\ Ending'
  BY <1>1, <1>2, WorkGoesOn
<1>7. Placed'
  <2>1. ASSUME NEW k \in first .. Last, cur \in Lanes
        PROVE  /\ body'[k] = "parked" => at'[k] = Early[k]
               /\ body'[k] = "done" => at'[k] = Early[k] + Late[k]
    <3>1. k \in Nodes /\ first \in Lanes
      BY DEF GroupInv, TypeOK, DriveTypes
    <3>2. /\ body[k] = "parked" => at[k] = Early[k]
          /\ body[k] = "done" => at[k] = Early[k] + Late[k]
      BY <1>1, <2>1 DEF GroupInv, Placed, AtLane
    <3>3. /\ body'[k] = IF k = cur THEN "done" ELSE body[k]
          /\ at'[k] = IF k = cur THEN at[cur] + Late[cur] ELSE at[k]
      BY <1>1, <1>3, <3>1 DEF GroupInv, TypeOK, LaneTypes
    <3>4. CASE k = cur
      <4>1. at[cur] = Early[cur]
        BY <1>1, <3>2, <3>4
      <4> QED
        BY <3>3, <3>4, <4>1
    <3>5. CASE k # cur
      BY <3>2, <3>3, <3>5
    <3> QED
      BY <3>4, <3>5
  <2>2. cur \in Lanes => \A l \in first .. cur - 1 : body'[l] = "done"
    <3>1. ASSUME cur \in Lanes, NEW l \in first .. cur - 1
          PROVE  body'[l] = "done"
      <4>1. body[l] = "done" /\ l # cur
        BY <1>1, <3>1 DEF GroupInv, Placed, AtLane, TypeOK, DriveTypes
      <4>2. l \in Nodes
        BY <3>1 DEF GroupInv, TypeOK, DriveTypes
      <4> QED
        BY <1>1, <4>1, <4>2 DEF GroupInv, TypeOK, LaneTypes
    <3> QED
      BY <3>1
  <2> QED
    BY <1>1, <2>1, <2>2 DEF Placed
<1>8. ClaimedKeys'
  BY <1>1, <1>2 DEF GroupInv, ClaimedKeys, Stopped
<1>9. Cleared'
  <2>1. \A l : NotStale(l)' <=> NotStale(l)
    BY <1>1 DEF NotStale, Landed
  <2> QED
    BY <1>1, <2>1 DEF GroupInv, Cleared
<1>10. Sending' /\ Halting'
  BY <1>1 DEF Sending, Halting
<1> QED
  BY <1>4, <1>5, <1>6, <1>7, <1>8, <1>9, <1>10 DEF GroupInv

LEMMA ClaimsKeeps ==
  ASSUME GroupInv,
         Claim \/ Delivered \/ \E status \in {"not_sent", "maybe"} : DeadLetter(status)
  PROVE  GroupInv'
<1>1. PICK status \in Claims :
        /\ SetRow(status)
        /\ \/ /\ pc = "drain" /\ RowOf(Key(cur)) \in Sendable /\ status = "in_flight"
              /\ pc' = "send" /\ sent' = sent
           \/ /\ pc = "landed" /\ status = "delivered" /\ pc' = "acked"
              /\ sent' = sent \cup {cur}
           \/ /\ pc \in {"drain", "send", "landed"} /\ pc' = "failed" /\ sent' = sent
              /\ status = "not_sent" => pc = "send"
              /\ status # "in_flight"
        /\ UNCHANGED <<decided, forks, world, cur, body, at, touched, seen, first, stale,
                       claimed, committed, onward, resumes>>
  BY DEF Claim, Delivered, DeadLetter, Draining, Claims, lanes, drive
<1>2. pc \in Working /\ pc' \in Working
  BY <1>1 DEF Working, AtLane
<1>3. /\ cur \in Nodes /\ Key(cur) \in Keys /\ Key(cur)' = Key(cur)
  BY <1>1, <1>2, AtWork DEF Key, Branch, Mine
<1>4. /\ DOMAIN row' \subseteq Keys /\ \A x \in DOMAIN row' : row'[x] \in Claims
      /\ \A x : RowOf(x)' = IF x = Key(cur) THEN status ELSE RowOf(x)
  BY <1>1, <1>3, RowSet DEF GroupInv
<1>5. /\ RetiredOnes' = RetiredOnes /\ RetiredNodes' = RetiredNodes
      /\ \A n : Newly(n)' <=> Newly(n)
  BY <1>1, SameForks
<1>6. TypeOK'
  <2>1. DiskTypes'
    BY <1>1, <1>4 DEF GroupInv, TypeOK, DiskTypes
  <2>2. LaneTypes'
    BY <1>1 DEF GroupInv, TypeOK, LaneTypes
  <2>3. DriveTypes'
    BY <1>1, <1>3 DEF GroupInv, TypeOK, DriveTypes
  <2> QED
    BY <2>1, <2>2, <2>3 DEF TypeOK
<1>7. History'
  <2>1. status = "not_sent" => \A i \in DOMAIN world : world[i] # Key(cur)
    BY <1>1 DEF GroupInv, Sending
  <2> QED
    BY <1>1, <1>4, <2>1, HistoryClaims DEF GroupInv
<1>8. Progress' /\ Forking' /\ Ending'
  BY <1>1, <1>2, <1>5, WorkGoesOn
<1>9. Placed'
  BY <1>1 DEF GroupInv, Placed, AtLane
<1>10. ClaimedKeys'
  BY <1>1, <1>5 DEF GroupInv, ClaimedKeys, Stopped
<1>11. Cleared'
  <2>1. /\ \A l : NotStale(l)' <=> NotStale(l)
        /\ \A l : Clashes(l)' <=> Clashes(l)
    BY <1>1 DEF NotStale, Landed, Clashes
  <2>2. pc' # "failed" /\ sent' = {} => pc' = "send" /\ sent = {}
    BY <1>1
  <2> QED
    BY <1>1, <2>1, <2>2 DEF GroupInv, Cleared
<1>12. Sending'
  <2>1. ASSUME pc' = "send"
        PROVE  /\ RowOf(Key(cur))' = "in_flight"
               /\ \A i \in DOMAIN world : world[i] # Key(cur)
    <3>1. pc = "drain" /\ RowOf(Key(cur)) \in Sendable /\ status = "in_flight"
      BY <1>1, <2>1
    <3>2. \A i \in DOMAIN world : RowOf(world[i]) \notin Sendable
      BY DEF GroupInv, History, Claimed, Sendable
    <3>3. RowOf(Key(cur))' = "in_flight"
      BY <1>1, <1>3, <1>4, <3>1
    <3> QED
      BY <3>1, <3>2, <3>3
  <2>2. pc' # "landed"
    BY <1>1
  <2> QED
    BY <1>1, <1>3, <2>1, <2>2 DEF Sending
<1>13. Halting'
  <2>1. \A n : Branch(n)' = Branch(n)
    BY <1>1, SameForks
  <2>2. cur = Follower => Branch(cur).status = "confirmed"
    BY <1>1 DEF GroupInv, Halting
  <2>3. Key(cur) \in DOMAIN row'
    BY <1>1 DEF SetRow
  <2> QED
    BY <1>1, <1>3, <2>1, <2>2, <2>3 DEF Halting, LeftConfirmed
<1> QED
  BY <1>6, <1>7, <1>8, <1>9, <1>10, <1>11, <1>12, <1>13 DEF GroupInv

\* The write reaches upstream: all lanes before its own have retired.
LEMMA LandsKeeps ==
  ASSUME GroupInv, Lands
  PROVE  GroupInv'
<1>1. /\ pc = "send" /\ pc' = "landed" /\ world' = Append(world, Key(cur))
      /\ pc \in Working /\ pc' \in Working
      /\ UNCHANGED <<decided, forks, row, cur, body, at, touched, seen, first, stale, sent,
                     claimed, committed, onward, resumes>>
  BY DEF Lands, disk, lanes, drive, Working, AtLane
<1>2. cur \in Nodes /\ Key(cur) \in Keys /\ Key(cur).node = cur
  BY <1>1, AtWork
<1>3. /\ RetiredOnes' = RetiredOnes /\ RetiredNodes' = RetiredNodes
      /\ \A n : Newly(n)' <=> Newly(n)
      /\ Key(cur)' = Key(cur) /\ \A k : RowOf(k)' = RowOf(k)
  <2>1. Key(cur)' = Key(cur) /\ \A k : RowOf(k)' = RowOf(k)
    BY <1>1 DEF Key, Branch, Mine, RowOf
  <2> QED
    BY <1>1, <2>1, SameForks
<1>4. RowOf(Key(cur)) = "in_flight" /\ \A i \in DOMAIN world : world[i] # Key(cur)
  BY <1>1 DEF GroupInv, Sending
<1>5. /\ world \in Seq(Keys) /\ Len(world) \in Nat /\ DOMAIN world = 1 .. Len(world)
      /\ world' \in Seq(Keys) /\ DOMAIN world' = 1 .. Len(world) + 1
      /\ \A i \in DOMAIN world : world'[i] = world[i]
      /\ world'[Len(world) + 1] = Key(cur)
  <2>1. world \in Seq(Keys)
    BY DEF GroupInv, TypeOK, DiskTypes
  <2>2. Len(world) \in Nat /\ DOMAIN world = 1 .. Len(world)
    BY <2>1, LenProperties
  <2>3. /\ world' \in Seq(Keys) /\ Len(world') = Len(world) + 1
        /\ \A i \in 1 .. Len(world) : world'[i] = world[i]
        /\ world'[Len(world) + 1] = Key(cur)
    BY <1>1, <1>2, <2>1, AppendProperties
  <2>4. DOMAIN world' = 1 .. Len(world) + 1
    BY <2>3, LenProperties
  <2> QED
    BY <2>1, <2>2, <2>3, <2>4
<1>6. \A i \in DOMAIN world' : i \in DOMAIN world \/ i = Len(world) + 1
  BY <1>5
<1>7. TypeOK'
  <2>1. DiskTypes'
    BY <1>1, <1>5 DEF GroupInv, TypeOK, DiskTypes
  <2>2. LaneTypes'
    BY <1>1 DEF GroupInv, TypeOK, LaneTypes
  <2>3. DriveTypes'
    BY <1>1 DEF GroupInv, TypeOK, DriveTypes
  <2> QED
    BY <2>1, <2>2, <2>3 DEF TypeOK
<1>8. History'
  <2>1. AllInPlace' /\ NotAgain' /\ NoSilentOverwrite'
    BY <1>1, <1>3 DEF GroupInv, History, AllInPlace, Place, GroupEnd, NotAgain, NoSilentOverwrite
  <2>2. Retirements' /\ Forks'
    BY <1>1, <1>3 DEF GroupInv, History, Retirements, Forks, GroupEnd
  <2>3. GroupSendsOnce'
    BY <1>4, <1>5, <1>6 DEF GroupInv, History, GroupSendsOnce
  <2>4. LanesInOrder'
    <3>1. \A l \in Lanes : l < cur => l \in RetiredNodes
      BY <1>1 DEF GroupInv, Progress
    <3> QED
      BY <1>2, <1>3, <1>5, <1>6, <3>1 DEF GroupInv, History, LanesInOrder
  <2>5. Claimed'
    BY <1>3, <1>4, <1>5, <1>6 DEF GroupInv, History, Claimed
  <2> QED
    BY <2>1, <2>2, <2>3, <2>4, <2>5 DEF History
<1>9. Progress' /\ Forking' /\ Ending'
  BY <1>1, <1>3, WorkGoesOn
<1>10. Placed'
  BY <1>1 DEF GroupInv, Placed, AtLane
<1>11. ClaimedKeys'
  BY <1>1, <1>3 DEF GroupInv, ClaimedKeys, Stopped
<1>12. Cleared' /\ Sending'
  BY <1>1, <1>3, <1>4 DEF Cleared, Sending
<1>13. Halting'
  <2>1. \A n : Branch(n)' = Branch(n)
    BY <1>1, SameForks
  <2> QED
    BY <1>1, <2>1 DEF GroupInv, Halting
<1> QED
  BY <1>7, <1>8, <1>9, <1>10, <1>11, <1>12, <1>13 DEF GroupInv

(***************************************************************************)
(* Commit and retirement.                                                  *)
(***************************************************************************)

LEMMA CommitKeeps ==
  ASSUME GroupInv, Commit
  PROVE  GroupInv'
<1>1. /\ pc = "acked" /\ pc' = "retire" /\ pc \in Working /\ pc' \in Working
      /\ body[cur] = "done" /\ (cur \in Lanes => ~Clashes(cur))
      /\ UNCHANGED <<decided, row, world, cur, body, at, touched, seen, first, stale, sent,
                     committed, onward, resumes>>
  BY DEF Commit, lanes, Working, AtLane
<1>2. PICK n \in Nodes : n = cur
  BY <1>1, AtWork
<1>3. /\ Forked(n) /\ Branch(n) \in Branches /\ Branch(n).node = n
      /\ Branch(n).status # "retired" /\ n \notin RetiredNodes
  BY <1>1, <1>2, AtWork
<1>4. PICK wrote \in SUBSET StateKeys :
        /\ Resolve(n, [Branch(n) EXCEPT !.delta = TRUE, !.wrote = wrote])
        /\ n = Follower => wrote = {} /\ claimed' = claimed
        /\ n \in Lanes => wrote = touched[n] /\ claimed' = [claimed EXCEPT ![n] = wrote]
  <2> DEFINE w == IF cur \in Lanes THEN touched[cur] ELSE {}
  <2>1. w \in SUBSET StateKeys
    BY DEF GroupInv, TypeOK, LaneTypes
  <2>2. /\ Resolve(cur, [Branch(cur) EXCEPT !.delta = TRUE, !.wrote = w])
        /\ claimed' = IF cur \in Lanes THEN [claimed EXCEPT ![cur] = w] ELSE claimed
    BY Zenon DEF Commit
  <2>3. /\ n = Follower => w = {} /\ claimed' = claimed
        /\ n \in Lanes => w = touched[n] /\ claimed' = [claimed EXCEPT ![n] = w]
    <3>1. n = Follower => n \notin Lanes
      OBVIOUS
    <3> QED
      BY <1>2, <2>2, <3>1
  <2> HIDE DEF w
  <2> QED
    BY <1>2, <2>1, <2>2, <2>3
<1>5. PICK b \in Branches : /\ b.node = n /\ b.step = Branch(n).step /\ b.base = Branch(n).base
                            /\ b.status # "retired" /\ b.delta /\ b.wrote = wrote
                            /\ Resolve(n, b)
  <2> DEFINE b == [Branch(n) EXCEPT !.delta = TRUE, !.wrote = wrote]
  <2>1. b \in Branches
    BY <1>3 DEF Branches
  <2>2. /\ b.node = n /\ b.step = Branch(n).step /\ b.base = Branch(n).base
        /\ b.status # "retired" /\ b.delta /\ b.wrote = wrote
    BY <1>3 DEF Branches
  <2>3. Resolve(n, b)
    BY <1>4
  <2> HIDE DEF b
  <2> QED
    BY <2>1, <2>2, <2>3
<1>6. /\ History' /\ RetiredOnes' = RetiredOnes /\ RetiredNodes' = RetiredNodes
      /\ \A i \in RetiredOnes : forks'[i] = forks[i]
  BY <1>1, <1>3, <1>5, HistoryMarked DEF GroupInv
<1>7. /\ forks' \in Seq(Branches) /\ Branch(n)' = b /\ \A k : Newly(k)' <=> Newly(k)
  BY <1>3, <1>5, Resolved DEF GroupInv
<1>8. /\ claimed' \in [Lanes -> SUBSET StateKeys]
      /\ \A l \in Lanes : claimed'[l] = IF l = n THEN wrote ELSE claimed[l]
  <2>1. CASE n = Follower
    BY <1>4, <2>1 DEF GroupInv, TypeOK, DriveTypes
  <2>2. CASE n \in Lanes
    BY <1>4, <2>2 DEF GroupInv, TypeOK, DriveTypes
  <2>3. n = Follower \/ n \in Lanes
    OBVIOUS
  <2> QED
    BY <2>1, <2>2, <2>3, Zenon
<1>9. TypeOK'
  <2>1. DiskTypes'
    BY <1>1, <1>7 DEF GroupInv, TypeOK, DiskTypes
  <2>2. LaneTypes'
    BY <1>1 DEF GroupInv, TypeOK, LaneTypes
  <2>3. DriveTypes'
    BY <1>1, <1>8 DEF GroupInv, TypeOK, DriveTypes
  <2> QED
    BY <2>1, <2>2, <2>3 DEF TypeOK
<1>10. Progress' /\ Forking' /\ Ending'
  <2>1. UNCHANGED <<committed, cur, first>>
    BY <1>1
  <2> QED
    BY <1>1, <1>6, <1>7, <2>1, WorkGoesOn
<1>11. Placed'
  BY <1>1 DEF GroupInv, Placed, AtLane
<1>12. ClaimedKeys'
  <2>1. ASSUME NEW i \in RetiredOnes, forks[i].node \in Lanes
        PROVE  forks'[i].wrote \subseteq claimed'[forks'[i].node]
    <3>1. forks[i].node # n
      BY <1>3 DEF RetiredNodes
    <3>2. forks[i].wrote \subseteq claimed[forks[i].node]
      BY <1>1, <2>1 DEF GroupInv, ClaimedKeys, Stopped
    <3> QED
      BY <1>6, <1>8, <2>1, <3>1, <3>2
  <2>2. ASSUME n \in Lanes, NEW k \in Lanes \ {n}
        PROVE  claimed'[n] \cap claimed'[k] \subseteq Reducible
    <3>1. (touched[n] \cap claimed[k]) \ Reducible = {}
      BY <1>1, <1>2, <2>2 DEF Clashes
    <3>2. claimed'[n] = touched[n] /\ claimed'[k] = claimed[k]
      BY <1>4, <1>8, <2>2
    <3> QED
      BY <3>1, <3>2
  <2>3. /\ Branch(n)'.delta /\ Branch(n)'.wrote = wrote
    BY <1>5, <1>7
  <2>4. cur' = n
    BY <1>1, <1>2
  <2> QED
    BY <1>1, <1>4, <1>6, <1>8, <2>1, <2>2, <2>3, <2>4 DEF ClaimedKeys
<1>13. Cleared'
  <2>1. \A l : NotStale(l)' <=> NotStale(l)
    BY <1>1 DEF NotStale, Landed
  <2> QED
    BY <1>1, <2>1 DEF GroupInv, Cleared
<1>14. Sending' /\ Halting'
  BY <1>1 DEF Sending, Halting
<1> QED
  BY <1>6, <1>9, <1>10, <1>11, <1>12, <1>13, <1>14 DEF GroupInv

\* The last lane carries a position past every lane's, whichever drive it retired in.
LEMMA PositionIs ==
  ASSUME GroupInv, pc = "retire", cur = Last
  PROVE  GroupPosition = GroupEnd
<1> DEFINE Ends == {Early[l] + Late[l] : l \in Lanes}
           Prior == {0} \cup {forks[i].after : i \in {j \in RetiredOnes : forks[j].node < first}}
           Here == {at[l] : l \in first .. Last}
<1>1. PICK b \in Nat : \A x \in Ends : x <= b
  BY Positions
<1>2. Ends \in SUBSET Nat /\ \A x \in Ends : x > 0
  BY Positions
<1>3. first \in Lanes /\ \A l \in first .. Last : l \in Lanes /\ at[l] = Early[l] + Late[l]
  <2>1. first \in Lanes
    BY DEF GroupInv, TypeOK, DriveTypes
  <2>2. ASSUME NEW l \in first .. Last
        PROVE  l \in Lanes /\ at[l] = Early[l] + Late[l]
    <3>1. l \in Lanes
      BY <2>1
    <3>2. body[l] = "done"
      BY DEF GroupInv, Placed, AtLane
    <3> QED
      BY <3>1, <3>2 DEF GroupInv, Placed, AtLane
  <2> QED
    BY <2>1, <2>2
<1>4. Here \subseteq Ends /\ Here # {}
  <2>1. Here \subseteq Ends
    BY <1>3
  <2>2. at[Last] \in Here
    BY <1>3
  <2> QED
    BY <2>1, <2>2
<1>5. \A i \in RetiredOnes : forks[i].node < first =>
        /\ forks[i].node \in Lanes
        /\ forks[i].after = Early[forks[i].node] + Late[forks[i].node]
  <2>1. ASSUME NEW i \in RetiredOnes, forks[i].node < first
        PROVE  forks[i].node \in Lanes /\ forks[i].node # Last
    <3>1. forks[i].node \in Nodes
      BY ForksAre DEF RetiredOnes, GroupInv
    <3> QED
      BY <1>3, <2>1, <3>1
  <2> QED
    BY <2>1 DEF GroupInv, History, Retirements
<1>6. Prior \subseteq Ends \cup {0} /\ 0 \in Prior
  BY <1>5
<1>7. \A l \in Lanes : Early[l] + Late[l] \in Prior \cup Here
  <2>1. ASSUME NEW l \in Lanes, l < first
        PROVE  Early[l] + Late[l] \in Prior
    <3>1. l \in RetiredNodes
      BY <1>3, <2>1 DEF GroupInv, Progress, Working, AtLane
    <3>2. PICK i \in RetiredOnes : forks[i].node = l
      BY <3>1 DEF RetiredNodes
    <3>3. forks[i].after = Early[l] + Late[l]
      BY <1>5, <2>1, <3>2
    <3>4. forks[i].after \in Prior
      BY <2>1, <3>2
    <3> QED
      BY <3>3, <3>4
  <2>2. ASSUME NEW l \in Lanes, ~(l < first)
        PROVE  Early[l] + Late[l] \in Here
    <3>1. l \in first .. Last
      BY <1>3, <2>2
    <3>2. at[l] \in Here
      BY <3>1
    <3> QED
      BY <1>3, <3>1, <3>2
  <2> QED
    BY <2>1, <2>2
<1>8. Ends \subseteq Prior \cup Here
  BY <1>7
<1>9. PriorStep = Max(Prior) /\ ThisDrivesPosition = Max(Here) /\ GroupEnd = Max(Ends)
  BY DEF PriorStep, ThisDrivesPosition, GroupEnd
<1> HIDE DEF Ends, Prior, Here
<1>10. Max(Prior) \in Prior /\ \A x \in Prior : x <= Max(Prior)
  <2>1. Prior \in SUBSET Nat /\ Prior # {} /\ \A x \in Prior : x <= b
    BY <1>1, <1>2, <1>6
  <2> QED
    BY <2>1, MaxIs
<1>11. Max(Here) \in Here /\ \A x \in Here : x <= Max(Here)
  <2>1. Here \in SUBSET Nat /\ Here # {} /\ \A x \in Here : x <= b
    BY <1>1, <1>2, <1>4
  <2> QED
    BY <2>1, MaxIs
<1>12. PICK p \in Nat : p = Max(Prior)
  <2>1. Max(Prior) \in Ends \/ Max(Prior) = 0
    BY <1>6, <1>10
  <2>2. \A x \in Ends : x \in Nat
    BY <1>2
  <2>3. Max(Prior) \in Nat
    <3>1. CASE Max(Prior) \in Ends
      BY <2>2, <3>1
    <3>2. CASE Max(Prior) = 0
      BY <3>2
    <3> QED
      BY <2>1, <3>1, <3>2
  <2> QED
    BY <2>3
<1>13. PICK h \in Nat : h = Max(Here)
  BY <1>2, <1>4, <1>11
<1>14. PICK g \in {p, h} : p <= g /\ h <= g
  OBVIOUS
<1>15. GroupPosition = g
  <2>1. {PriorStep, ThisDrivesPosition} = {p, h}
    BY <1>9, <1>12, <1>13
  <2>2. {p, h} \in SUBSET Nat /\ \A y \in {p, h} : y <= g
    BY <1>14
  <2>3. Max({p, h}) = g
    BY <2>2, MaxOnly
  <2> QED
    BY <2>1, <2>3 DEF GroupPosition
<1>16. g \in Ends /\ \A x \in Ends : x <= g
  <2>1. h \in Ends /\ h > 0
    BY <1>2, <1>4, <1>11, <1>13
  <2>2. p \in Ends \/ p = 0
    BY <1>6, <1>10, <1>12
  <2>3. g \in Ends
    BY <1>14, <2>1, <2>2
  <2>4. ASSUME NEW x \in Ends
        PROVE  x <= g
    <3>1. x <= p \/ x <= h
      BY <1>8, <1>10, <1>11, <1>12, <1>13
    <3> QED
      BY <1>2, <1>14, <3>1
  <2> QED
    BY <2>3, <2>4
<1>17. Max(Ends) = g
  BY <1>2, <1>16, MaxOnly
<1> QED
  BY <1>9, <1>15, <1>17

LEMMA RetireKeeps ==
  ASSUME GroupInv, Retire
  PROVE  GroupInv'
<1>1. /\ pc = "retire" /\ pc \in Working
      /\ committed' = committed \cup {cur}
      /\ UNCHANGED <<decided, row, world, body, at, touched, seen, first, stale, sent,
                     claimed, resumes>>
  BY DEF Retire, lanes, Working, AtLane
<1>2. PICK n \in Nodes : n = cur
  BY <1>1, AtWork DEF AtLane, Working
<1>3. pc \in Working
  BY <1>1 DEF AtLane, Working
<1>4. /\ Forked(n) /\ Branch(n) \in Branches /\ Branch(n).node = n
      /\ Mine(n) \in DOMAIN forks /\ Branch(n) = forks[Mine(n)]
      /\ Branch(n).status # "retired" /\ n \notin RetiredNodes
  BY <1>2, <1>3, AtWork
<1>5. PICK m \in 0 .. Follower :
        /\ RetiredNodes = 1 .. m /\ committed = 1 .. m /\ n = m + 1 /\ first <= n
  BY <1>1, <1>2, <1>3 DEF GroupInv, Progress, Stopped
<1>6. PICK after \in Nat :
        /\ Resolve(n, [Branch(n) EXCEPT !.status = "retired", !.after = after])
        /\ onward' = after
        /\ n \in Lanes => after = IF n = Last THEN GroupEnd ELSE Early[n] + Late[n]
  <2> DEFINE a == IF cur = Last THEN GroupPosition ELSE at[cur]
  <2>1. Resolve(cur, [Branch(cur) EXCEPT !.status = "retired", !.after = a]) /\ onward' = a
    BY Zenon DEF Retire
  <2>2. n \in Lanes => a = IF n = Last THEN GroupEnd ELSE Early[n] + Late[n]
    <3>1. CASE n = Last
      BY <1>1, <1>2, <3>1, PositionIs
    <3>2. CASE n # Last /\ n \in Lanes
      <4>1. n \in first .. Last /\ body[n] = "done"
        BY <1>1, <1>2, <1>5, <3>2 DEF GroupInv, Placed, TypeOK, DriveTypes
      <4>2. at[n] = Early[n] + Late[n]
        BY <1>1, <1>2, <3>2, <4>1 DEF GroupInv, Placed, AtLane
      <4> QED
        BY <1>2, <3>2, <4>2
    <3> QED
      BY <3>1, <3>2
  <2>3. a \in Nat
    <3>1. CASE n = Last
      BY <1>1, <1>2, <3>1, PositionIs, GroupEndIs
    <3>2. CASE n # Last
      BY <1>2, <3>2 DEF GroupInv, TypeOK, LaneTypes
    <3> QED
      BY <3>1, <3>2
  <2> HIDE DEF a
  <2> QED
    BY <1>2, <2>1, <2>2, <2>3
<1>7. PICK b \in Branches :
        /\ b.node = n /\ b.step = Branch(n).step /\ b.base = Branch(n).base
        /\ b.status = "retired" /\ b.after = after
        /\ b.delta = Branch(n).delta /\ b.wrote = Branch(n).wrote
        /\ Resolve(n, b)
  <2> DEFINE b == [Branch(n) EXCEPT !.status = "retired", !.after = after]
  <2>1. b \in Branches
    BY <1>4 DEF Branches
  <2>2. /\ b.node = n /\ b.step = Branch(n).step /\ b.base = Branch(n).base
        /\ b.status = "retired" /\ b.after = after
        /\ b.delta = Branch(n).delta /\ b.wrote = Branch(n).wrote
    BY <1>4 DEF Branches
  <2>3. Resolve(n, b)
    BY <1>6
  <2> HIDE DEF b
  <2> QED
    BY <2>1, <2>2, <2>3
<1>8. /\ forks' \in Seq(Branches) /\ DOMAIN forks' = DOMAIN forks
      /\ \A i \in DOMAIN forks : forks'[i] = IF i = Mine(n) THEN b ELSE forks[i]
      /\ Branch(n)' = b /\ \A k : Newly(k)' <=> Newly(k)
      /\ \A k : Forked(k) /\ k # n => Branch(k)' = Branch(k)
  BY <1>4, <1>7, Resolved DEF GroupInv
<1>9. /\ RetiredOnes' = RetiredOnes \cup {Mine(n)} /\ Mine(n) \notin RetiredOnes
      /\ RetiredOnes \subseteq DOMAIN forks
      /\ \A i \in RetiredOnes : forks'[i] = forks[i]
      /\ forks'[Mine(n)] = b
  BY <1>4, <1>7, <1>8, SMTT(20) DEF RetiredOnes
<1>10. RetiredNodes' = 1 .. m + 1
  <2>1. RetiredNodes' = RetiredNodes \cup {n}
    <3>1. \A i \in RetiredOnes : forks'[i].node = forks[i].node
      BY <1>9
    <3>2. forks'[Mine(n)].node = n
      BY <1>7, <1>9
    <3>3. RetiredNodes' = {forks'[i].node : i \in RetiredOnes \cup {Mine(n)}}
      BY <1>9 DEF RetiredNodes
    <3> QED
      BY <3>1, <3>2, <3>3 DEF RetiredNodes
  <2>2. 1 .. m + 1 = 1 .. m \cup {m + 1}
    <3>1. m \in Nat
      OBVIOUS
    <3>2. \A x \in 1 .. m + 1 : x \in 1 .. m \/ x = m + 1
      BY <3>1
    <3>3. m + 1 \in 1 .. m + 1 /\ \A x \in 1 .. m : x \in 1 .. m + 1
      BY <3>1
    <3> QED
      BY <3>2, <3>3
  <2> QED
    BY <1>5, <2>1, <2>2
<1>11. \A i \in RetiredOnes : forks[i].node \in 1 .. m
  BY <1>5 DEF RetiredNodes
<1>12. \A i \in DOMAIN forks :
         /\ forks'[i].node = forks[i].node /\ forks'[i].step = forks[i].step
         /\ forks'[i].base = forks[i].base
  BY <1>4, <1>7, <1>8
<1>13. /\ Branch(n).delta /\ (n = Follower => Branch(n).wrote = {})
       /\ n \in Lanes => /\ Branch(n).wrote = claimed[n]
                         /\ \A k \in Lanes \ {n} : claimed[n] \cap claimed[k] \subseteq Reducible
  BY <1>1, <1>2 DEF GroupInv, ClaimedKeys
<1>14. \A i \in RetiredOnes : forks[i].node \in Lanes =>
         forks[i].wrote \subseteq claimed[forks[i].node]
  BY <1>1 DEF GroupInv, ClaimedKeys, Stopped
<1>15. Newly(n)
  <2>1. CASE n = Follower
    BY <1>2, <1>3, <2>1 DEF GroupInv, Forking
  <2>2. CASE n \in Lanes
    <3>1. n \in first .. Last
      BY <1>5, <2>2 DEF GroupInv, TypeOK, DriveTypes
    <3> QED
      BY <1>2, <1>3, <2>2, <3>1 DEF GroupInv, Forking
  <2> QED
    BY <2>1, <2>2
<1>16. History'
  <2>1. AllInPlace'
    <3>1. \A i \in DOMAIN forks : Place(forks[i])' <=> Place(forks[i])
      BY <1>12 DEF Place, GroupEnd
    <3> QED
      BY <1>8, <3>1 DEF GroupInv, History, AllInPlace
  <2>2. NotAgain'
    <3>1. \A i \in DOMAIN forks : forks[i].node = n => i <= Mine(n)
      BY <1>4, ForkedIs DEF GroupInv
    <3>2. ASSUME NEW i \in DOMAIN forks', NEW j \in RetiredOnes',
                 forks'[i].node # Follower, forks'[j].node = forks'[i].node
          PROVE  i <= j
      <4>1. i \in DOMAIN forks /\ forks'[i].node = forks[i].node
        BY <1>8, <1>12
      <4>2. CASE j = Mine(n)
        BY <1>7, <1>9, <3>1, <3>2, <4>1, <4>2
      <4>3. CASE j \in RetiredOnes
        BY <1>9, <3>2, <4>1, <4>3 DEF GroupInv, History, NotAgain
      <4> QED
        BY <1>9, <4>2, <4>3
    <3> QED
      BY <3>2 DEF NotAgain
  <2>3. GroupSendsOnce' /\ Claimed'
    BY <1>1 DEF GroupInv, History, GroupSendsOnce, Claimed, RowOf
  <2>4. LanesInOrder'
    <3>1. RetiredNodes \subseteq RetiredNodes'
      BY <1>5, <1>10
    <3> QED
      BY <1>1, <3>1 DEF GroupInv, History, LanesInOrder
  <2>5. NoSilentOverwrite'
    <3>1. ASSUME NEW i \in RetiredOnes
          PROVE  forks[i].wrote \cap b.wrote \subseteq Reducible
      <4>1. CASE n = Follower
        BY <1>7, <1>13, <4>1
      <4>2. CASE n \in Lanes
        <5>1. forks[i].node \in Lanes \ {n}
          <6>1. PICK k \in 1 .. m : k = forks[i].node
            BY <1>11
          <6>2. k \in Lanes /\ k # n
            BY <1>5, <4>2
          <6> QED
            BY <6>1, <6>2
        <5>2. claimed[n] \cap claimed[forks[i].node] \subseteq Reducible
          BY <1>13, <4>2, <5>1
        <5>3. forks[i].wrote \subseteq claimed[forks[i].node] /\ b.wrote = claimed[n]
          BY <1>7, <1>13, <1>14, <4>2, <5>1
        <5> QED
          BY <5>2, <5>3
      <4> QED
        BY <4>1, <4>2
    <3> QED
      BY <1>9, <3>1 DEF GroupInv, History, NoSilentOverwrite
  <2>6. Retirements'
    <3>1. ASSUME NEW i \in RetiredOnes'
          PROVE  /\ forks'[i].delta
                 /\ forks'[i].node = Follower => forks'[i].wrote = {}
                 /\ forks'[i].node \in Lanes =>
                      forks'[i].after = IF forks'[i].node = Last THEN GroupEnd
                                        ELSE Early[forks'[i].node] + Late[forks'[i].node]
      <4>1. CASE i = Mine(n)
        BY <1>6, <1>7, <1>9, <1>13, <4>1
      <4>2. CASE i \in RetiredOnes
        BY <1>9, <4>2 DEF GroupInv, History, Retirements
      <4> QED
        BY <1>9, <4>1, <4>2
    <3>2. ASSUME NEW i \in RetiredOnes', NEW j \in RetiredOnes',
                 forks'[i].node < forks'[j].node
          PROVE  i < j
      <4>1. CASE i \in RetiredOnes /\ j \in RetiredOnes
        BY <1>9, <3>2, <4>1 DEF GroupInv, History, Retirements
      <4>2. CASE i \in RetiredOnes /\ j = Mine(n)
        <5>1. i \in DOMAIN forks /\ forks[i].node < n
          BY <1>5, <1>9, <1>11, <4>2
        <5> QED
          BY <1>15, <4>2, <5>1 DEF Newly
      <4>3. i # Mine(n)
        <5>1. ASSUME i = Mine(n)
              PROVE  FALSE
          <6>1. forks'[i].node = n /\ forks'[j].node \in 1 .. n
            BY <1>5, <1>7, <1>9, <1>11, <5>1
          <6> QED
            BY <3>2, <6>1
        <5> QED
          BY <5>1
      <4> QED
        BY <1>9, <4>1, <4>2, <4>3
    <3> QED
      BY <3>1, <3>2 DEF Retirements, GroupEnd
  <2>7. Forks'
    <3>1. RetiredNodes \subseteq RetiredNodes'
      BY <1>5, <1>10
    <3> QED
      BY <1>1, <1>8, <1>12, <3>1 DEF GroupInv, History, Forks
  <2> QED
    BY <2>1, <2>2, <2>3, <2>4, <2>5, <2>6, <2>7 DEF History
<1>17. /\ \/ n < Last /\ pc' = "lane" /\ cur' = n + 1
          \/ n = Last /\ pc' = "follow" /\ cur' = n
          \/ n = Follower /\ pc' = "over" /\ cur' = n
  <2>1. IF cur < Last THEN pc' = "lane" /\ cur' = cur + 1
        ELSE pc' = (IF cur = Last THEN "follow" ELSE "over") /\ cur' = cur
    BY Zenon DEF Retire
  <2> QED
    BY <1>2, <2>1
<1>18. TypeOK'
  <2>1. DiskTypes'
    BY <1>1, <1>8 DEF GroupInv, TypeOK, DiskTypes
  <2>2. LaneTypes'
    BY <1>1 DEF GroupInv, TypeOK, LaneTypes
  <2>3. DriveTypes'
    <3>1. cur' \in 1 .. Follower + 1 /\ pc' \in {"lane", "follow", "over"}
      BY <1>17
    <3>2. committed' \subseteq Nodes /\ onward' \in Nat
      BY <1>1, <1>2, <1>6 DEF GroupInv, TypeOK, DriveTypes
    <3> QED
      BY <1>1, <3>1, <3>2 DEF GroupInv, TypeOK, DriveTypes
  <2> QED
    BY <2>1, <2>2, <2>3 DEF TypeOK
<1>19. Progress'
  <2>1. m + 1 \in 0 .. Follower /\ committed' = 1 .. m + 1
    BY <1>1, <1>2, <1>5
  <2>2. /\ pc' = "lane" => cur' = (m + 1) + 1 /\ first' <= cur' /\ cur' <= Follower
        /\ pc' = "follow" => m + 1 = Last
        /\ pc' \in {"lane", "follow", "over"}
    BY <1>1, <1>5, <1>17 DEF GroupInv, TypeOK, DriveTypes
  <2> QED
    BY <1>10, <2>1, <2>2 DEF Progress, Working, AtLane
<1>20. Forking'
  <2>1. pc' = "lane" => cur' \in Lanes /\ cur \in Lanes /\ cur' # Follower
    BY <1>2, <1>17
  <2> QED
    BY <1>1, <1>3, <1>8, <1>17, <2>1 DEF GroupInv, Forking, Working, AtLane
<1>21. Placed'
  <2>1. ASSUME pc' = "lane"
        PROVE  /\ \A l \in first .. Last : /\ body[l] = "parked" => at[l] = Early[l]
                                           /\ body[l] = "done" => at[l] = Early[l] + Late[l]
               /\ \A l \in first .. cur' - 1 : body[l] = "done"
    <3>1. cur \in Lanes /\ cur' - 1 = cur
      BY <1>2, <1>17, <2>1
    <3>2. \A l \in first .. cur : l \in first .. cur - 1 \/ l = cur
      BY <3>1 DEF GroupInv, TypeOK, DriveTypes
    <3> QED
      BY <1>1, <3>1, <3>2 DEF GroupInv, Placed, AtLane
  <2>2. pc' = "follow" => onward' = GroupEnd
    BY <1>6, <1>17
  <2> QED
    BY <1>1, <1>17, <2>1, <2>2 DEF Placed, AtLane, GroupEnd
<1>22. ClaimedKeys'
  <2>1. ASSUME NEW i \in RetiredOnes', forks'[i].node \in Lanes
        PROVE  forks'[i].wrote \subseteq claimed'[forks'[i].node]
    BY <1>1, <1>7, <1>9, <1>13, <1>14, <2>1
  <2> QED
    BY <1>17, <2>1 DEF ClaimedKeys
<1>23. Cleared'
  <2>1. \A l : NotStale(l)' <=> NotStale(l)
    BY <1>1 DEF NotStale, Landed
  <2>2. pc' = "lane" => cur \in Lanes
    BY <1>2, <1>17
  <2> QED
    BY <1>1, <1>17, <2>1, <2>2 DEF GroupInv, Cleared
<1>24. Sending' /\ Halting'
  BY <1>17 DEF Sending, Halting
<1>25. Ending'
  <2>1. ASSUME pc' = "over", NEW k \in first .. Follower
        PROVE  Branch(k)'.status = "retired"
    <3>1. n = Follower /\ k \in Nodes
      BY <1>17, <2>1 DEF GroupInv, TypeOK, DriveTypes
    <3>2. CASE k = n
      BY <1>7, <1>8, <3>2
    <3>3. CASE k # n
      <4>1. k \in Lanes /\ k \in RetiredNodes
        BY <1>5, <3>1, <3>3
      <4> QED
        BY <1>8, <3>3, <4>1, RetiredIs DEF GroupInv
    <3> QED
      BY <3>2, <3>3
  <2> QED
    BY <1>1, <1>17, <2>1 DEF Ending, Ended
<1> QED
  BY <1>16, <1>18, <1>19, <1>20, <1>21, <1>22, <1>23, <1>24, <1>25 DEF GroupInv

(***************************************************************************)
(* A branch is forked; the drive stops, and another one goes on.           *)
(***************************************************************************)

\* A branch is added at its place, for a node that has not retired.
LEMMA HistoryForks ==
  ASSUME TypeOK, History, NEW n \in Nodes, n \notin RetiredNodes,
         NEW b \in Branches, b.node = n, b.status = "forked", Place(b),
         forks' = Append(forks, b), decided,
         n = Follower => Lanes \subseteq RetiredNodes,
         UNCHANGED <<decided, row, world>>
  PROVE  /\ History' /\ RetiredOnes' = RetiredOnes /\ RetiredNodes' = RetiredNodes
         /\ \A i \in RetiredOnes : forks'[i] = forks[i]
<1>1. /\ DOMAIN forks' = DOMAIN forks \cup {Len(forks) + 1}
      /\ forks'[Len(forks) + 1] = b
      /\ \A i \in DOMAIN forks : forks'[i] = forks[i] /\ i # Len(forks) + 1
      /\ RetiredOnes' = RetiredOnes /\ RetiredNodes' = RetiredNodes
  BY Added
<1>2. RetiredOnes \subseteq DOMAIN forks /\ \A i \in RetiredOnes : forks'[i] = forks[i]
  BY <1>1 DEF RetiredOnes
<1>3. AllInPlace'
  <2>1. \A i \in DOMAIN forks : Place(forks[i])' <=> Place(forks[i])
    BY <1>1 DEF Place, GroupEnd
  <2>2. ASSUME NEW i \in DOMAIN forks', i = Len(forks) + 1
        PROVE  Place(forks[i])'
    BY <1>1, <2>2 DEF Place, GroupEnd
  <2>3. \A i \in DOMAIN forks : Place(forks[i])'
    BY <2>1 DEF History, AllInPlace
  <2> QED
    BY <1>1, <2>2, <2>3 DEF AllInPlace
<1>4. NotAgain'
  <2>1. \A j \in RetiredOnes : forks[j].node # n
    BY DEF RetiredNodes
  <2> QED
    BY <1>1, <1>2, <2>1 DEF History, NotAgain
<1>5. GroupSendsOnce' /\ LanesInOrder' /\ NoSilentOverwrite' /\ Claimed'
  <2>1. GroupSendsOnce' /\ LanesInOrder'
    BY <1>1 DEF History, GroupSendsOnce, LanesInOrder
  <2>2. NoSilentOverwrite'
    BY <1>1, <1>2 DEF History, NoSilentOverwrite
  <2>3. Claimed'
    BY DEF History, Claimed, RowOf
  <2> QED
    BY <2>1, <2>2, <2>3
<1>6. Retirements'
  <2>1. GroupEnd' = GroupEnd
    BY DEF GroupEnd
  <2>2. ASSUME NEW i \in RetiredOnes
        PROVE  /\ forks'[i].delta
               /\ forks'[i].node = Follower => forks'[i].wrote = {}
               /\ forks'[i].node \in Lanes =>
                    forks'[i].after = IF forks'[i].node = Last THEN GroupEnd
                                      ELSE Early[forks'[i].node] + Late[forks'[i].node]
    <3>1. forks'[i] = forks[i]
      BY <1>2
    <3> QED
      BY <3>1 DEF History, Retirements
  <2>3. ASSUME NEW i \in RetiredOnes, NEW j \in RetiredOnes, forks'[i].node < forks'[j].node
        PROVE  i < j
    <3>1. forks'[i] = forks[i] /\ forks'[j] = forks[j]
      BY <1>2
    <3> QED
      BY <2>3, <3>1 DEF History, Retirements
  <2> QED
    BY <1>1, <2>1, <2>2, <2>3, Zenon DEF Retirements
<1>7. Forks'
  BY <1>1 DEF History, Forks
<1> QED
  BY <1>1, <1>2, <1>3, <1>4, <1>5, <1>6, <1>7 DEF History

\* A lane is forked where the group began, on the state it began with.
LEMMA ForkLaneKeeps ==
  ASSUME GroupInv, ForkLane
  PROVE  GroupInv'
<1>1. /\ pc = "fork" /\ Fork(cur, 0)
      /\ \/ cur = Last /\ pc' = "bodies" /\ cur' = first
         \/ cur # Last /\ pc' = "fork" /\ cur' = cur + 1
      /\ UNCHANGED <<decided, row, world, body, at, touched, seen, first, stale, sent, claimed,
                     committed, onward, resumes>>
  BY DEF ForkLane, lanes, drive
<1>2. PICK m \in 0 .. Follower :
        /\ RetiredNodes = 1 .. m /\ committed = 1 .. m /\ decided
        /\ first = m + 1 /\ m < Last /\ cur \in first .. Last
  BY <1>1 DEF GroupInv, Progress, Stopped
<1>3. PICK n \in Lanes : n = cur
  BY <1>2
<1>4. first \in Lanes /\ n \in Nodes /\ n # Follower /\ n \notin RetiredNodes
  BY <1>2, <1>3
<1> DEFINE b == [node |-> n, step |-> 0, base |-> {}, status |-> "forked", delta |-> FALSE,
                 wrote |-> {}, after |-> 0]
<1>5. forks' = Append(forks, b)
  <2>1. BaseOf(n) = {}
    <3>1. committed \ Lanes = {}
      BY <1>2
    <3> QED
      BY <1>4, <3>1 DEF BaseOf, GroupBase
  <2> QED
    BY <1>1, <1>3, <2>1 DEF Fork
<1>6. b \in Branches /\ b.node = n /\ b.status = "forked" /\ Place(b)
  BY <1>4 DEF Branches, Place
<1> HIDE DEF b
<1>7. /\ History' /\ RetiredOnes' = RetiredOnes /\ RetiredNodes' = RetiredNodes
      /\ \A i \in RetiredOnes : forks'[i] = forks[i]
  BY <1>1, <1>2, <1>4, <1>5, <1>6, HistoryForks DEF GroupInv
<1>8. /\ forks' \in Seq(Branches) /\ Newly(n)'
      /\ \A k \in Nodes : k < n /\ Newly(k) => Newly(k)'
  BY <1>4, <1>5, <1>6, Added DEF GroupInv
<1>9. \A l \in first .. n : Newly(l)'
  <2>1. ASSUME NEW l \in first .. n
        PROVE  Newly(l)'
    <3>1. CASE l = n
      BY <1>8, <3>1
    <3>2. CASE l # n
      <4>1. l \in Nodes /\ l < n /\ l \in first .. cur - 1
        BY <1>3, <1>4, <2>1, <3>2
      <4> QED
        BY <1>1, <1>8, <4>1 DEF GroupInv, Forking
    <3> QED
      BY <3>1, <3>2
  <2> QED
    BY <2>1
<1>10. TypeOK'
  <2>1. DiskTypes'
    BY <1>1, <1>8 DEF GroupInv, TypeOK, DiskTypes
  <2>2. LaneTypes'
    BY <1>1 DEF GroupInv, TypeOK, LaneTypes
  <2>3. DriveTypes'
    <3>1. cur' \in 1 .. Follower + 1 /\ pc' \in {"fork", "bodies"}
      <4>1. first \in 1 .. Follower + 1 /\ n + 1 \in 1 .. Follower + 1
        BY <1>4
      <4> QED
        BY <1>1, <1>3, <4>1
    <3> QED
      BY <1>1, <3>1 DEF GroupInv, TypeOK, DriveTypes
  <2> QED
    BY <2>1, <2>2, <2>3 DEF TypeOK
<1>11. Progress'
  <2>1. pc' \in {"fork", "bodies"} /\ cur' \in first .. Last /\ (pc' = "bodies" => cur' = first)
    <3>1. CASE cur = Last /\ pc' = "bodies" /\ cur' = first
      BY <1>2, <1>4, <3>1
    <3>2. CASE cur # Last /\ pc' = "fork" /\ cur' = cur + 1
      <4>1. n + 1 \in first .. Last
        BY <1>2, <1>3, <1>4, <3>2
      <4> QED
        BY <1>3, <3>2, <4>1
    <3> QED
      BY <1>1, <3>1, <3>2
  <2> QED
    BY <1>1, <1>2, <1>7, <2>1 DEF Progress, Working, AtLane
<1>12. Forking'
  <2>1. CASE pc' = "bodies"
    BY <1>1, <1>3, <1>9, <2>1 DEF Forking, Working, AtLane
  <2>2. CASE pc' = "fork"
    <3>1. cur' - 1 = n
      BY <1>1, <1>3, <2>2
    <3> QED
      BY <1>1, <1>9, <2>2, <3>1 DEF Forking, Working, AtLane
  <2> QED
    BY <1>1, <2>1, <2>2
<1>13. Placed'
  <2>1. \A l \in Lanes : body[l] = "idle"
    BY <1>1 DEF GroupInv, Placed
  <2>2. \A l \in first .. Last : l \in Lanes
    BY <1>4
  <2> QED
    BY <1>1, <2>1, <2>2 DEF Placed, AtLane
<1>14. ClaimedKeys'
  BY <1>1, <1>7 DEF GroupInv, ClaimedKeys, Stopped
<1>15. Cleared' /\ Sending' /\ Halting' /\ Ending'
  BY <1>1 DEF Cleared, Sending, Halting, Ending
<1> QED
  BY <1>7, <1>10, <1>11, <1>12, <1>13, <1>14, <1>15 DEF GroupInv


\* The node after the group is forked past all lanes, on what they all committed.
LEMMA ForkFollowerKeeps ==
  ASSUME GroupInv, ForkFollower
  PROVE  GroupInv'
<1>1. /\ pc = "follow" /\ pc' = "lane" /\ cur' = Follower /\ Fork(Follower, onward)
      /\ body' = [body EXCEPT ![Follower] = IF Follower \in Writers THEN "parked" ELSE "done"]
      /\ at' = [at EXCEPT ![Follower] = onward + Early[Follower]]
      /\ UNCHANGED <<decided, row, world, touched, seen, first, stale, sent, claimed,
                     committed, onward, resumes>>
  BY DEF ForkFollower, drive
<1>2. RetiredNodes = 1 .. Last /\ committed = 1 .. Last /\ onward = GroupEnd
  BY <1>1 DEF GroupInv, Progress, Placed, Stopped
<1>3. /\ Follower \in Nodes /\ Follower \notin RetiredNodes /\ Lanes \subseteq RetiredNodes
      /\ first \in Lanes /\ onward \in Nat
  BY <1>2 DEF GroupInv, TypeOK, DriveTypes
<1>4. decided
  <2>1. 1 \in RetiredNodes
    BY <1>2
  <2>2. DOMAIN forks # {}
    BY <2>1 DEF RetiredNodes, RetiredOnes
  <2> QED
    BY <2>2 DEF GroupInv, History, Forks
<1> DEFINE b == [node |-> Follower, step |-> onward, base |-> committed, status |-> "forked",
                 delta |-> FALSE, wrote |-> {}, after |-> 0]
<1>5. forks' = Append(forks, b)
  BY <1>1 DEF Fork, BaseOf
<1>6. b \in Branches /\ b.node = Follower /\ b.status = "forked" /\ Place(b)
  BY <1>2, <1>3 DEF Branches, Place
<1> HIDE DEF b
<1>7. PICK n \in Nodes : n = Follower
  BY <1>3
<1>8. PICK c \in Branches : c = b
  BY <1>6
<1>9. /\ History' /\ RetiredOnes' = RetiredOnes /\ RetiredNodes' = RetiredNodes
      /\ \A i \in RetiredOnes : forks'[i] = forks[i]
  BY <1>1, <1>3, <1>4, <1>5, <1>6, <1>8, HistoryForks DEF GroupInv
<1>10. forks' \in Seq(Branches) /\ Newly(Follower)'
  BY <1>3, <1>5, <1>6, <1>8, Added DEF GroupInv
<1>11. TypeOK'
  <2>1. DiskTypes'
    BY <1>1, <1>10 DEF GroupInv, TypeOK, DiskTypes
  <2>2. LaneTypes'
    <3>1. onward + Early[Follower] \in Nat
      BY <1>3
    <3>2. body' \in [Nodes -> {"idle", "parked", "done", "raised", "stopped"}]
      BY <1>1 DEF GroupInv, TypeOK, LaneTypes
    <3>3. at' \in [Nodes -> Nat]
      BY <1>1, <3>1 DEF GroupInv, TypeOK, LaneTypes
    <3> QED
      BY <1>1, <3>2, <3>3 DEF GroupInv, TypeOK, LaneTypes
  <2>3. DriveTypes'
    BY <1>1 DEF GroupInv, TypeOK, DriveTypes
  <2> QED
    BY <2>1, <2>2, <2>3 DEF TypeOK
<1>12. Progress'
  <2>1. Last \in 0 .. Follower /\ first' <= cur' /\ cur' = Last + 1
    BY <1>1, <1>3
  <2> QED
    BY <1>1, <1>2, <1>9, <2>1 DEF Progress, Working, AtLane
<1>13. cur' \notin Lanes
  BY <1>1
<1>14. Forking' /\ Placed' /\ Cleared' /\ Sending' /\ Halting' /\ Ending'
  BY <1>1, <1>10, <1>13 DEF Forking, Placed, Cleared, Sending, Halting, Ending, Working, AtLane
<1>15. ClaimedKeys'
  BY <1>1, <1>9 DEF GroupInv, ClaimedKeys, Stopped
<1> QED
  BY <1>9, <1>11, <1>12, <1>14, <1>15 DEF GroupInv

LEMMA CrashKeeps ==
  ASSUME GroupInv, Crash
  PROVE  GroupInv'
<1>1. /\ pc' = "down" /\ FreshAgain
      /\ claimed' = [l \in Lanes |-> {}] /\ committed' = {} /\ onward' = 0
      /\ UNCHANGED <<decided, forks, row, world, cur, first, resumes>>
  BY DEF Crash, disk
<1>2. RetiredOnes' = RetiredOnes /\ RetiredNodes' = RetiredNodes
  BY <1>1, SameForks
<1>3. TypeOK'
  <2>1. DiskTypes'
    BY <1>1 DEF GroupInv, TypeOK, DiskTypes
  <2>2. LaneTypes'
    BY <1>1 DEF FreshAgain, LaneTypes
  <2>3. DriveTypes'
    BY <1>1 DEF FreshAgain, GroupInv, TypeOK, DriveTypes
  <2> QED
    BY <2>1, <2>2, <2>3 DEF TypeOK
<1>4. History'
  BY <1>1, HistoryStays DEF GroupInv
<1>5. Progress'
  BY <1>1, <1>2 DEF GroupInv, Progress, Working, AtLane, Stopped
<1>6. Forking' /\ Placed' /\ ClaimedKeys' /\ Cleared' /\ Sending' /\ Halting' /\ Ending'
  BY <1>1 DEF Forking, Placed, ClaimedKeys, Cleared, Sending, Halting, Ending, Working, AtLane, Stopped
<1> QED
  BY <1>3, <1>4, <1>5, <1>6 DEF GroupInv

\* What a resume finds: the lanes left, the claims of the others, the position.
LEMMA ResumeKeeps ==
  ASSUME GroupInv, Resume
  PROVE  GroupInv'
<1>1. /\ pc \in Stopped /\ Follower \notin RetiredNodes /\ FreshAgain
      /\ committed' = RetiredNodes /\ claimed' = RecoveredClaims
      /\ first' = FirstOpen /\ cur' = first' /\ resumes' \in 0 .. MaxResumes
      /\ onward' = IF RetiredOnes = {} THEN 0 ELSE forks[Max(RetiredOnes)].after
      /\ pc' = CASE ~decided -> "route" [] decided /\ Open # {} -> "fork" [] OTHER -> "follow"
      /\ UNCHANGED <<decided, forks, row, world>>
  BY DEF Resume, disk, GroupInv, TypeOK, DriveTypes
<1>2. RetiredOnes' = RetiredOnes /\ RetiredNodes' = RetiredNodes
  BY <1>1, SameForks
<1>3. PICK m \in 0 .. Last : RetiredNodes = 1 .. m
  <2>1. PICK m \in 0 .. Follower : RetiredNodes = 1 .. m
    BY DEF GroupInv, Progress
  <2>2. m # Follower
    BY <1>1, <2>1
  <2>3. m \in 0 .. Last
    BY <2>2
  <2> QED
    BY <2>1, <2>3
<1>4. onward' \in Nat
  <2>1. CASE RetiredOnes = {}
    BY <1>1, <2>1
  <2>2. CASE RetiredOnes # {}
    <3>1. /\ RetiredOnes \in SUBSET Nat /\ RetiredOnes \subseteq DOMAIN forks
          /\ Len(forks) \in Nat /\ \A i \in RetiredOnes : i <= Len(forks)
      BY ForksAre DEF GroupInv, RetiredOnes
    <3>2. Max(RetiredOnes) \in RetiredOnes
      BY <2>2, <3>1, MaxIs
    <3>3. forks[Max(RetiredOnes)].after \in Nat
      BY <3>1, <3>2, ForksAre DEF GroupInv, Branches
    <3> QED
      BY <1>1, <2>2, <3>3
  <2> QED
    BY <2>1, <2>2
<1>5. ASSUME m < Last
      PROVE  /\ pc' \in {"route", "fork", "follow"} /\ first' \in Lanes /\ onward' \in Nat
             /\ Progress' /\ Placed' /\ Forking'
  <2>1. Open # {} /\ FirstOpen = m + 1
    <3>1. m + 1 \in Open /\ \A l \in Open : m + 1 <= l
      BY <1>3, <1>5 DEF Open
    <3>2. \A x \in Open : (\A l \in Open : x <= l) => x = m + 1
      BY <3>1 DEF Open
    <3>3. Min(Open) = m + 1
      BY <3>1, <3>2 DEF Min
    <3> QED
      BY <3>1, <3>3 DEF FirstOpen
  <2>2. /\ pc' \in {"route", "fork"} /\ (pc' = "route" => ~decided)
        /\ (pc' = "fork" => decided)
        /\ first' = m + 1 /\ cur' = m + 1
    <3>1. CASE decided
      BY <1>1, <2>1, <3>1, Zenon
    <3>2. CASE ~decided
      <4>1. pc' = "route"
        BY <1>1, <3>2, Zenon
      <4> QED
        BY <1>1, <2>1, <3>2, <4>1
    <3> QED
      BY <3>1, <3>2
  <2>3. pc' = "route" => m = 0
    <3>1. ASSUME ~decided
          PROVE  m = 0
      <4>1. RetiredNodes = {}
        BY <3>1 DEF GroupInv, History, Forks, RetiredNodes, RetiredOnes
      <4>2. 1 \notin 1 .. m
        BY <1>3, <4>1
      <4> QED
        BY <4>2
    <3> QED
      BY <2>2, <3>1
  <2>4. Progress'
    <3>1. m \in 0 .. Follower /\ cur' \in first' .. Last /\ (m = 0 => first' = 1)
      BY <1>5, <2>2
    <3> QED
      BY <1>1, <1>2, <1>3, <1>5, <2>2, <2>3, <3>1 DEF Progress, Working, AtLane
  <2>5. Placed' /\ Forking'
    <3>1. \A l \in first' .. cur' - 1 : FALSE
      BY <2>2
    <3>2. \A l \in Lanes : body'[l] = "idle"
      BY <1>1 DEF FreshAgain
    <3> QED
      BY <2>2, <3>1, <3>2 DEF Placed, Forking, Working, AtLane
  <2>6. pc' \in {"route", "fork", "follow"} /\ first' \in Lanes /\ onward' \in Nat
    <3>1. m + 1 \in Lanes
      BY <1>5
    <3> QED
      BY <1>4, <2>2, <3>1
  <2> QED
    BY <2>4, <2>5, <2>6
<1>6. ASSUME m = Last
      PROVE  /\ pc' \in {"route", "fork", "follow"} /\ first' \in Lanes /\ onward' \in Nat
             /\ Progress' /\ Placed' /\ Forking'
  <2>1. Open = {} /\ FirstOpen = 1
    BY <1>3, <1>6 DEF Open, FirstOpen
  <2>2. Last \in RetiredNodes
    BY <1>3, <1>6
  <2>3. PICK i \in RetiredOnes : forks[i].node = Last
    BY <2>2 DEF RetiredNodes
  <2>4. decided
    BY <2>3 DEF GroupInv, History, Forks, RetiredOnes
  <2>5. pc' = "follow" /\ first' = 1 /\ cur' = 1
    BY <1>1, <2>1, <2>4
  <2>6. forks[i].after = GroupEnd
    <3>1. Last \in Lanes
      OBVIOUS
    <3> QED
      BY <2>3, <3>1 DEF GroupInv, History, Retirements
  <2>7. Max(RetiredOnes) = i
    <3>1. RetiredOnes \in SUBSET Nat
      BY ForksAre DEF GroupInv, RetiredOnes
    <3>2. ASSUME NEW j \in RetiredOnes
          PROVE  j <= i
      <4>1. forks[j].node \in 1 .. Last /\ j \in DOMAIN forks
        BY <1>3, <1>6 DEF RetiredNodes, RetiredOnes
      <4>2. CASE forks[j].node = Last
        BY <2>3, <4>1, <4>2 DEF GroupInv, History, NotAgain
      <4>3. CASE forks[j].node # Last
        <5>1. forks[j].node < forks[i].node
          BY <2>3, <4>1, <4>3
        <5>2. j < i
          BY <5>1 DEF GroupInv, History, Retirements
        <5> QED
          BY <3>1, <5>2
      <4> QED
        BY <4>2, <4>3
    <3> QED
      BY <3>1, <3>2, MaxOnly
  <2>8. onward' = GroupEnd /\ onward' \in Nat
    BY <1>1, <2>3, <2>6, <2>7, GroupEndIs
  <2>9. Progress'
    <3>1. Last \in 0 .. Follower
      OBVIOUS
    <3> QED
      BY <1>1, <1>2, <1>3, <1>6, <2>5, <3>1 DEF Progress, Working, AtLane
  <2>10. GroupEnd' = GroupEnd
    BY DEF GroupEnd
  <2>11. Placed' /\ Forking'
    BY <2>5, <2>8, <2>10 DEF Placed, Forking, Working, AtLane
  <2> QED
    BY <2>5, <2>8, <2>9, <2>11
<1>7. /\ pc' \in {"route", "fork", "follow"} /\ first' \in Lanes /\ onward' \in Nat
      /\ Progress' /\ Placed' /\ Forking'
  BY <1>3, <1>5, <1>6
<1>8. claimed' \in [Lanes -> SUBSET StateKeys]
  <2>1. ASSUME NEW l \in Lanes
        PROVE  UNION {forks[i].wrote : i \in {j \in RetiredOnes : forks[j].node = l}}
                 \subseteq StateKeys
    <3>1. \A i \in RetiredOnes : forks[i].wrote \subseteq StateKeys
      BY ForksAre DEF GroupInv, RetiredOnes, Branches
    <3> QED
      BY <3>1
  <2> QED
    BY <1>1, <2>1 DEF RecoveredClaims
<1>9. TypeOK'
  <2>1. DiskTypes'
    BY <1>1 DEF GroupInv, TypeOK, DiskTypes
  <2>2. LaneTypes'
    BY <1>1 DEF FreshAgain, LaneTypes
  <2>3. DriveTypes'
    <3>1. committed' \subseteq Nodes /\ cur' \in 1 .. Follower + 1
      BY <1>1, <1>3, <1>7
    <3>2. stale' \subseteq Lanes /\ sent' \subseteq Nodes
      BY <1>1 DEF FreshAgain
    <3> QED
      BY <1>1, <1>7, <1>8, <3>1, <3>2 DEF DriveTypes
  <2> QED
    BY <2>1, <2>2, <2>3 DEF TypeOK
<1>10. History'
  BY <1>1, HistoryStays DEF GroupInv
<1>11. ClaimedKeys'
  <2>1. ASSUME NEW i \in RetiredOnes, forks[i].node \in Lanes
        PROVE  forks[i].wrote \subseteq RecoveredClaims[forks[i].node]
    <3>1. i \in {j \in RetiredOnes : forks[j].node = forks[i].node}
      OBVIOUS
    <3> QED
      BY <2>1, <3>1 DEF RecoveredClaims
  <2> QED
    BY <1>1, <1>2, <1>7, <2>1 DEF ClaimedKeys
<1>12. Cleared' /\ Sending' /\ Halting' /\ Ending'
  BY <1>7 DEF Cleared, Sending, Halting, Ending
<1> QED
  BY <1>7, <1>9, <1>10, <1>11, <1>12 DEF GroupInv

\* The operator looks upstream, so says of no write that it is not there when it is.
LEMMA OperatorKeeps ==
  ASSUME GroupInv, NEW k \in DOMAIN row, Operator(k)
  PROVE  GroupInv'
<1>1. /\ pc \in Stopped
      /\ UNCHANGED <<decided, forks, world, pc, cur, body, at, touched, seen, first, stale,
                     sent, claimed, committed, onward, resumes>>
  BY DEF Operator, lanes, drive
<1>2. PICK status \in {"delivered", "not_sent"} :
        /\ row' = [row EXCEPT ![k] = status]
        /\ status = "not_sent" => \A i \in DOMAIN world : world[i] # k
  <2>1. CASE \E i \in DOMAIN world : world[i] = k
    BY <2>1, Zenon DEF Operator
  <2>2. CASE ~(\E i \in DOMAIN world : world[i] = k)
    BY <2>2, Zenon DEF Operator
  <2> QED
    BY <2>1, <2>2
<1>3. /\ RetiredOnes' = RetiredOnes /\ RetiredNodes' = RetiredNodes
      /\ \A n : Branch(n)' = Branch(n) /\ (Forked(n)' <=> Forked(n))
  BY <1>1, SameForks
<1>4. TypeOK'
  <2>1. DOMAIN row' = DOMAIN row /\ \A x \in DOMAIN row' : row'[x] \in Claims
    BY <1>2 DEF GroupInv, TypeOK, DiskTypes, Claims
  <2>2. DiskTypes'
    BY <1>1, <2>1 DEF GroupInv, TypeOK, DiskTypes
  <2>3. LaneTypes'
    BY <1>1 DEF GroupInv, TypeOK, LaneTypes
  <2>4. DriveTypes'
    BY <1>1 DEF GroupInv, TypeOK, DriveTypes
  <2> QED
    BY <2>2, <2>3, <2>4 DEF TypeOK
<1>5. History'
  <2>1. \A x : RowOf(x)' = IF x = k THEN status ELSE RowOf(x)
    BY <1>2 DEF RowOf, GroupInv, TypeOK, DiskTypes
  <2>2. status \in Claims
    BY DEF Claims
  <2> QED
    BY <1>1, <1>2, <2>1, <2>2, HistoryClaims DEF GroupInv
<1>6. Progress'
  BY <1>1, <1>3 DEF GroupInv, Progress, Working, AtLane, Stopped
<1>7. Forking' /\ Placed' /\ ClaimedKeys' /\ Cleared' /\ Sending' /\ Halting'
  BY <1>1 DEF Forking, Placed, ClaimedKeys, Cleared, Sending, Halting, Working, AtLane, Stopped
<1>8. Ending'
  BY <1>1, <1>2, <1>3 DEF GroupInv, Ending, Ended, LeftConfirmed, Key, Stopped
<1> QED
  BY <1>4, <1>5, <1>6, <1>7, <1>8 DEF GroupInv

(***************************************************************************)
(* Every step, and the theorems.                                           *)
(***************************************************************************)

LEMMA NextKeeps ==
  ASSUME GroupInv, [Next]_vars
  PROVE  GroupInv'
<1>1. CASE UNCHANGED vars
  <2>1. UNCHANGED <<decided, forks, row, world, pc, cur, body, at, touched, seen, first, stale,
                   sent, claimed, committed, onward, resumes>>
    BY <1>1 DEF vars, disk, lanes, drive
  <2>2. RetiredOnes' = RetiredOnes /\ RetiredNodes' = RetiredNodes
        /\ \A n : /\ Branch(n)' = Branch(n)
                  /\ (Forked(n)' <=> Forked(n)) /\ (Newly(n)' <=> Newly(n))
    BY <2>1, SameForks
  <2>3. TypeOK'
    <3>1. DiskTypes'
      BY <2>1 DEF GroupInv, TypeOK, DiskTypes
    <3>2. LaneTypes'
      BY <2>1 DEF GroupInv, TypeOK, LaneTypes
    <3>3. DriveTypes'
      BY <2>1 DEF GroupInv, TypeOK, DriveTypes
    <3> QED
      BY <3>1, <3>2, <3>3 DEF TypeOK
  <2>4. History'
    BY <2>1, HistoryStays DEF GroupInv
  <2>5. Progress' /\ Forking'
    BY <2>1, <2>2 DEF GroupInv, Progress, Forking
  <2>9. Placed'
    BY <2>1 DEF GroupInv, Placed, GroupEnd
  <2>10. Ending'
    BY <2>1, <2>2 DEF GroupInv, Ending, Ended, LeftConfirmed, Key
  <2>6. ClaimedKeys'
    BY <2>1, <2>2 DEF GroupInv, ClaimedKeys
  <2>7. Cleared'
    BY <2>1 DEF GroupInv, Cleared, Clashes, NotStale, Landed
  <2>8. Sending'
    <3>1. Key(cur)' = Key(cur) /\ RowOf(Key(cur))' = RowOf(Key(cur))
      BY <2>1, <2>2 DEF Key, RowOf
    <3> QED
      BY <2>1, <3>1 DEF GroupInv, Sending
  <2>11. Halting'
    BY <2>1, <2>2 DEF GroupInv, Halting, LeftConfirmed, Key
  <2> QED
    BY <2>3, <2>4, <2>5, <2>6, <2>7, <2>8, <2>9, <2>10, <2>11 DEF GroupInv
<1>2. CASE Together
  BY <1>2, DecideKeeps, ForkLaneKeeps, BodyKeeps, GiveUpKeeps, CheckTogetherKeeps, AbandonKeeps
  DEF Together
<1>3. CASE OneLane
  BY <1>3, GiveUpKeeps, LaneEndsKeeps, RunHaltsKeeps, ConfirmKeeps, MovesKeeps, ClaimsKeeps, LandsKeeps,
     GoesOnKeeps, CommitKeeps, RetireKeeps, ForkFollowerKeeps DEF OneLane
<1>4. CASE Crash
  BY <1>4, CrashKeeps
<1>5. CASE Resume
  BY <1>5, ResumeKeeps
<1>6. CASE \E k \in DOMAIN row : Operator(k)
  BY <1>6, OperatorKeeps
<1> QED
  BY <1>1, <1>2, <1>3, <1>4, <1>5, <1>6 DEF Next

\* Of a group of any size, stopped and resumed anywhere, the inductive invariant holds.
THEOREM Invariance == Spec => []GroupInv
<1>1. GroupInv /\ [Next]_vars => GroupInv'
  BY NextKeeps
<1> QED
  BY Initially, <1>1, PTL DEF Spec

\* A lane's branch, its claim and what the drive keeps of it stay what they are
\* declared to be, and a lane writes only the state keys it may touch.
THEOREM TypeCorrect == Spec => []TypeOK
<1>1. GroupInv => TypeOK
  BY DEF GroupInv
<1> QED
  BY Invariance, <1>1, PTL

\* Every lane forks from the group's position and state however often the group is
\* stopped, never again once it has retired, and the node after the group past every
\* position any lane took: so a write made again is made under its own key.
THEOREM InPlace == Spec => []GroupRunsInPlace
<1>1. ASSUME GroupInv
      PROVE  GroupRunsInPlace
  <2>1. AllInPlace /\ NotAgain
    BY <1>1 DEF GroupInv, History
  <2>2. ASSUME NEW i \in DOMAIN forks, forks[i].node = Follower
        PROVE  /\ forks[i].base = Lanes
               /\ forks[i].step = Max({Early[l] + Late[l] : l \in Lanes})
    BY <2>1, <2>2 DEF AllInPlace, Place, GroupEnd
  <2>3. ASSUME NEW i \in DOMAIN forks, forks[i].node # Follower
        PROVE  /\ forks[i].base = {} /\ forks[i].step = 0
               /\ \A j \in RetiredOnes : forks[j].node = forks[i].node => i <= j
    BY <2>1, <2>3 DEF AllInPlace, Place, NotAgain
  <2> QED
    BY <2>2, <2>3 DEF GroupRunsInPlace
<1> QED
  BY Invariance, <1>1, PTL

\* No write of a group, or of the node after it, reaches upstream twice, however often
\* it is stopped between a claim, a send and what is written down of it.
THEOREM OncePerWrite == Spec => []GroupSendsOnce
<1>1. GroupInv => GroupSendsOnce
  BY DEF GroupInv, History
<1> QED
  BY Invariance, <1>1, PTL

\* The lanes' writes reach upstream in declared order, each only once every lane
\* before it has retired on disk.
THEOREM InDeclaredOrder == Spec => []LanesInOrder
<1>1. GroupInv => LanesInOrder
  BY DEF GroupInv, History
<1> QED
  BY Invariance, <1>1, PTL

\* No two lanes commit a state key that nothing combines, though they retire in
\* different drives.
THEOREM NoOverwrite == Spec => []NoSilentOverwrite
<1>1. GroupInv => NoSilentOverwrite
  BY DEF GroupInv, History
<1> QED
  BY Invariance, <1>1, PTL

\* A drive that ends by itself leaves each branch it forked with an ending on disk, but
\* for the node by itself over a dead letter: confirmed, above a claim of its own.
THEOREM ForksEnd == Spec => []EveryForkResolved
<1>1. GroupInv => EveryForkResolved
  BY DEF GroupInv, Ending, Ended, Forked, EveryForkResolved
<1> QED
  BY Invariance, <1>1, PTL

\* A write leaves only if no lane that retired, in this drive or before a crash, has
\* committed a key its lane had written, or sent what changes what it read.
THEOREM NoClash == Spec => NothingSentOnAClash
<1> DEFINE Clear == \A l \in Lanes : Sends(l) =>
       /\ \A i \in RetiredOnes :
            forks[i].node # l => touched[l] \cap forks[i].wrote \subseteq Reducible
       /\ Reads[l] \cap Landed \subseteq seen[l] \cup {l}
<1>1. GroupInv /\ [Next]_vars => [Clear]_vars
  <2> SUFFICES ASSUME GroupInv, [Next]_vars, NEW l \in Lanes, Sends(l)
               PROVE  /\ \A i \in RetiredOnes :
                            forks[i].node # l => touched[l] \cap forks[i].wrote \subseteq Reducible
                      /\ Reads[l] \cap Landed \subseteq seen[l] \cup {l}
    OBVIOUS
  <2>1. world' # world /\ cur = l
    <3>1. Len(world) \in Nat
      BY LenProperties DEF GroupInv, TypeOK, DiskTypes
    <3> QED
      BY <3>1 DEF Sends
  <2>2. pc = "send"
    BY <2>1 DEF Next, Together, OneLane, vars, disk, Lands, Decide, ForkLane, Rests, Raises,
       GiveUpTogether, CheckTogether, Abandon, LaneClashes, LaneStale, Confirm, NothingToSend,
       Claim, SkipDelivered, Delivered, DeadLetter, GoesOn, RaisesAfter, ClashAtCommit,
       CloseFailed, RunHalts, Commit, Retire, ForkFollower, Crash, Resume, Operator
  <2>3. ~Clashes(l) /\ NotStale(l)
    BY <2>1, <2>2 DEF GroupInv, Cleared
  <2>4. ASSUME NEW i \in RetiredOnes, forks[i].node # l
        PROVE  touched[l] \cap forks[i].wrote \subseteq Reducible
    <3>1. forks[i].node \in Nodes
      BY ForksAre DEF GroupInv, RetiredOnes
    <3>2. CASE forks[i].node = Follower
      BY <3>2 DEF GroupInv, History, Retirements
    <3>3. CASE forks[i].node # Follower
      <4>1. forks[i].node \in Lanes \ {l}
        BY <2>4, <3>1, <3>3
      <4>2. forks[i].wrote \subseteq claimed[forks[i].node]
        BY <2>2, <4>1 DEF GroupInv, ClaimedKeys, Stopped
      <4>3. (touched[l] \cap claimed[forks[i].node]) \ Reducible = {}
        BY <2>3, <4>1 DEF Clashes
      <4> QED
        BY <4>2, <4>3
    <3> QED
      BY <3>2, <3>3
  <2> QED
    BY <2>3, <2>4 DEF NotStale
<1> QED
  BY <1>1, Invariance, PTL DEF Spec, NothingSentOnAClash
=============================================================================
