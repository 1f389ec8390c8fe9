--------------------------- MODULE DecisionProofs ---------------------------
(***************************************************************************)
(* What a node's writes were decided on.                                   *)
(*                                                                         *)
(* The answers: whatever an attempt decides that sends a write, every      *)
(* later attempt of the same code decides, a served node goes on, and a    *)
(* replay does what the attempt that retired did (ServedTurns, for any     *)
(* questions, answers, code and bounds).                                   *)
(*                                                                         *)
(* The reads: a write goes out, and a node retires, on reads that were     *)
(* checked (Reads, for any number of tasks, any scripts, any rows and any  *)
(* number of changes, under the policy that refuses a stale read,          *)
(* "squash", the default of policy.py).                                    *)
(***************************************************************************)
EXTENDS ServedTurns, CheckedReads, SequenceTheorems, FiniteSetTheorems,
        WellFoundedInduction, NaturalsInduction, TLAPS

(***************************************************************************)
(* The largest of a set of offsets.                                        *)
(***************************************************************************)

\* A set of naturals has a least, since < on them is well-founded.
LEMMA LeastExists ==
  ASSUME NEW S \in SUBSET Nat, S # {}
  PROVE  \E x \in S : \A y \in S : x <= y
<1> DEFINE R == {p \in Nat \X Nat : p[1] < p[2]}
<1>1. IsWellFoundedOn(R, Nat)
  BY NatLessThanWellFounded DEF OpToRel
<1>2. PICK x \in S : \A y \in S : ~(<<y, x>> \in R)
  BY <1>1, WFMin
<1>3. ASSUME NEW y \in S, y < x
      PROVE  FALSE
  <2>1. <<y, x>> \in Nat \X Nat /\ <<y, x>>[1] = y /\ <<y, x>>[2] = x
    OBVIOUS
  <2>2. <<y, x>> \in R
    BY <1>3, <2>1
  <2> QED
    BY <1>2, <2>2
<1> QED
  BY <1>3

\* A bounded one has a largest.
LEMMA MaxIs ==
  ASSUME NEW S \in SUBSET Nat, S # {}, NEW b \in Nat, \A x \in S : x <= b
  PROVE  Max(S) \in S /\ \A x \in S : x <= Max(S)
<1> DEFINE T == {b - x : x \in S}
<1>1. T \in SUBSET Nat /\ T # {}
  <2>1. \A x \in S : x \in Nat /\ b - x \in Nat
    OBVIOUS
  <2>2. T \in SUBSET Nat
    BY <2>1
  <2>3. PICK x \in S : TRUE
    OBVIOUS
  <2> QED
    BY <2>2, <2>3
<1>2. PICK y \in T : \A z \in T : y <= z
  <2> HIDE DEF T
  <2> QED BY <1>1, LeastExists
<1>3. PICK x \in S : y = b - x
  BY <1>2
<1>4. \A z \in S : z <= x
  BY <1>2, <1>3
<1> QED
  BY <1>4 DEF Max

LEMMA MaxOnly ==
  ASSUME NEW S \in SUBSET Nat, NEW x \in S, \A y \in S : y <= x
  PROVE  Max(S) = x
<1>1. \A z \in S : (\A y \in S : z >= y) => z = x
  OBVIOUS
<1> QED
  BY <1>1 DEF Max

LEMMA NewestIs ==
  ASSUME NEW S \in SUBSET Nat, NEW b \in Nat, \A x \in S : x <= b
  PROVE  /\ S # {} => Newest(S) \in S
         /\ \A x \in S : x <= Newest(S)
         /\ S = {} => Newest(S) = 0
         /\ \A x \in S : (\A y \in S : y <= x) => Newest(S) = x
<1>1. CASE S = {}
  BY <1>1 DEF Newest
<1>2. CASE S # {}
  BY <1>2, MaxIs, MaxOnly DEF Newest
<1> QED
  BY <1>1, <1>2

(***************************************************************************)
(* A set of offsets in order: Nth.                                         *)
(***************************************************************************)

Rank(R, r) == Cardinality({s \in R : s <= r})

LEMMA RankIs ==
  ASSUME NEW R \in SUBSET Nat, IsFiniteSet(R)
  PROVE  /\ Cardinality(R) \in Nat
         /\ \A r \in R : Rank(R, r) \in 1 .. Cardinality(R)
         /\ \A r, s \in R : r < s => Rank(R, r) < Rank(R, s)
<1>1. ASSUME NEW r \in R
      PROVE  /\ IsFiniteSet({s \in R : s <= r}) /\ Rank(R, r) \in Nat /\ Rank(R, r) >= 1
             /\ Rank(R, r) <= Cardinality(R)
  <2> DEFINE B == {s \in R : s <= r}
  <2>1. B \in SUBSET R /\ r \in B
    OBVIOUS
  <2> HIDE DEF B
  <2>2. IsFiniteSet(B) /\ Cardinality(B) <= Cardinality(R) /\ Cardinality(B) \in Nat
    BY <2>1, FS_Subset, FS_CardinalityType
  <2>3. Cardinality(B) # 0
    BY <2>1, <2>2, FS_EmptySet
  <2>4. Rank(R, r) = Cardinality(B)
    BY DEF Rank, B
  <2> QED
    BY <2>2, <2>3, <2>4 DEF B
<1>2. Cardinality(R) \in Nat
  BY FS_CardinalityType
<1>3. ASSUME NEW r \in R, NEW s \in R, r < s
      PROVE  Rank(R, r) < Rank(R, s)
  <2> DEFINE B == {t \in R : t <= r}
             C == {t \in R : t <= s}
  <2>1. B \in SUBSET C /\ s \in C /\ s \notin B
    <3>1. \A t \in R : t \in Nat
      OBVIOUS
    <3>2. \A t \in R : t <= r => t <= s
      BY <1>3, <3>1
    <3>3. s <= s /\ ~(s <= r)
      BY <1>3, <3>1
    <3> QED
      BY <3>2, <3>3
  <2>2. IsFiniteSet(C) /\ IsFiniteSet(B)
    BY <1>1
  <2>3. Rank(R, r) = Cardinality(B) /\ Rank(R, s) = Cardinality(C)
    BY DEF Rank
  <2> HIDE DEF B, C
  <2>4. Cardinality(B) <= Cardinality(C) /\ Cardinality(B) # Cardinality(C)
    BY <2>1, <2>2, FS_Subset
  <2>5. Cardinality(B) \in Nat /\ Cardinality(C) \in Nat
    BY <2>2, FS_CardinalityType
  <2> QED
    BY <2>3, <2>4, <2>5
<1>4. ASSUME NEW r \in R
      PROVE  Rank(R, r) \in 1 .. Cardinality(R)
  <2>1. Rank(R, r) \in Nat /\ Rank(R, r) >= 1 /\ Rank(R, r) <= Cardinality(R)
    BY <1>1
  <2> QED
    BY <1>2, <2>1
<1>5. \A r, s \in R : r < s => Rank(R, r) < Rank(R, s)
  BY <1>3
<1> QED
  BY <1>2, <1>4, <1>5

\* Each place is taken, by one offset.
LEMMA NthIs ==
  ASSUME NEW R \in SUBSET Nat, IsFiniteSet(R)
  PROVE  /\ Cardinality(R) \in Nat
         /\ \A n \in 1 .. Cardinality(R) : Nth(R, n) \in R /\ Rank(R, Nth(R, n)) = n
         /\ \A r \in R : Rank(R, r) \in 1 .. Cardinality(R) /\ Nth(R, Rank(R, r)) = r
         /\ \A m, n \in 1 .. Cardinality(R) : m < n => Nth(R, m) < Nth(R, n)
<1> DEFINE f == [r \in R |-> Rank(R, r)]
           I == 1 .. Cardinality(R)
<1>1. Cardinality(R) \in Nat /\ \A r, s \in R : r < s => Rank(R, r) < Rank(R, s)
  BY RankIs
<1>2. f \in [R -> I]
  BY RankIs
<1>2a. \A r \in R : f[r] = Rank(R, r) /\ Rank(R, r) \in I
  BY RankIs
<1>2b. I \subseteq Nat
  BY <1>1
<1>3. \A r, s \in R : f[r] = f[s] => r = s
  <2> SUFFICES ASSUME NEW r \in R, NEW s \in R, r # s
               PROVE  Rank(R, r) # Rank(R, s)
    BY <1>2a
  <2>1. r < s \/ s < r
    OBVIOUS
  <2>2. Rank(R, r) \in Nat /\ Rank(R, s) \in Nat
    BY <1>2a, <1>2b
  <2> HIDE DEF f, I
  <2> QED
    BY <1>1, <2>1, <2>2
<1>4. IsFiniteSet(I) /\ Cardinality(I) = Cardinality(R)
  <2>1. Cardinality(R) \in Nat /\ 1 \in Int
    BY <1>1
  <2> QED
    BY <2>1, FS_Interval
<1>5. \A n \in I : \E r \in R : f[r] = n
  <2> HIDE DEF f, I
  <2>1. f \in Injection(R, I)
    BY <1>2, <1>3 DEF Injection, IsInjective
  <2>2. f \in Surjection(R, I)
    BY <1>4, <2>1, FS_Injection
  <2> QED
    BY <2>2 DEF Surjection
<1>6. ASSUME NEW n \in I
      PROVE  Nth(R, n) \in R /\ Rank(R, Nth(R, n)) = n
  <2>1. \E r \in R : Rank(R, r) = n
    BY <1>5
  <2>2. Nth(R, n) = CHOOSE r \in R : Rank(R, r) = n
    BY DEF Nth, Rank
  <2> QED
    BY <2>1, <2>2
<1> HIDE DEF f, I
<1>7. ASSUME NEW r \in R
      PROVE  Nth(R, Rank(R, r)) = r
  <2>1. Nth(R, Rank(R, r)) \in R /\ Rank(R, Nth(R, Rank(R, r))) = Rank(R, r)
    BY <1>6, <1>2a
  <2> QED
    BY <2>1, <1>2a, <1>3
<1>8. ASSUME NEW m \in I, NEW n \in I, m < n
      PROVE  Nth(R, m) < Nth(R, n)
  <2>1. Nth(R, m) \in R /\ Nth(R, n) \in R /\ Rank(R, Nth(R, m)) = m /\ Rank(R, Nth(R, n)) = n
    BY <1>6
  <2>2. Nth(R, m) \in Nat /\ Nth(R, n) \in Nat /\ m \in Nat /\ n \in Nat
    BY <2>1, <1>2b
  <2>3. CASE Nth(R, n) < Nth(R, m)
    BY <1>1, <1>8, <2>1, <2>2, <2>3
  <2>4. CASE Nth(R, n) = Nth(R, m)
    BY <1>8, <2>1, <2>2, <2>4
  <2> QED
    BY <2>2, <2>3, <2>4
<1>9. \A r \in R : Rank(R, r) \in 1 .. Cardinality(R)
  BY RankIs
<1> QED
  BY <1>1, <1>6, <1>7, <1>8, <1>9 DEF I

\* A listing of the set in order is its order.
LEMMA NthListed ==
  ASSUME NEW n \in Nat, NEW f, \A i \in 1 .. n : f[i] \in Nat,
         \A i, j \in 1 .. n : i < j => f[i] < f[j],
         NEW R, \A i \in 1 .. n : f[i] \in R, \A r \in R : \E i \in 1 .. n : r = f[i]
  PROVE  /\ IsFiniteSet(R) /\ R \in SUBSET Nat /\ Cardinality(R) = n
         /\ \A i \in 1 .. n : Nth(R, i) = f[i]
<1>1. R \in SUBSET Nat /\ R = {f[i] : i \in 1 .. n}
  OBVIOUS
<1>2. ASSUME NEW m \in 0 .. n
      PROVE  LET B == {f[i] : i \in 1 .. m} IN IsFiniteSet(B) /\ Cardinality(B) = m
  <2> DEFINE B == {f[i] : i \in 1 .. m}
             g == [i \in 1 .. m |-> f[i]]
  <2>1. g \in [1 .. m -> B]
    OBVIOUS
  <2>2. \A i, j \in 1 .. m : g[i] = g[j] => i = j
    <3> SUFFICES ASSUME NEW i \in 1 .. m, NEW j \in 1 .. m, i # j PROVE f[i] # f[j]
      OBVIOUS
    <3>1. i \in 1 .. n /\ j \in 1 .. n /\ (i < j \/ j < i) /\ f[i] \in Nat /\ f[j] \in Nat
      OBVIOUS
    <3> QED
      BY <3>1
  <2>3. \A x \in B : \E i \in 1 .. m : g[i] = x
    OBVIOUS
  <2>4. IsFiniteSet(1 .. m) /\ Cardinality(1 .. m) = m
    <3>1. 1 \in Int /\ m \in Int /\ m >= 0
      OBVIOUS
    <3> QED
      BY <3>1, FS_Interval
  <2> HIDE DEF g, B
  <2>5. g \in Bijection(1 .. m, B)
    BY <2>1, <2>2, <2>3 DEF Bijection, Injection, IsInjective, Surjection
  <2>6. ExistsBijection(1 .. m, B)
    BY <2>5 DEF ExistsBijection
  <2> QED
    BY <2>4, <2>6, FS_Bijection DEF B
<1>3. IsFiniteSet(R) /\ Cardinality(R) = n
  BY <1>1, <1>2
<1>4. ASSUME NEW i \in 1 .. n
      PROVE  f[i] \in R /\ Rank(R, f[i]) = i
  <2>1. {s \in R : s <= f[i]} = {f[j] : j \in 1 .. i}
    <3>1. ASSUME NEW j \in 1 .. n
          PROVE  f[j] <= f[i] <=> j <= i
      <4>1. f[i] \in Nat /\ f[j] \in Nat /\ (i < j => f[i] < f[j]) /\ (j < i => f[j] < f[i])
        OBVIOUS
      <4>2. i < j \/ j < i \/ i = j
        OBVIOUS
      <4> QED
        BY <4>1, <4>2
    <3>2. ASSUME NEW s \in R, s <= f[i]
          PROVE  s \in {f[j] : j \in 1 .. i}
      <4>1. PICK j \in 1 .. n : s = f[j]
        OBVIOUS
      <4>2. j \in 1 .. i
        BY <3>1, <3>2, <4>1
      <4> QED
        BY <4>1, <4>2
    <3>3. ASSUME NEW j \in 1 .. i
          PROVE  f[j] \in R /\ f[j] <= f[i]
      <4>1. j \in 1 .. n /\ j <= i
        OBVIOUS
      <4> QED
        BY <4>1, <3>1
    <3> QED
      BY <3>2, <3>3
  <2>2. i \in 0 .. n
    OBVIOUS
  <2> QED
    BY <1>2, <2>1, <2>2 DEF Rank
<1>5. ASSUME NEW i \in 1 .. n
      PROVE  Nth(R, i) = f[i]
  <2>1. f[i] \in R /\ Rank(R, f[i]) = i
    BY <1>4
  <2>2. \A r \in R : Nth(R, Rank(R, r)) = r
    BY <1>1, <1>3, NthIs
  <2> QED
    BY <2>1, <2>2
<1> QED
  BY <1>1, <1>3, <1>5

(***************************************************************************)
(* The inductive invariant.                                                *)
(***************************************************************************)

\* Histories that agree as far as both go: one begins with the other.
Agree(d, e) == \A k \in DOMAIN d \cap DOMAIN e : d[k] = e[k]
Upto(d, n) == SubSeq(d, 1, n)
EndsIn(d, does) == d # <<>> /\ d[Len(d)].does = does

\* What is seen follows a wait, and is of a call that was asked and is read; nothing
\* follows a return.
SoundAt(d, k) ==
  /\ d[k].does # "return"
  /\ d[k].does = "see" <=> k > 1 /\ d[k - 1].does = "wait"
  /\ d[k].does = "see" =>
       \E j \in 1 .. k - 1 :
         /\ d[j].does = "ask" /\ d[j].call = d[k].call
         /\ \/ d[j].of \notin Streamed
            \/ \E m \in 1 .. k - 1 : d[m].does = "wait" /\ d[m].call = d[k].call
Sound(d) == \A k \in DOMAIN d : SoundAt(d, k)

\* Its decisions are those of code that decides as p does.
Follows(p, d) ==
  \A k \in DOMAIN d : d[k].does # "see" =>
    Upto(d, k - 1) \in DOMAIN p /\ p[Upto(d, k - 1)] = d[k]

IsSent(c, e) == e \in DOMAIN c /\ c[e].state = "sent"

\* Its writes have been sent, says the claim table c.
WritesSent(c, n, d) ==
  \A k \in DOMAIN d : d[k].does = "write" =>
    IsSent(c, [code |-> n, nth |-> d[k].call, from |-> Upto(d, k - 1)])

\* It saw the turns T of journal J, in their order, and asked for no other.
ToldBy(J, T, d) ==
  /\ \A k \in DOMAIN d :
       /\ d[k].does = "ask" =>
            d[k].call \in DOMAIN T /\ J[J[T[d[k].call]].of].question = d[k].of
       /\ d[k].does = "see" =>
            /\ d[k].call \in DOMAIN T /\ J[T[d[k].call]].what = d[k].of
            /\ \A j \in 1 .. k - 1 : d[j].does = "see" => T[d[j].call] < T[d[k].call]
  /\ \A i \in DOMAIN T : \E k \in DOMAIN d : d[k].does = "see" /\ d[k].call = i

\* The turns of the questions attempt a asked before offset o, as J has them.
OutcomesIn(J, r) == {o \in DOMAIN J : J[o].kind = "response" /\ J[o].of = r}
AskedBefore(J, a, o) ==
  {r \in DOMAIN J : J[r].kind = "request" /\ J[r].by = a /\ OutcomesIn(J, r) # {} /\ r < o}
TurnsBefore(J, a, o) ==
  LET R == AskedBefore(J, a, o)
  IN  [i \in 1 .. Cardinality(R) |-> Newest(OutcomesIn(J, Nth(R, i)))]

\* An entry is of one of the attempts, in their order; a response is of a question
\* the same attempt asked before.
JournalIs ==
  /\ \A o \in DOMAIN journal : journal[o].by \in DOMAIN code
  /\ \A o, p \in DOMAIN journal : o < p => journal[o].by <= journal[p].by
  /\ \A o \in DOMAIN journal : journal[o].kind = "response" =>
       /\ journal[o].of \in DOMAIN journal /\ journal[o].of < o
       /\ journal[journal[o].of].kind = "request"
       /\ journal[journal[o].of].by = journal[o].by

CodeIs == \A a, b \in DOMAIN code : a <= b => code[a] <= code[b]

Stagings(J) == {o \in DOMAIN J : J[o].kind = "staged"}

\* A write was decided on the turns of what its attempt had asked before, all of
\* them seen; the code that decided on it would again, if it still is the code.
StagedAre ==
  \A o \in Stagings(journal) : \A e \in {journal[o].effect} :
    /\ e.code = code[journal[o].by]
    /\ Sound(e.from) /\ ~EndsIn(e.from, "wait")
    /\ ToldBy(journal, TurnsBefore(journal, journal[o].by, o), e.from)
    /\ \A k \in DOMAIN e.from : e.from[k].does = "write" => e.from[k].call < e.nth
    /\ WritesSent(claims, e.code, e.from)
    /\ e.code = mine =>
         /\ Follows(plan, e.from)
         /\ e.from \in DOMAIN plan /\ plan[e.from] = Step("write", e.nth, Nothing)

\* The staging of a write that its attempt was the one to send.
Sends(J, c, o) ==
  /\ o \in Stagings(J) /\ IsSent(c, J[o].effect) /\ c[J[o].effect].by = J[o].by

ClaimsAre ==
  \A e \in DOMAIN claims :
    /\ claims[e].by \in DOMAIN code /\ e.code <= mine
    /\ claims[e].state = "sent" => \E o \in DOMAIN journal :
         Sends(journal, claims, o) /\ journal[o].effect = e

\* What the code that runs has sent, each time it sent more, was decided on more of
\* one history.
Chain ==
  \A o, p \in DOMAIN journal :
    /\ Sends(journal, claims, o) /\ Sends(journal, claims, p) /\ o <= p
    /\ journal[o].effect.code = mine /\ journal[p].effect.code = mine
    => /\ Agree(journal[o].effect.from, journal[p].effect.from)
       /\ Len(journal[o].effect.from) <= Len(journal[p].effect.from)

\* The calls are the questions of the history, those that are over the ones it saw.
CallsAre ==
  /\ \A k \in DOMAIN did :
       /\ did[k].does = "ask" =>
            did[k].call \in DOMAIN calls /\ did[k].of = calls[did[k].call].question
       /\ did[k].does = "see" => did[k].call \in DOMAIN calls /\ calls[did[k].call].state = "over"
       /\ did[k].does = "wait" /\ did[k].call # 0 =>
            did[k].call \in DOMAIN calls /\ calls[did[k].call].read
       /\ did[k].does = "write" => did[k].call <= wrote
  /\ \A i \in DOMAIN calls :
       /\ \E k \in DOMAIN did : did[k].does = "ask" /\ did[k].call = i
       /\ calls[i].state = "over" => \E k \in DOMAIN did : did[k].does = "see" /\ did[k].call = i
       /\ calls[i].question \notin Streamed => calls[i].read
       /\ calls[i].read => \/ calls[i].question \notin Streamed
                           \/ \E k \in DOMAIN did : did[k].does = "wait" /\ did[k].call = i
       /\ calls[i].state = "written" => calls[i].read /\ Live
       /\ calls[i].state = "expired" => node = "halted"

NodeIs ==
  /\ Sound(did) /\ Follows(plan, did)
  /\ node \in {"waiting", "halted"} <=> EndsIn(did, "wait")
  /\ node = "waiting" => \E k \in DOMAIN calls : calls[k].read /\ Unfinished(k)
  /\ node = "down" => calls = <<>> /\ did = <<>> /\ wrote = 0 /\ ~asking /\ Live
  /\ node = "parked" =>
       /\ Live /\ did \in DOMAIN plan /\ plan[did] = Writes
       /\ Len(journal) \in Stagings(journal)
       /\ journal[Len(journal)].effect = Effect /\ journal[Len(journal)].by = me

\* What the journal has of the attempt that runs.
Own ==
  Live /\ node # "down" =>
    /\ WritesSent(claims, mine, did)
    /\ \A r \in DOMAIN journal : journal[r].kind = "request" /\ journal[r].by = me =>
         \E i \in DOMAIN calls : calls[i].request = r
    /\ \A i \in DOMAIN calls :
         /\ calls[i].request \in DOMAIN journal
         /\ journal[calls[i].request].kind = "request" /\ journal[calls[i].request].by = me
         /\ journal[calls[i].request].question = calls[i].question
         /\ \A j \in DOMAIN calls : i < j => calls[i].request < calls[j].request
         /\ calls[i].state = "open" => Outcomes(calls[i].request) = {}
         /\ calls[i].state \in {"written", "over"} =>
              /\ calls[i].told \in Outcomes(calls[i].request)
              /\ \A o \in Outcomes(calls[i].request) : o <= calls[i].told
    /\ \A k \in DOMAIN did : did[k].does = "see" =>
         /\ journal[calls[did[k].call].told].what = did[k].of
         /\ \A j \in 1 .. k - 1 :
              did[j].does = "see" => calls[did[j].call].told < calls[did[k].call].told
         /\ \A i \in DOMAIN calls :
              calls[i].state = "written" => calls[did[k].call].told < calls[i].told
    /\ \A o \in Stagings(journal) : journal[o].by = me =>
         /\ \A i \in DOMAIN calls : Unfinished(i) => calls[i].request > o
         /\ Agree(journal[o].effect.from, did)
         /\ \/ Len(journal[o].effect.from) < Len(did)
            \/ node = "parked" /\ o = Len(journal)

\* Where an attempt does again what has been sent, or a replay what retired: so far
\* it did and saw the same, its calls are served the same turns T, and of those none
\* has come back before an earlier one.
Lock(d, T) ==
  /\ Agree(did, d)
  /\ \A i \in DOMAIN calls \cap DOMAIN T :
       /\ calls[i].turn = T[i] /\ calls[i].state # "expired"
       /\ calls[i].state = "written" => journal[calls[i].told].what = journal[T[i]].what
       /\ calls[i].state # "open" =>
            /\ \A m \in DOMAIN T : T[m] < T[i] => m \in DOMAIN calls
            /\ \A j \in DOMAIN calls \cap DOMAIN T :
                 /\ calls[j].state = "open" => T[i] < T[j]
                 /\ Live /\ calls[j].state # "open" /\ T[i] < T[j] =>
                      calls[i].told < calls[j].told

\* The attempt that did most of what the code that runs has sent: d, on turns T.
Guides(o) ==
  Sends(journal, claims, o) /\ journal[o].by < me /\ code[journal[o].by] = mine
TheGuide(o) == Guides(o) /\ \A p \in DOMAIN journal : Guides(p) => p <= o

Guided ==
  Live =>
    /\ \A o \in DOMAIN journal : TheGuide(o) =>
         \A d \in {journal[o].effect.from}, T \in {TurnsBefore(journal, journal[o].by, o)} :
           /\ Lock(d, T)
           /\ asking => Len(calls) > Len(T)
           /\ \A i \in DOMAIN calls : Served(i) /\ SameCode(i) => i \in DOMAIN T
    /\ (\A o \in DOMAIN journal : ~Guides(o)) =>
         \A i \in DOMAIN calls : Served(i) => ~SameCode(i)
    /\ \A i \in DOMAIN calls : Served(i) =>
         /\ calls[i].turn \in DOMAIN journal /\ TurnOf(i).kind = "response"
         /\ TurnOf(i).by \in 1 .. me - 1

\* What the attempt that retired did, its replay does.
KeptIs ==
  node = "returned" \/ replayed =>
    /\ kept.by = me /\ Sound(kept.did) /\ Follows(plan, kept.did)
    /\ kept.did \in DOMAIN plan /\ plan[kept.did] = Returns
    /\ ~EndsIn(kept.did, "wait")
    /\ ToldBy(journal, Kept, kept.did)

Replaying ==
  replayed =>
    /\ node \in {"deciding", "waiting", "returned"}
    /\ Len(did) <= Len(kept.did)
    /\ \A d \in {kept.did}, T \in {Kept} : Lock(d, T)
    /\ \A i \in DOMAIN calls : i \in DOMAIN Kept
    /\ node = "returned" => Len(did) = Len(kept.did)

IInv ==
  /\ TypeOK
  /\ JournalIs /\ CodeIs /\ StagedAre /\ ClaimsAre /\ Chain
  /\ CallsAre /\ NodeIs /\ Own /\ Guided /\ KeptIs /\ Replaying
  /\ OneDecision /\ ServedNodeGoesOn

(***************************************************************************)
(* Histories.                                                              *)
(***************************************************************************)

LEMMA AppendIs ==
  ASSUME NEW S, NEW s \in Seq(S), NEW x \in S
  PROVE  /\ Append(s, x) \in Seq(S) /\ Len(s) \in Nat /\ Len(Append(s, x)) = Len(s) + 1
         /\ DOMAIN s = 1 .. Len(s) /\ DOMAIN Append(s, x) = 1 .. Len(s) + 1
         /\ \A k \in DOMAIN s : k \in DOMAIN Append(s, x) /\ Append(s, x)[k] = s[k]
         /\ Append(s, x)[Len(s) + 1] = x
         /\ \A k \in DOMAIN Append(s, x) : k \in DOMAIN s \/ k = Len(s) + 1
         /\ Append(s, x) # <<>>
<1>1. /\ Append(s, x) \in Seq(S) /\ Len(Append(s, x)) = Len(s) + 1
      /\ \A k \in 1 .. Len(s) : Append(s, x)[k] = s[k]
      /\ Append(s, x)[Len(s) + 1] = x /\ Append(s, x) # <<>>
  BY AppendProperties
<1>2. Len(s) \in Nat /\ DOMAIN s = 1 .. Len(s) /\ DOMAIN Append(s, x) = 1 .. Len(s) + 1
  BY <1>1, LenProperties
<1> QED
  BY <1>1, <1>2

LEMMA HistoryIs ==
  ASSUME NEW d \in Histories
  PROVE  /\ Len(d) \in Nat /\ DOMAIN d = 1 .. Len(d)
         /\ \A k \in DOMAIN d : /\ k \in Nat /\ d[k] \in Steps /\ d[k].call \in Nat
                                /\ d[k] = Step(d[k].does, d[k].call, d[k].of)
                                /\ d[k].does \in {"ask", "wait", "write", "return", "see"}
         /\ d # <<>> <=> Len(d) > 0
<1>1. d \in Seq(Steps)
  BY DEF Histories
<1>2. /\ Len(d) \in Nat /\ DOMAIN d = 1 .. Len(d) /\ \A k \in DOMAIN d : d[k] \in Steps
  BY <1>1, LenProperties
<1>3. \A s \in Steps : /\ s.call \in Nat /\ s = Step(s.does, s.call, s.of)
                       /\ s.does \in {"ask", "wait", "write", "return", "see"}
  BY DEF Steps, Step
<1>4. d # <<>> <=> Len(d) > 0
  BY <1>1, <1>2, EmptySeq
<1> QED
  BY <1>2, <1>3, <1>4

LEMMA UptoIs ==
  ASSUME NEW d \in Histories, NEW n \in 0 .. Len(d)
  PROVE  /\ Upto(d, n) \in Histories /\ Len(Upto(d, n)) = n
         /\ \A k \in 1 .. n : Upto(d, n)[k] = d[k]
<1>1. Len(d) \in Nat /\ \A k \in 1 .. Len(d) : d[k] \in Steps
  BY HistoryIs
<1>2. \A k \in 1 .. n : d[k] \in Steps
  BY <1>1
<1>3. 1 \in Int /\ n \in Int
  BY <1>1
<1>4. /\ SubSeq(d, 1, n) \in Seq(Steps) /\ Len(SubSeq(d, 1, n)) = IF 1 <= n THEN n - 1 + 1 ELSE 0
      /\ \A k \in 1 .. n - 1 + 1 : SubSeq(d, 1, n)[k] = d[1 + k - 1]
  BY <1>2, <1>3, SubSeqProperties
<1>5. n - 1 + 1 = n /\ (~(1 <= n) => n = 0) /\ \A k \in 1 .. n : 1 + k - 1 = k
  BY <1>1
<1> QED
  BY <1>4, <1>5 DEF Upto, Histories

LEMMA SameHistory ==
  ASSUME NEW d \in Histories, NEW e \in Histories, Len(d) = Len(e), Agree(d, e)
  PROVE  d = e
<1>1. d \in Seq(Steps) /\ e \in Seq(Steps)
  BY DEF Histories
<1>2. DOMAIN d = 1 .. Len(d) /\ DOMAIN e = 1 .. Len(e)
  BY HistoryIs
<1>3. \A k \in 1 .. Len(d) : d[k] = e[k]
  BY <1>2 DEF Agree
<1> QED
  BY <1>1, <1>3, SeqEqual

\* Two that agree begin with the same steps.
LEMMA SameBeginning ==
  ASSUME NEW d \in Histories, NEW e \in Histories, Agree(d, e),
         NEW n \in 0 .. Len(d), n \in 0 .. Len(e)
  PROVE  Upto(d, n) = Upto(e, n)
<1>1. /\ Upto(d, n) \in Histories /\ Len(Upto(d, n)) = n /\ \A k \in 1 .. n : Upto(d, n)[k] = d[k]
      /\ Upto(e, n) \in Histories /\ Len(Upto(e, n)) = n /\ \A k \in 1 .. n : Upto(e, n)[k] = e[k]
  BY UptoIs
<1>2. DOMAIN d = 1 .. Len(d) /\ DOMAIN e = 1 .. Len(e) /\ Len(d) \in Nat /\ Len(e) \in Nat
  BY HistoryIs
<1>3. \A k \in 1 .. n : k \in DOMAIN d /\ k \in DOMAIN e
  BY <1>2
<1>4. \A k \in 1 .. n : d[k] = e[k]
  BY <1>3 DEF Agree
<1>5. DOMAIN Upto(d, n) = 1 .. n /\ DOMAIN Upto(e, n) = 1 .. n
  BY <1>1, HistoryIs
<1>6. Agree(Upto(d, n), Upto(e, n))
  BY <1>1, <1>4, <1>5 DEF Agree
<1> QED
  BY <1>1, <1>6, SameHistory

LEMMA WholeOf ==
  ASSUME NEW d \in Histories
  PROVE  Upto(d, Len(d)) = d
<1>1. d \in Seq(Steps)
  BY DEF Histories
<1> QED
  BY <1>1, SubSeqFull DEF Upto

\* The shorter of two that agree is where the longer was.
LEMMA Shorter ==
  ASSUME NEW d \in Histories, NEW e \in Histories, Agree(d, e), Len(d) <= Len(e)
  PROVE  Upto(e, Len(d)) = d
<1>1. Len(d) \in 0 .. Len(d) /\ Len(d) \in 0 .. Len(e)
  BY HistoryIs
<1> QED
  BY <1>1, SameBeginning, WholeOf

\* A step more.
LEMMA Longer ==
  ASSUME NEW d \in Histories, NEW x \in Steps
  PROVE  /\ Append(d, x) \in Histories /\ Len(Append(d, x)) = Len(d) + 1
         /\ Len(d) \in Nat /\ DOMAIN d = 1 .. Len(d)
         /\ DOMAIN Append(d, x) = 1 .. Len(d) + 1
         /\ \A k \in DOMAIN d : k \in DOMAIN Append(d, x) /\ Append(d, x)[k] = d[k]
         /\ Append(d, x)[Len(d) + 1] = x
         /\ \A k \in DOMAIN Append(d, x) : k \in DOMAIN d \/ k = Len(d) + 1
         /\ \A k \in DOMAIN d : Upto(Append(d, x), k - 1) = Upto(d, k - 1)
         /\ Upto(Append(d, x), Len(d)) = d
         /\ Agree(d, Append(d, x))
<1>1. d \in Seq(Steps)
  BY DEF Histories
<1>2. /\ Append(d, x) \in Histories /\ Len(Append(d, x)) = Len(d) + 1
      /\ Len(d) \in Nat /\ DOMAIN d = 1 .. Len(d)
      /\ DOMAIN Append(d, x) = 1 .. Len(d) + 1
      /\ \A k \in DOMAIN d : k \in DOMAIN Append(d, x) /\ Append(d, x)[k] = d[k]
      /\ Append(d, x)[Len(d) + 1] = x
      /\ \A k \in DOMAIN Append(d, x) : k \in DOMAIN d \/ k = Len(d) + 1
  BY <1>1, AppendIs DEF Histories
<1>3. Agree(d, Append(d, x))
  BY <1>2 DEF Agree
<1>4. ASSUME NEW k \in DOMAIN d
      PROVE  Upto(Append(d, x), k - 1) = Upto(d, k - 1)
  <2>1. k - 1 \in 0 .. Len(d) /\ k - 1 \in 0 .. Len(Append(d, x))
    BY <1>2
  <2> QED
    BY <1>2, <1>3, <2>1, SameBeginning
<1>5. Upto(Append(d, x), Len(d)) = d
  <2>1. Len(d) <= Len(Append(d, x))
    BY <1>2
  <2> QED
    BY <1>2, <1>3, <2>1, Shorter
<1> QED
  BY <1>2, <1>3, <1>4, <1>5

LEMMA EndsInIs ==
  ASSUME NEW d \in Histories, NEW x \in Steps
  PROVE  /\ \A does : EndsIn(Append(d, x), does) <=> x.does = does
         /\ ~EndsIn(<<>>, "wait") /\ ~EndsIn(<<>>, "see")
<1>1. Append(d, x) # <<>> /\ Len(Append(d, x)) = Len(d) + 1 /\ Append(d, x)[Len(d) + 1] = x
  <2>1. d \in Seq(Steps)
    BY DEF Histories
  <2> QED
    BY <2>1, AppendIs
<1> QED
  BY <1>1 DEF EndsIn

LEMMA SoundDecides ==
  ASSUME NEW d \in Histories, NEW x \in Steps, Sound(d), x.does \notin {"see", "return"},
         ~EndsIn(d, "wait")
  PROVE  Sound(Append(d, x))
<1> DEFINE e == Append(d, x)
<1>1. /\ Len(d) \in Nat /\ DOMAIN d = 1 .. Len(d) /\ DOMAIN e = 1 .. Len(d) + 1
      /\ \A k \in DOMAIN d : k \in DOMAIN e /\ e[k] = d[k]
      /\ e[Len(d) + 1] = x
      /\ d # <<>> <=> Len(d) > 0
  BY Longer, HistoryIs
<1> HIDE DEF e
<1>2. ASSUME NEW k \in DOMAIN d
      PROVE  SoundAt(e, k)
  <2>1. e[k] = d[k] /\ \A j \in 1 .. k - 1 : e[j] = d[j]
    BY <1>1
  <2>2. k > 1 => k - 1 \in 1 .. k - 1
    BY <1>1
  <2> QED
    BY <2>1, <2>2 DEF Sound, SoundAt
<1>3. CASE Len(d) = 0
  <2>1. 1 \in DOMAIN e /\ e[1] = x /\ \A k \in DOMAIN e : k = 1
    BY <1>1, <1>3
  <2>2. Sound(e)
    BY <2>1 DEF Sound, SoundAt
  <2> QED
    BY <2>2 DEF e
<1>4. CASE Len(d) # 0
  <2>1. Len(d) \in DOMAIN d /\ d # <<>>
    BY <1>1, <1>4
  <2>2. d[Len(d)].does # "wait"
    BY <2>1 DEF EndsIn
  <2>3. e[Len(d) + 1 - 1].does # "wait"
    <3>1. Len(d) + 1 - 1 = Len(d)
      BY <1>1
    <3> QED
      BY <1>1, <2>1, <2>2, <3>1
  <2>4. \A k \in DOMAIN e : k \in DOMAIN d \/ k = Len(d) + 1
    BY <1>1
  <2>5. SoundAt(e, Len(d) + 1)
    BY <1>1, <2>3 DEF SoundAt
  <2>6. Sound(e)
    BY <1>2, <2>4, <2>5 DEF Sound
  <2> QED
    BY <2>6 DEF e
<1> QED
  BY <1>3, <1>4

LEMMA SoundSees ==
  ASSUME NEW d \in Histories, NEW x \in Steps, Sound(d), x.does = "see", EndsIn(d, "wait"),
         \E j \in DOMAIN d :
           /\ d[j].does = "ask" /\ d[j].call = x.call
           /\ \/ d[j].of \notin Streamed
              \/ \E m \in DOMAIN d : d[m].does = "wait" /\ d[m].call = x.call
  PROVE  Sound(Append(d, x))
<1> DEFINE e == Append(d, x)
<1>1. /\ Len(d) \in Nat /\ DOMAIN d = 1 .. Len(d) /\ DOMAIN e = 1 .. Len(d) + 1
      /\ \A k \in DOMAIN d : k \in DOMAIN e /\ e[k] = d[k]
      /\ e[Len(d) + 1] = x
      /\ d # <<>> <=> Len(d) > 0
  BY Longer, HistoryIs
<1> HIDE DEF e
<1>2. ASSUME NEW k \in DOMAIN d
      PROVE  SoundAt(e, k)
  <2>1. e[k] = d[k] /\ \A j \in 1 .. k - 1 : e[j] = d[j]
    BY <1>1
  <2>2. k > 1 => k - 1 \in 1 .. k - 1
    BY <1>1
  <2> QED
    BY <2>1, <2>2 DEF Sound, SoundAt
<1>3. Len(d) > 0 /\ d[Len(d)].does = "wait"
  BY <1>1 DEF EndsIn
<1>4. Len(d) + 1 - 1 = Len(d) /\ Len(d) + 1 > 1 /\ Len(d) \in DOMAIN d
  BY <1>1, <1>3
<1>5. e[Len(d) + 1].does = "see" /\ e[Len(d) + 1 - 1].does = "wait"
  BY <1>1, <1>3, <1>4
<1>6. \E j \in 1 .. Len(d) + 1 - 1 :
        /\ e[j].does = "ask" /\ e[j].call = e[Len(d) + 1].call
        /\ \/ e[j].of \notin Streamed
           \/ \E m \in 1 .. Len(d) + 1 - 1 : e[m].does = "wait" /\ e[m].call = e[Len(d) + 1].call
  <2>1. 1 .. Len(d) + 1 - 1 = DOMAIN d
    BY <1>1, <1>4
  <2> QED
    BY <1>1, <2>1
<1>7. SoundAt(e, Len(d) + 1)
  BY <1>4, <1>5, <1>6 DEF SoundAt
<1>8. Sound(e)
  BY <1>1, <1>2, <1>7 DEF Sound
<1> QED
  BY <1>8 DEF e

\* What code decides is found in what it has decided so far.
LEMMA FollowsMore ==
  ASSUME NEW p, NEW q, NEW d, Follows(p, d),
         DOMAIN p \subseteq DOMAIN q, \A h \in DOMAIN p : q[h] = p[h]
  PROVE  Follows(q, d)
BY DEF Follows

LEMMA FollowsStep ==
  ASSUME NEW p, NEW d \in Histories, NEW x \in Steps, Follows(p, d),
         x.does # "see" => d \in DOMAIN p /\ p[d] = x
  PROVE  Follows(p, Append(d, x))
<1> DEFINE e == Append(d, x)
<1>1. /\ Len(d) \in Nat
      /\ \A k \in DOMAIN d : e[k] = d[k] /\ Upto(e, k - 1) = Upto(d, k - 1)
      /\ e[Len(d) + 1] = x /\ Upto(e, Len(d)) = d
      /\ \A k \in DOMAIN e : k \in DOMAIN d \/ k = Len(d) + 1
  BY Longer
<1>2. Len(d) + 1 - 1 = Len(d)
  BY <1>1
<1> HIDE DEF e
<1>3. Follows(p, e)
  BY <1>1, <1>2 DEF Follows
<1> QED
  BY <1>3 DEF e

\* Code that decides as it did goes on where it was as it went on then.
LEMMA NextStep ==
  ASSUME NEW p, NEW h \in Histories, NEW d \in Histories,
         Agree(h, d), Sound(d), Follows(p, d), ~EndsIn(h, "wait"), Len(h) < Len(d)
  PROVE  /\ Len(h) + 1 \in DOMAIN d /\ d[Len(h) + 1].does # "see"
         /\ h \in DOMAIN p /\ p[h] = d[Len(h) + 1]
<1>1. /\ Len(h) \in Nat /\ Len(d) \in Nat /\ DOMAIN d = 1 .. Len(d) /\ DOMAIN h = 1 .. Len(h)
      /\ h # <<>> <=> Len(h) > 0
  BY HistoryIs
<1>2. Len(h) + 1 \in DOMAIN d /\ Len(h) + 1 - 1 = Len(h)
  BY <1>1
<1>3. d[Len(h) + 1].does # "see"
  <2>1. CASE Len(h) = 0
    BY <1>1, <1>2, <2>1 DEF Sound, SoundAt
  <2>2. CASE Len(h) > 0
    <3>1. Len(h) \in DOMAIN h /\ Len(h) \in DOMAIN d
      BY <1>1, <2>2
    <3>2. d[Len(h)] = h[Len(h)]
      BY <3>1 DEF Agree
    <3>3. d[Len(h)].does # "wait"
      BY <1>1, <2>2, <3>2 DEF EndsIn
    <3> QED
      BY <1>2, <3>3 DEF Sound, SoundAt
  <2> QED
    BY <1>1, <2>1, <2>2
<1>4. Upto(d, Len(h)) = h
  BY <1>1, Shorter
<1> QED
  BY <1>2, <1>3, <1>4 DEF Follows

\* One that agrees, and ends where it was, has the same next step.
LEMMA AgreeStep ==
  ASSUME NEW h \in Histories, NEW d \in Histories, NEW x \in Steps, Agree(h, d),
         Len(h) < Len(d) => d[Len(h) + 1] = x
  PROVE  Agree(Append(h, x), d)
<1>1. /\ Len(h) \in Nat /\ \A k \in DOMAIN h : Append(h, x)[k] = h[k]
      /\ Append(h, x)[Len(h) + 1] = x
      /\ \A k \in DOMAIN Append(h, x) : k \in DOMAIN h \/ k = Len(h) + 1
  BY Longer
<1>2. Len(d) \in Nat /\ DOMAIN d = 1 .. Len(d)
  BY HistoryIs
<1>3. Len(h) + 1 \in DOMAIN d => Len(h) < Len(d)
  BY <1>1, <1>2
<1> QED
  BY <1>1, <1>3 DEF Agree

LEMMA SentMore ==
  ASSUME NEW c, NEW cc, NEW n, NEW d, WritesSent(c, n, d),
         \A e : IsSent(c, e) => IsSent(cc, e)
  PROVE  WritesSent(cc, n, d)
BY DEF WritesSent

LEMMA SentStep ==
  ASSUME NEW c, NEW n, NEW d \in Histories, NEW x \in Steps, WritesSent(c, n, d),
         x.does = "write" => IsSent(c, [code |-> n, nth |-> x.call, from |-> d])
  PROVE  WritesSent(c, n, Append(d, x))
<1> DEFINE e == Append(d, x)
<1>1. /\ Len(d) \in Nat
      /\ \A k \in DOMAIN d : e[k] = d[k] /\ Upto(e, k - 1) = Upto(d, k - 1)
      /\ e[Len(d) + 1] = x /\ Upto(e, Len(d)) = d
      /\ \A k \in DOMAIN e : k \in DOMAIN d \/ k = Len(d) + 1
  BY Longer
<1>2. Len(d) + 1 - 1 = Len(d)
  BY <1>1
<1> HIDE DEF e
<1>3. WritesSent(c, n, e)
  BY <1>1, <1>2 DEF WritesSent
<1> QED
  BY <1>3 DEF e

(***************************************************************************)
(* The journal, and the turns a history was told.                          *)
(***************************************************************************)

LEMMA EntriesAre ==
  ASSUME NEW J \in Seq(Entries)
  PROVE  /\ Len(J) \in Nat /\ DOMAIN J = 1 .. Len(J)
         /\ \A o \in DOMAIN J :
              /\ o \in Nat /\ J[o] \in Entries /\ J[o].by \in Nat
              /\ J[o].kind \in {"request", "response", "staged"}
              /\ J[o].kind = "response" => /\ J[o].of \in Nat /\ J[o].origin \in Nat
                                           /\ J[o].what \in Answers \cup {GaveUp}
              /\ J[o].kind = "request" => J[o].question \in Questions
              /\ J[o].kind = "staged" => /\ J[o].effect \in Effects /\ J[o].effect.from \in Histories
                                         /\ J[o].effect.nth \in Nat /\ J[o].effect.code \in Nat
<1>1. Len(J) \in Nat /\ DOMAIN J = 1 .. Len(J) /\ \A o \in DOMAIN J : J[o] \in Entries
  BY LenProperties
<1>2. ASSUME NEW x \in Entries
      PROVE  /\ x.by \in Nat /\ x.kind \in {"request", "response", "staged"}
             /\ x.kind = "response" => x.of \in Nat /\ x.origin \in Nat /\ x.what \in Answers \cup {GaveUp}
             /\ x.kind = "request" => x.question \in Questions
             /\ x.kind = "staged" => /\ x.effect \in Effects /\ x.effect.from \in Histories
                                     /\ x.effect.nth \in Nat /\ x.effect.code \in Nat
  BY DEF Entries, Effects
<1> QED
  BY <1>1, <1>2

LEMMA TurnsAre ==
  ASSUME NEW J \in Seq(Entries), NEW a, NEW o
  PROVE  /\ AskedBefore(J, a, o) \in SUBSET Nat /\ IsFiniteSet(AskedBefore(J, a, o))
         /\ Len(TurnsBefore(J, a, o)) = Cardinality(AskedBefore(J, a, o))
         /\ Len(TurnsBefore(J, a, o)) \in Nat
         /\ DOMAIN TurnsBefore(J, a, o) = 1 .. Len(TurnsBefore(J, a, o))
         /\ \A i \in DOMAIN TurnsBefore(J, a, o) :
              /\ TurnsBefore(J, a, o)[i] \in DOMAIN J
              /\ J[TurnsBefore(J, a, o)[i]].kind = "response"
              /\ J[TurnsBefore(J, a, o)[i]].of = Nth(AskedBefore(J, a, o), i)
              /\ J[TurnsBefore(J, a, o)[i]].of \in AskedBefore(J, a, o)
              /\ TurnsBefore(J, a, o)[i] = Newest(OutcomesIn(J, Nth(AskedBefore(J, a, o), i)))
<1> DEFINE R == AskedBefore(J, a, o)
           T == TurnsBefore(J, a, o)
<1>1. Len(J) \in Nat /\ DOMAIN J = 1 .. Len(J)
  BY EntriesAre
<1>2. R \in SUBSET (1 .. Len(J))
  BY <1>1 DEF AskedBefore
<1>3. IsFiniteSet(R)
  <2>1. IsFiniteSet(1 .. Len(J))
    BY <1>1, FS_Interval
  <2> QED
    BY <1>2, <2>1, FS_Subset
<1>4. R \in SUBSET Nat
  BY <1>1, <1>2
<1>5. Cardinality(R) \in Nat /\ \A i \in 1 .. Cardinality(R) : Nth(R, i) \in R
  <2> HIDE DEF R
  <2> QED
    BY <1>3, <1>4, NthIs
<1>6. T = [i \in 1 .. Cardinality(R) |-> Newest(OutcomesIn(J, Nth(R, i)))]
  BY DEF TurnsBefore
<1>7. \A r \in R : OutcomesIn(J, r) # {} /\ OutcomesIn(J, r) \in SUBSET (1 .. Len(J))
  BY <1>1 DEF AskedBefore, OutcomesIn
<1>8. \A r \in R : Newest(OutcomesIn(J, r)) \in OutcomesIn(J, r)
  <2> SUFFICES ASSUME NEW r \in R PROVE Newest(OutcomesIn(J, r)) \in OutcomesIn(J, r)
    OBVIOUS
  <2> DEFINE S == OutcomesIn(J, r)
  <2>1. S # {} /\ S \in SUBSET Nat /\ \A x \in S : x <= Len(J)
    BY <1>1, <1>7
  <2> HIDE DEF S
  <2>2. Newest(S) \in S
    BY <1>1, <2>1, NewestIs
  <2> QED
    BY <2>2 DEF S
<1> HIDE DEF R, T
<1>9. Len(T) = Cardinality(R) /\ DOMAIN T = 1 .. Cardinality(R)
  BY <1>5, <1>6
<1>10. ASSUME NEW i \in DOMAIN T
       PROVE  /\ T[i] = Newest(OutcomesIn(J, Nth(R, i))) /\ T[i] \in DOMAIN J
              /\ J[T[i]].kind = "response" /\ J[T[i]].of = Nth(R, i) /\ J[T[i]].of \in R
  <2>1. Nth(R, i) \in R /\ T[i] = Newest(OutcomesIn(J, Nth(R, i)))
    BY <1>5, <1>6, <1>9
  <2>2. T[i] \in OutcomesIn(J, Nth(R, i))
    BY <1>8, <2>1
  <2> QED
    BY <2>1, <2>2 DEF OutcomesIn
<1> QED
  BY <1>3, <1>4, <1>5, <1>9, <1>10 DEF R, T

\* An entry more leaves them as they were, unless it is an outcome of one of those
\* questions.
LEMMA TurnsStay ==
  ASSUME NEW J \in Seq(Entries), NEW x \in Entries, NEW a, NEW o \in 1 .. Len(J) + 1,
         x.kind = "response" => ~(/\ x.of \in DOMAIN J /\ J[x.of].kind = "request"
                                  /\ J[x.of].by = a /\ x.of < o)
  PROVE  TurnsBefore(Append(J, x), a, o) = TurnsBefore(J, a, o)
<1> DEFINE K == Append(J, x)
<1>1. /\ Len(J) \in Nat /\ DOMAIN J = 1 .. Len(J) /\ DOMAIN K = 1 .. Len(J) + 1
      /\ \A i \in DOMAIN J : i \in DOMAIN K /\ K[i] = J[i]
      /\ K[Len(J) + 1] = x
      /\ \A i \in DOMAIN K : i \in DOMAIN J \/ i = Len(J) + 1
  BY AppendIs
<1> HIDE DEF K
<1>2. ASSUME NEW r \in DOMAIN J, J[r].kind = "request", J[r].by = a, r < o
      PROVE  OutcomesIn(K, r) = OutcomesIn(J, r)
  <2>1. ~(x.kind = "response" /\ x.of = r)
    BY <1>2
  <2> QED
    BY <1>1, <2>1 DEF OutcomesIn
<1>3. AskedBefore(K, a, o) = AskedBefore(J, a, o)
  <2>1. \A r \in DOMAIN K : r < o => r \in DOMAIN J
    BY <1>1
  <2> QED
    BY <1>1, <1>2, <2>1 DEF AskedBefore
<1>4. \A i \in 1 .. Cardinality(AskedBefore(J, a, o)) :
        OutcomesIn(K, Nth(AskedBefore(J, a, o), i)) = OutcomesIn(J, Nth(AskedBefore(J, a, o), i))
  <2> DEFINE R == AskedBefore(J, a, o)
  <2>1. R \in SUBSET Nat /\ IsFiniteSet(R)
    BY TurnsAre
  <2>2. \A r \in R : OutcomesIn(K, r) = OutcomesIn(J, r)
    BY <1>2 DEF AskedBefore
  <2> HIDE DEF R
  <2>3. \A i \in 1 .. Cardinality(R) : Nth(R, i) \in R
    BY <2>1, NthIs
  <2>4. \A i \in 1 .. Cardinality(R) : OutcomesIn(K, Nth(R, i)) = OutcomesIn(J, Nth(R, i))
    BY <2>2, <2>3
  <2> QED
    BY <2>4 DEF R
<1>5. TurnsBefore(K, a, o) = TurnsBefore(J, a, o)
  BY <1>3, <1>4 DEF TurnsBefore
<1> QED
  BY <1>5 DEF K

\* What was told was told, whatever else is journalled.
LEMMA ToldStays ==
  ASSUME NEW J, NEW K, NEW T, NEW d, ToldBy(J, T, d),
         \A i \in DOMAIN T : J[T[i]] = K[T[i]] /\ J[J[T[i]].of] = K[J[T[i]].of]
  PROVE  ToldBy(K, T, d)
<1>1. ASSUME NEW k \in DOMAIN d, d[k].does = "ask"
      PROVE  d[k].call \in DOMAIN T /\ K[K[T[d[k].call]].of].question = d[k].of
  BY <1>1 DEF ToldBy
<1>2. ASSUME NEW k \in DOMAIN d, d[k].does = "see"
      PROVE  /\ d[k].call \in DOMAIN T /\ K[T[d[k].call]].what = d[k].of
             /\ \A j \in 1 .. k - 1 : d[j].does = "see" => T[d[j].call] < T[d[k].call]
  BY <1>2 DEF ToldBy
<1>3. \A i \in DOMAIN T : \E k \in DOMAIN d : d[k].does = "see" /\ d[k].call = i
  BY DEF ToldBy
<1> QED
  BY <1>1, <1>2, <1>3 DEF ToldBy

(***************************************************************************)
(* What a state is made of.                                                *)
(***************************************************************************)

LEMMA StateIs ==
  ASSUME TypeOK
  PROVE  /\ me \in Nat /\ me >= 1 /\ DOMAIN code = 1 .. me /\ mine \in Nat
         /\ \A a \in DOMAIN code : code[a] \in Nat
         /\ Len(journal) \in Nat /\ DOMAIN journal = 1 .. Len(journal)
         /\ Len(calls) \in Nat /\ DOMAIN calls = 1 .. Len(calls)
         /\ Len(did) \in Nat /\ DOMAIN did = 1 .. Len(did)
         /\ wrote \in Nat
<1>1. Len(code) \in Nat /\ Len(code) # 0 /\ DOMAIN code = 1 .. Len(code)
      /\ \A a \in DOMAIN code : code[a] \in Nat
  BY LenProperties, EmptySeq DEF TypeOK
<1>2. Len(journal) \in Nat /\ DOMAIN journal = 1 .. Len(journal)
  BY LenProperties DEF TypeOK
<1>3. Len(calls) \in Nat /\ DOMAIN calls = 1 .. Len(calls)
  BY LenProperties DEF TypeOK
<1>4. Len(did) \in Nat /\ DOMAIN did = 1 .. Len(did)
  BY HistoryIs DEF TypeOK
<1> QED
  BY <1>1, <1>2, <1>3, <1>4 DEF TypeOK, me, mine

LEMMA CallIs ==
  ASSUME TypeOK, NEW i \in DOMAIN calls
  PROVE  /\ i \in Nat /\ calls[i] \in Calls
         /\ calls[i].question \in Questions /\ calls[i].request \in Nat
         /\ calls[i].turn \in Nat /\ calls[i].told \in Nat /\ calls[i].read \in BOOLEAN
         /\ calls[i].state \in {"open", "written", "over", "expired"}
<1>1. calls \in Seq(Calls) /\ i \in 1 .. Len(calls) /\ Len(calls) \in Nat
  BY StateIs DEF TypeOK
<1>2. calls[i] \in Calls
  BY <1>1, ElementOfSeq
<1> QED
  BY <1>1, <1>2 DEF Calls

LEMMA StepTypes ==
  ASSUME TypeOK
  PROVE  /\ \A q \in Questions : Asks(q) \in Steps
         /\ \A i \in Nat : WaitsOn(i) \in Steps
         /\ Writes \in Steps /\ Returns \in Steps
         /\ \A i \in Nat, what \in Answers \cup {GaveUp} : Sees(i, what) \in Steps
<1>1. Len(calls) + 1 \in Nat /\ wrote + 1 \in Nat
  BY StateIs
<1> QED
  BY <1>1 DEF Asks, WaitsOn, Writes, Returns, Sees, Step, Steps

LEMMA DecidesIs ==
  ASSUME TypeOK, NEW m \in Steps, Decides(m)
  PROVE  /\ node = "deciding"
         /\ DOMAIN plan' = DOMAIN plan \cup {did} /\ DOMAIN plan' \subseteq Histories
         /\ plan' \in [DOMAIN plan' -> Steps]
         /\ did \in DOMAIN plan' /\ plan'[did] = m
         /\ \A h \in DOMAIN plan : h \in DOMAIN plan' /\ plan'[h] = plan[h]
<1>1. plan' = [h \in DOMAIN plan \cup {did} |-> IF h = did THEN m ELSE plan[h]]
  BY DEF Decides
<1>2. /\ DOMAIN plan' = DOMAIN plan \cup {did} /\ did \in DOMAIN plan' /\ plan'[did] = m
      /\ \A h \in DOMAIN plan : h \in DOMAIN plan' /\ plan'[h] = plan[h]
  BY <1>1 DEF Decides
<1>3. DOMAIN plan \subseteq Histories /\ did \in Histories /\ \A h \in DOMAIN plan : plan[h] \in Steps
  BY DEF TypeOK
<1>4. plan' \in [DOMAIN plan' -> Steps]
  BY <1>1, <1>3
<1> QED
  BY <1>2, <1>3, <1>4 DEF Decides

LEMMA PinnedIs ==
  ASSUME NEW a
  PROVE  Pinned(a) = TurnsBefore(journal, a, LastSend(a))
<1>1. \A r : OutcomesIn(journal, r) = Outcomes(r)
  BY DEF OutcomesIn, Outcomes
<1>2. {r \in Asked(a) : r < LastSend(a)} = AskedBefore(journal, a, LastSend(a))
  BY <1>1 DEF Asked, AskedBefore
<1> QED
  BY <1>1, <1>2 DEF Pinned, Turns, TurnsBefore, Outcome

LEMMA KeptTurns ==
  ASSUME TypeOK
  PROVE  Kept = TurnsBefore(journal, kept.by, Len(journal) + 1)
<1>1. \A r : OutcomesIn(journal, r) = Outcomes(r)
  BY DEF OutcomesIn, Outcomes
<1>2. \A r \in DOMAIN journal : r < Len(journal) + 1
  BY StateIs
<1>3. Asked(kept.by) = AskedBefore(journal, kept.by, Len(journal) + 1)
  BY <1>1, <1>2 DEF Asked, AskedBefore
<1> QED
  BY <1>1, <1>3 DEF Kept, Turns, TurnsBefore, Outcome

LEMMA SendsIs ==
  ASSUME NEW o, Sends(journal, claims, o)
  PROVE  /\ o \in DOMAIN journal /\ journal[o].kind = "staged"
         /\ journal[o].effect \in DOMAIN claims /\ claims[journal[o].effect].state = "sent"
         /\ claims[journal[o].effect].by = journal[o].by
BY DEF Sends, Stagings, IsSent

\* The staging of an attempt's last effect that was sent.
LEMMA LastSendIs ==
  ASSUME TypeOK, NEW a
  PROVE  /\ LastSend(a) \in Nat
         /\ LastSend(a) # 0 => /\ Sends(journal, claims, LastSend(a))
                               /\ journal[LastSend(a)].by = a
         /\ \A o \in DOMAIN journal :
              Sends(journal, claims, o) /\ journal[o].by = a => o <= LastSend(a) /\ LastSend(a) # 0
<1> DEFINE S == {o \in DOMAIN journal : Sends(journal, claims, o) /\ journal[o].by = a}
<1>1. Len(journal) \in Nat /\ DOMAIN journal = 1 .. Len(journal)
  BY StateIs
<1>2. LastSend(a) = Newest(S)
  <2>1. \A c \in DOMAIN claims : claims[c].state \in {"sent", "not sent"}
    BY DEF TypeOK, Claims
  <2>2. \A o \in DOMAIN journal :
          /\ journal[o].kind = "staged" /\ journal[o].by = a
          /\ \E c \in DOMAIN claims : /\ c = journal[o].effect /\ claims[c].by = a
                                      /\ claims[c].state # "not sent"
          <=> Sends(journal, claims, o) /\ journal[o].by = a
    BY <2>1 DEF Sends, Stagings, IsSent
  <2> QED
    BY <2>2 DEF LastSend
<1>3. S \in SUBSET Nat /\ \A x \in S : x <= Len(journal) /\ x # 0
  BY <1>1
<1>4. \A o \in S : Sends(journal, claims, o) /\ journal[o].by = a
  OBVIOUS
<1>5. \A o \in DOMAIN journal : Sends(journal, claims, o) /\ journal[o].by = a => o \in S
  OBVIOUS
<1> HIDE DEF S
<1>6. /\ S # {} => Newest(S) \in S
      /\ \A x \in S : x <= Newest(S)
      /\ S = {} => Newest(S) = 0
  BY <1>1, <1>3, NewestIs
<1>7. Newest(S) \in Nat /\ (Newest(S) # 0 => Newest(S) \in S) /\ (S # {} => Newest(S) # 0)
  <2>1. CASE S = {}
    BY <1>6, <2>1
  <2>2. CASE S # {}
    <3>1. Newest(S) \in S
      BY <1>6, <2>2
    <3>2. Newest(S) \in Nat /\ Newest(S) # 0
      BY <1>3, <3>1
    <3> QED
      BY <3>1, <3>2
  <2> QED
    BY <2>1, <2>2
<1>8. \A o \in S : o <= Newest(S) /\ Newest(S) # 0
  BY <1>6, <1>7
<1>9. ASSUME NEW o \in DOMAIN journal, Sends(journal, claims, o), journal[o].by = a
      PROVE  o <= LastSend(a) /\ LastSend(a) # 0
  BY <1>2, <1>5, <1>8, <1>9
<1>10. LastSend(a) \in Nat /\ (LastSend(a) # 0 => LastSend(a) \in S)
  BY <1>2, <1>7
<1> QED
  BY <1>4, <1>9, <1>10

\* An attempt that sent nothing pins nothing.
LEMMA NothingPinned ==
  ASSUME TypeOK, NEW a, LastSend(a) = 0
  PROVE  Len(Pinned(a)) = 0
<1> DEFINE R == AskedBefore(journal, a, 0)
<1>1. Len(journal) \in Nat /\ DOMAIN journal = 1 .. Len(journal) /\ journal \in Seq(Entries)
  BY StateIs DEF TypeOK
<1>2. R = {}
  BY <1>1 DEF AskedBefore
<1>3. Cardinality(R) = 0
  BY <1>2, FS_EmptySet
<1>4. Len(TurnsBefore(journal, a, 0)) = Cardinality(R)
  BY <1>1, TurnsAre
<1> QED
  BY <1>3, <1>4, PinnedIs

\* The turn a question is served: one of the last attempt before this whose questions
\* were the same.
LEMMA TakeIs ==
  ASSUME TypeOK, NEW q, Take(q) # 0
  PROVE  \E b \in 1 .. me - 1 :
           /\ b \in Matching(q) /\ \A a \in Matching(q) : a <= b
           /\ ~asking /\ Len(calls) + 1 \in DOMAIN Pinned(b)
           /\ Take(q) = Pinned(b)[Len(calls) + 1]
           /\ Take(q) \in DOMAIN journal /\ journal[Take(q)].kind = "response"
           /\ journal[journal[Take(q)].of].by = b
<1>1. ~asking /\ Matching(q) # {} /\ Take(q) = Pinned(Max(Matching(q)))[Len(calls) + 1]
  BY DEF Take
<1> DEFINE S == Matching(q)
           b == Max(S)
<1>2. me \in Nat /\ me - 1 \in Nat \cup {0} /\ S \in SUBSET (1 .. me - 1)
  BY StateIs DEF Matching
<1>3. S \in SUBSET Nat /\ S # {} /\ \A x \in S : x <= me - 1
  BY <1>1, <1>2
<1>4. Max(S) \in S /\ \A x \in S : x <= Max(S)
  <2> HIDE DEF S
  <2>1. me - 1 \in Nat
    BY <1>2
  <2> QED
    BY <1>3, <2>1, MaxIs
<1>5. b \in 1 .. me - 1 /\ Len(Pinned(b)) > Len(calls)
  <2>1. \A a \in S : a \in 1 .. me - 1 /\ Len(Pinned(a)) > Len(calls)
    BY DEF Matching
  <2> QED
    BY <1>4, <2>1
<1> DEFINE T == TurnsBefore(journal, b, LastSend(b))
<1>6. /\ Len(T) \in Nat /\ DOMAIN T = 1 .. Len(T)
      /\ \A i \in DOMAIN T : /\ T[i] \in DOMAIN journal /\ journal[T[i]].kind = "response"
                             /\ journal[T[i]].of \in AskedBefore(journal, b, LastSend(b))
  <2>1. journal \in Seq(Entries)
    BY DEF TypeOK
  <2> QED
    BY <2>1, TurnsAre
<1>7. Pinned(b) = T
  BY PinnedIs
<1>8. Len(calls) + 1 \in DOMAIN T
  BY <1>5, <1>6, <1>7, StateIs
<1>9. journal[journal[Take(q)].of].by = b
  <2>1. Take(q) = T[Len(calls) + 1]
    BY <1>1, <1>7
  <2>2. journal[Take(q)].of \in AskedBefore(journal, b, LastSend(b))
    BY <1>6, <1>8, <2>1
  <2> QED
    BY <2>2 DEF AskedBefore
<1> HIDE DEF T
<1> QED
  BY <1>1, <1>4, <1>5, <1>6, <1>7, <1>8, <1>9

\* A turn that is served is in the journal.
LEMMA ServedTurnIs ==
  ASSUME TypeOK, Guided, Replaying, NEW i \in DOMAIN calls, Served(i)
  PROVE  /\ calls[i].turn \in DOMAIN journal /\ TurnOf(i).kind = "response"
         /\ TurnOf(i).what \in Answers \cup {GaveUp} /\ TurnOf(i).origin \in Nat
<1>1. journal \in Seq(Entries)
  BY DEF TypeOK
<1>2. calls[i].turn \in DOMAIN journal /\ TurnOf(i).kind = "response"
  <2>1. CASE Live
    BY <2>1 DEF Guided
  <2>2. CASE replayed
    <3>1. i \in DOMAIN Kept /\ calls[i].turn = Kept[i]
      BY <2>2 DEF Replaying, Lock
    <3>2. Kept[i] \in DOMAIN journal /\ journal[Kept[i]].kind = "response"
      BY <1>1, <3>1, TurnsAre, KeptTurns
    <3> QED
      BY <3>1, <3>2 DEF TurnOf
  <2> QED
    BY <2>1, <2>2 DEF Live
<1> QED
  BY <1>1, <1>2, EntriesAre DEF TurnOf

(***************************************************************************)
(* What a step does to the calls.                                          *)
(***************************************************************************)

LEMMA CallChanges ==
  ASSUME TypeOK, NEW i \in DOMAIN calls, NEW c \in Calls, calls' = [calls EXCEPT ![i] = c]
  PROVE  /\ calls' \in Seq(Calls) /\ Len(calls') = Len(calls) /\ DOMAIN calls' = DOMAIN calls
         /\ calls'[i] = c /\ \A k \in DOMAIN calls : k # i => calls'[k] = calls[k]
<1>1. calls \in Seq(Calls) /\ i \in 1 .. Len(calls) /\ DOMAIN calls = 1 .. Len(calls)
  BY StateIs DEF TypeOK
<1>2. calls' \in Seq(Calls) /\ Len(calls') = Len(calls)
  BY <1>1, ExceptSeq
<1> QED
  BY <1>1, <1>2, LenProperties

LEMMA CallEnds ==
  ASSUME TypeOK, NEW i \in DOMAIN calls, NEW s \in {"over", "expired"},
         calls' = [calls EXCEPT ![i].state = s]
  PROVE  /\ calls' \in Seq(Calls) /\ Len(calls') = Len(calls) /\ DOMAIN calls' = DOMAIN calls
         /\ \A k \in DOMAIN calls :
              /\ calls'[k].question = calls[k].question /\ calls'[k].request = calls[k].request
              /\ calls'[k].turn = calls[k].turn /\ calls'[k].read = calls[k].read
              /\ calls'[k].told = calls[k].told
              /\ calls'[k].state = IF k = i THEN s ELSE calls[k].state
<1> DEFINE c == [calls[i] EXCEPT !.state = s]
<1>1. calls[i] \in Calls
  BY CallIs
<1>2. c \in Calls /\ c.question = calls[i].question /\ c.request = calls[i].request
      /\ c.turn = calls[i].turn /\ c.read = calls[i].read /\ c.told = calls[i].told /\ c.state = s
  BY <1>1 DEF Calls
<1>3. calls' = [calls EXCEPT ![i] = c]
  OBVIOUS
<1> HIDE DEF c
<1>4. /\ calls' \in Seq(Calls) /\ Len(calls') = Len(calls) /\ DOMAIN calls' = DOMAIN calls
      /\ calls'[i] = c /\ \A k \in DOMAIN calls : k # i => calls'[k] = calls[k]
  BY <1>2, <1>3, CallChanges
<1> QED
  BY <1>2, <1>4

LEMMA CallWritten ==
  ASSUME TypeOK, NEW i \in DOMAIN calls, NEW n \in Nat,
         calls' = [calls EXCEPT ![i].state = "written", ![i].told = n]
  PROVE  /\ calls' \in Seq(Calls) /\ Len(calls') = Len(calls) /\ DOMAIN calls' = DOMAIN calls
         /\ \A k \in DOMAIN calls :
              /\ calls'[k].question = calls[k].question /\ calls'[k].request = calls[k].request
              /\ calls'[k].turn = calls[k].turn /\ calls'[k].read = calls[k].read
              /\ calls'[k].told = IF k = i THEN n ELSE calls[k].told
              /\ calls'[k].state = IF k = i THEN "written" ELSE calls[k].state
<1> DEFINE c == [calls[i] EXCEPT !.state = "written", !.told = n]
<1>1. calls[i] \in Calls
  BY CallIs
<1>2. c \in Calls /\ c.question = calls[i].question /\ c.request = calls[i].request
      /\ c.turn = calls[i].turn /\ c.read = calls[i].read /\ c.told = n /\ c.state = "written"
  BY <1>1 DEF Calls
<1>3. calls' = [calls EXCEPT ![i] = c]
  BY StateIs, CallIs
<1> HIDE DEF c
<1>4. /\ calls' \in Seq(Calls) /\ Len(calls') = Len(calls) /\ DOMAIN calls' = DOMAIN calls
      /\ calls'[i] = c /\ \A k \in DOMAIN calls : k # i => calls'[k] = calls[k]
  BY <1>2, <1>3, CallChanges
<1> QED
  BY <1>2, <1>4

LEMMA CallAgain ==
  ASSUME TypeOK, NEW i \in DOMAIN calls, calls' = [calls EXCEPT ![i].turn = 0]
  PROVE  /\ calls' \in Seq(Calls) /\ Len(calls') = Len(calls) /\ DOMAIN calls' = DOMAIN calls
         /\ \A k \in DOMAIN calls :
              /\ calls'[k].question = calls[k].question /\ calls'[k].request = calls[k].request
              /\ calls'[k].turn = IF k = i THEN 0 ELSE calls[k].turn
              /\ calls'[k].read = calls[k].read
              /\ calls'[k].told = calls[k].told /\ calls'[k].state = calls[k].state
<1> DEFINE c == [calls[i] EXCEPT !.turn = 0]
<1>1. calls[i] \in Calls
  BY CallIs
<1>2. c \in Calls /\ c.question = calls[i].question /\ c.request = calls[i].request
      /\ c.turn = 0 /\ c.read = calls[i].read /\ c.told = calls[i].told /\ c.state = calls[i].state
  BY <1>1 DEF Calls
<1>3. calls' = [calls EXCEPT ![i] = c]
  OBVIOUS
<1> HIDE DEF c
<1>4. /\ calls' \in Seq(Calls) /\ Len(calls') = Len(calls) /\ DOMAIN calls' = DOMAIN calls
      /\ calls'[i] = c /\ \A k \in DOMAIN calls : k # i => calls'[k] = calls[k]
  BY <1>2, <1>3, CallChanges
<1> QED
  BY <1>2, <1>4

LEMMA CallReads ==
  ASSUME TypeOK, NEW i,
         calls' = [k \in DOMAIN calls |-> [calls[k] EXCEPT !.read = @ \/ k = i]]
  PROVE  /\ calls' \in Seq(Calls) /\ Len(calls') = Len(calls) /\ DOMAIN calls' = DOMAIN calls
         /\ \A k \in DOMAIN calls :
              /\ calls'[k].question = calls[k].question /\ calls'[k].request = calls[k].request
              /\ calls'[k].turn = calls[k].turn
              /\ calls'[k].read <=> calls[k].read \/ k = i
              /\ calls'[k].told = calls[k].told /\ calls'[k].state = calls[k].state
<1>1. Len(calls) \in Nat /\ DOMAIN calls = 1 .. Len(calls) /\ calls' \in [1 .. Len(calls) -> Calls]
  <2>1. ASSUME NEW k \in DOMAIN calls
        PROVE  [calls[k] EXCEPT !.read = @ \/ k = i] \in Calls
    <3>1. calls[k] \in Calls
      BY CallIs
    <3>2. (calls[k].read \/ k = i) \in BOOLEAN
      OBVIOUS
    <3> QED
      BY <3>1, <3>2 DEF Calls
  <2> QED
    BY <2>1, StateIs
<1>2. ASSUME NEW k \in DOMAIN calls
      PROVE  /\ calls'[k].question = calls[k].question /\ calls'[k].request = calls[k].request
             /\ calls'[k].turn = calls[k].turn
             /\ calls'[k].read <=> calls[k].read \/ k = i
             /\ calls'[k].told = calls[k].told /\ calls'[k].state = calls[k].state
  <2>1. calls[k] \in Calls
    BY CallIs
  <2>2. calls'[k] = [calls[k] EXCEPT !.read = @ \/ k = i]
    OBVIOUS
  <2> QED
    BY <2>1, <2>2 DEF Calls
<1>3. calls' \in Seq(Calls) /\ Len(calls') = Len(calls) /\ DOMAIN calls' = DOMAIN calls
  <2>1. calls' \in Seq(Calls)
    BY <1>1, SeqDef
  <2> QED
    BY <1>1, <2>1, LenProperties
<1> QED
  BY <1>2, <1>3

LEMMA CallAsked ==
  ASSUME TypeOK, NEW q \in Questions, NEW r \in Nat, NEW t \in Nat,
         calls' = Append(calls, Call(q, r, t))
  PROVE  /\ calls' \in Seq(Calls) /\ Len(calls') = Len(calls) + 1
         /\ DOMAIN calls' = DOMAIN calls \cup {Len(calls) + 1} /\ Len(calls) + 1 \notin DOMAIN calls
         /\ \A k \in DOMAIN calls : calls'[k] = calls[k]
         /\ calls'[Len(calls) + 1] = Call(q, r, t)
         /\ calls'[Len(calls) + 1].question = q /\ calls'[Len(calls) + 1].request = r
         /\ calls'[Len(calls) + 1].turn = t /\ calls'[Len(calls) + 1].state = "open"
         /\ calls'[Len(calls) + 1].read <=> q \notin Streamed
<1>1. /\ Call(q, r, t) \in Calls
      /\ Call(q, r, t).question = q /\ Call(q, r, t).request = r
      /\ Call(q, r, t).turn = t /\ Call(q, r, t).state = "open"
      /\ Call(q, r, t).read <=> q \notin Streamed
  BY DEF Call, Calls
<1>2. calls \in Seq(Calls)
  BY DEF TypeOK
<1>3. /\ calls' \in Seq(Calls) /\ Len(calls) \in Nat /\ Len(calls') = Len(calls) + 1
      /\ DOMAIN calls = 1 .. Len(calls) /\ DOMAIN calls' = 1 .. Len(calls) + 1
      /\ \A k \in DOMAIN calls : calls'[k] = calls[k]
      /\ calls'[Len(calls) + 1] = Call(q, r, t)
  BY <1>1, <1>2, AppendIs
<1>4. DOMAIN calls' = DOMAIN calls \cup {Len(calls) + 1} /\ Len(calls) + 1 \notin DOMAIN calls
  BY <1>3
<1> QED
  BY <1>1, <1>3, <1>4

(***************************************************************************)
(* Types are kept.                                                         *)
(***************************************************************************)

LEMMA ReplayedCallIs ==
  ASSUME TypeOK, JournalIs, CallsAre, KeptIs, Replaying, replayed, NEW i \in DOMAIN calls
  PROVE  /\ i \in DOMAIN Kept /\ calls[i].turn = Kept[i] /\ Kept[i] \in DOMAIN journal
         /\ Served(i) /\ TurnOf(i).by = me /\ SameCode(i) /\ kept.by = me
         /\ calls[i].state \in {"open", "over"}
<1>1. kept.by = me /\ i \in DOMAIN Kept /\ calls[i].turn = Kept[i]
  BY DEF KeptIs, Replaying, Lock
<1>2. journal \in Seq(Entries) /\ DOMAIN journal = 1 .. Len(journal) /\ Len(journal) \in Nat
  BY StateIs DEF TypeOK
<1>3. /\ Kept[i] \in DOMAIN journal /\ journal[Kept[i]].kind = "response"
      /\ journal[Kept[i]].of \in AskedBefore(journal, me, Len(journal) + 1)
  BY <1>1, <1>2, KeptTurns, TurnsAre
<1>4. journal[journal[Kept[i]].of].by = me
  BY <1>3 DEF AskedBefore
<1>5. journal[Kept[i]].by = me
  BY <1>3, <1>4 DEF JournalIs
<1>6. Served(i) /\ TurnOf(i).by = me /\ SameCode(i)
  BY <1>1, <1>2, <1>3, <1>5 DEF Served, TurnOf, SameCode, mine
<1>7. calls[i].state \in {"open", "over"}
  <2>1. calls[i].state \in {"open", "written", "over", "expired"}
    BY CallIs
  <2>2. calls[i].state # "written"
    BY DEF CallsAre, Live
  <2>3. calls[i].state # "expired"
    BY DEF CallsAre, Replaying
  <2> QED
    BY <2>1, <2>2, <2>3
<1> QED
  BY <1>1, <1>3, <1>6, <1>7

\* An answer, a served turn, or that the caller gave up, comes to a call that waits.
LEMMA EndsIs ==
  ASSUME TypeOK, JournalIs, CallsAre, Guided, KeptIs, Replaying, NEW i \in DOMAIN calls,
         Answer(i) \/ Serve(i) \/ GiveUp(i) \/ GiveUpLate(i)
  PROVE  \E what \in Answers \cup {GaveUp} :
           /\ Ends(i, what) /\ UNCHANGED aside
           /\ node = "waiting" /\ calls[i].state \in {"open", "written"} /\ calls[i].read
           /\ Served(i) /\ SameCode(i) =>
                what = TurnOf(i).what /\ Due(i) /\ calls[i].state = "open"
           /\ calls[i].state = "written" => Live
<1> DEFINE Goal == \E what \in Answers \cup {GaveUp} :
             /\ Ends(i, what) /\ UNCHANGED aside
             /\ node = "waiting" /\ calls[i].state \in {"open", "written"} /\ calls[i].read
             /\ Served(i) /\ SameCode(i) =>
                  what = TurnOf(i).what /\ Due(i) /\ calls[i].state = "open"
             /\ calls[i].state = "written" => Live
<1>1. CASE Answer(i)
  <2>1. PICK what \in Answers : Ends(i, what)
    BY <1>1 DEF Answer
  <2>2. UNCHANGED aside /\ Open(i) /\ ~Served(i)
    BY <1>1 DEF Answer
  <2> QED
    BY <2>1, <2>2 DEF Open
<1>2. CASE Serve(i)
  <2>1. Ends(i, TurnOf(i).what) /\ UNCHANGED aside /\ Open(i) /\ Served(i) /\ Due(i)
    BY <1>2 DEF Serve
  <2>2. TurnOf(i).what \in Answers \cup {GaveUp}
    BY <2>1, ServedTurnIs
  <2> QED
    BY <2>1, <2>2 DEF Open
<1>3. CASE GiveUp(i)
  <2>1. /\ Ends(i, GaveUp) /\ UNCHANGED aside /\ Open(i)
        /\ Served(i) /\ SameCode(i) => TurnOf(i).what = GaveUp /\ Due(i)
    BY <1>3 DEF GiveUp
  <2> QED
    BY <2>1 DEF Open
<1>4. CASE GiveUpLate(i)
  <2>1. /\ Ends(i, GaveUp) /\ UNCHANGED aside /\ node = "waiting"
        /\ calls[i].state = "written" /\ (Served(i) => ~SameCode(i))
    BY <1>4 DEF GiveUpLate
  <2>2. calls[i].read /\ Live
    BY <2>1 DEF CallsAre
  <2> QED
    BY <2>1, <2>2
<1> QED
  BY <1>1, <1>2, <1>3, <1>4

LEMMA RecordsIs ==
  ASSUME TypeOK, Guided, Replaying, NEW i \in DOMAIN calls, NEW what \in Answers \cup {GaveUp}
  PROVE  Response(i, what) \in Entries
<1>1. Len(journal) + 1 \in Nat /\ me \in Nat /\ calls[i].request \in Nat
  BY StateIs, CallIs
<1>2. (IF Served(i) THEN TurnOf(i).origin ELSE Len(journal) + 1) \in Nat
  BY <1>1, ServedTurnIs
<1> QED
  BY <1>1, <1>2 DEF Response, Entries

LEMMA EmptyIs ==
  /\ <<>> \in Seq(Calls) /\ <<>> \in Histories /\ <<>> \in Seq(Entries)
  /\ DOMAIN <<>> = {}
BY EmptySeq DEF Histories

LEMMA TypeInit ==
  Init => TypeOK
<1> SUFFICES ASSUME Init PROVE TypeOK
  OBVIOUS
<1>1. DOMAIN <<>> = {} /\ <<>> \in [{} -> Claims] /\ <<>> \in [{} -> Steps]
  OBVIOUS
<1>2. <<1>> \in Seq(Nat) /\ <<1>> # <<>>
  OBVIOUS
<1>3. [by |-> 0, did |-> <<>>] \in [by : Nat, did : Histories]
  BY EmptyIs
<1>4. /\ journal \in Seq(Entries) /\ calls \in Seq(Calls) /\ did \in Histories /\ wrote \in Nat
      /\ code \in Seq(Nat) /\ code # <<>>
      /\ kept \in [by : Nat, did : Histories]
  BY <1>2, <1>3, EmptyIs DEF Init
<1>5. /\ DOMAIN claims \subseteq Effects /\ claims \in [DOMAIN claims -> Claims]
      /\ DOMAIN plan \subseteq Histories /\ plan \in [DOMAIN plan -> Steps]
  BY <1>1 DEF Init
<1>6. /\ node \in {"deciding", "waiting", "parked", "returned", "halted", "down", "diverged"}
      /\ asking \in BOOLEAN /\ again \in BOOLEAN /\ replayed \in BOOLEAN
  BY DEF Init
<1> QED
  BY <1>4, <1>5, <1>6 DEF TypeOK

\* What each part of the state is made of, to be shown part by part.
PlanType == DOMAIN plan \subseteq Histories /\ plan \in [DOMAIN plan -> Steps]
ClaimsType == DOMAIN claims \subseteq Effects /\ claims \in [DOMAIN claims -> Claims]
CodeType == code \in Seq(Nat) /\ code # <<>>
NodeType == node \in {"deciding", "waiting", "parked", "returned", "halted", "down", "diverged"}
FlagTypes == asking \in BOOLEAN /\ again \in BOOLEAN /\ replayed \in BOOLEAN
KeptType == kept \in [by : Nat, did : Histories]

LEMMA PartsStay ==
  /\ ClaimsType /\ UNCHANGED claims => ClaimsType'
  /\ CodeType /\ UNCHANGED code => CodeType'
  /\ PlanType /\ UNCHANGED plan => PlanType'
  /\ NodeType /\ UNCHANGED node => NodeType'
  /\ FlagTypes /\ UNCHANGED <<asking, again, replayed>> => FlagTypes'
  /\ KeptType /\ UNCHANGED kept => KeptType'
BY DEF PlanType, ClaimsType, CodeType, NodeType, FlagTypes, KeptType

EffectIs == TypeOK => Effect \in Effects
LEMMA EffectType == EffectIs
BY StateIs DEF EffectIs, Effect, Effects, TypeOK

LEMMA TypeNext ==
  ASSUME TypeOK, JournalIs, CallsAre, NodeIs, Own, Guided, KeptIs, Replaying, [Next]_vars
  PROVE  TypeOK'
<1> DEFINE Parts == /\ journal \in Seq(Entries) /\ ClaimsType /\ CodeType /\ PlanType /\ NodeType
                    /\ calls \in Seq(Calls) /\ did \in Histories /\ wrote \in Nat /\ FlagTypes
                    /\ KeptType
<1>p. Parts /\ (Parts' => TypeOK')
  BY DEF TypeOK, PlanType, ClaimsType, CodeType, NodeType, FlagTypes, KeptType
<1> HIDE DEF Parts
<1> SUFFICES Parts'
  BY <1>p
<1>q. /\ journal \in Seq(Entries) /\ ClaimsType /\ CodeType /\ PlanType /\ NodeType
      /\ calls \in Seq(Calls) /\ did \in Histories /\ wrote \in Nat /\ FlagTypes /\ KeptType
  BY <1>p DEF Parts
<1>r. wrote + 1 \in Nat
  BY <1>q
<1>1. CASE UNCHANGED vars
  BY <1>1, <1>p, <1>q, PartsStay DEF vars, run, Parts
<1>2. ASSUME NEW q \in Questions, Ask(q)
      PROVE  Parts'
  <2>1. Asks(q) \in Steps /\ Decides(Asks(q))
    BY <1>2, StepTypes DEF Ask
  <2>2. PlanType'
    BY <2>1, DecidesIs DEF PlanType
  <2>3. /\ asking' = (asking \/ Take(q) = 0) /\ calls' = Append(calls, Call(q, Len(journal) + 1, Take(q)))
        /\ journal' = Append(journal, [kind |-> "request", by |-> me, question |-> q])
        /\ did' = Append(did, Asks(q))
        /\ UNCHANGED <<claims, code, node, wrote, again, kept, replayed>>
    BY <1>2 DEF Ask, Does
  <2>4. Take(q) \in Nat
    BY TakeIs, StateIs
  <2>5. calls' \in Seq(Calls)
    BY <2>3, <2>4, StateIs, CallAsked
  <2>6. [kind |-> "request", by |-> me, question |-> q] \in Entries
    BY StateIs DEF Entries
  <2>7. journal' \in Seq(Entries)
    BY <1>q, <2>3, <2>6, AppendIs
  <2>8. did' \in Histories
    BY <1>q, <2>1, <2>3, Longer
  <2>9. FlagTypes'
    BY <1>q, <2>3 DEF FlagTypes
  <2> QED
    BY <1>q, <2>2, <2>3, <2>5, <2>7, <2>8, <2>9, PartsStay DEF Parts
<1>3. ASSUME NEW q \in Questions, AskReplay(q)
      PROVE  Parts'
  <2>1. Asks(q) \in Steps /\ Decides(Asks(q)) /\ replayed
    BY <1>3, StepTypes DEF AskReplay
  <2>2. PlanType'
    BY <2>1, DecidesIs DEF PlanType
  <2>3. /\ \/ /\ Len(calls) + 1 <= Len(Kept) /\ calls' = Append(calls, Call(q, 0, Kept[Len(calls) + 1]))
              /\ did' = Append(did, Asks(q)) /\ UNCHANGED node
           \/ node' = "diverged" /\ UNCHANGED <<calls, did>>
        /\ UNCHANGED <<journal, claims, code, wrote, asking, again, kept, replayed>>
    BY <1>3 DEF AskReplay, Does
  <2>4. NodeType'
    BY <1>q, <2>3 DEF NodeType
  <2>5. calls' \in Seq(Calls)
    <3>1. CASE Len(calls) + 1 <= Len(Kept) /\ calls' = Append(calls, Call(q, 0, Kept[Len(calls) + 1]))
      <4>1. Len(calls) + 1 \in DOMAIN Kept
        BY <1>q, <3>1, StateIs, KeptTurns, TurnsAre
      <4>2. Kept[Len(calls) + 1] \in Nat
        BY <1>q, <4>1, StateIs, KeptTurns, TurnsAre
      <4> QED
        BY <3>1, <4>2, CallAsked
    <3> QED
      BY <1>q, <2>3, <3>1
  <2>6. did' \in Histories
    BY <1>q, <2>1, <2>3, Longer
  <2> QED
    BY <1>q, <2>2, <2>3, <2>4, <2>5, <2>6, PartsStay DEF Parts, FlagTypes
<1>4. ASSUME NEW i \in Nat, Waits(i)
      PROVE  Parts'
  <2>1. WaitsOn(i) \in Steps /\ Decides(WaitsOn(i))
    BY <1>4, StepTypes DEF Waits
  <2>2. PlanType'
    BY <2>1, DecidesIs DEF PlanType
  <2>3. /\ calls' = [k \in DOMAIN calls |-> [calls[k] EXCEPT !.read = @ \/ k = i]]
        /\ node' = "waiting" /\ did' = Append(did, WaitsOn(i)) /\ UNCHANGED <<run, wrote, asking>>
    BY <1>4 DEF Waits, Does
  <2>4. calls' \in Seq(Calls)
    BY <2>3, CallReads
  <2>5. did' \in Histories
    BY <1>q, <2>1, <2>3, Longer
  <2>6. NodeType'
    BY <2>3 DEF NodeType
  <2> QED
    BY <1>q, <2>2, <2>3, <2>4, <2>5, <2>6, PartsStay DEF Parts, run
<1>5. CASE Stage
  <2>1. Writes \in Steps /\ Decides(Writes)
    BY <1>5, StepTypes DEF Stage
  <2>2. PlanType'
    BY <2>1, DecidesIs DEF PlanType
  <2>3. /\ \/ wrote' = wrote + 1 /\ did' = Append(did, Writes) /\ UNCHANGED <<journal, node>>
           \/ /\ journal' = Append(journal, [kind |-> "staged", by |-> me, effect |-> Effect])
              /\ node' = "parked" /\ UNCHANGED <<wrote, did>>
        /\ UNCHANGED <<claims, code, calls, asking, again, kept, replayed>>
    BY <1>5 DEF Stage, Does
  <2>4. [kind |-> "staged", by |-> me, effect |-> Effect] \in Entries
    BY StateIs, EffectType DEF EffectIs, Entries
  <2>5. journal' \in Seq(Entries)
    BY <1>q, <2>3, <2>4, AppendIs
  <2>6. did' \in Histories /\ wrote' \in Nat
    <3>1. Append(did, Writes) \in Histories
      BY <1>q, <2>1, Longer
    <3>2. did \in Histories /\ wrote \in Nat /\ wrote + 1 \in Nat
      BY <1>q, StateIs
    <3> QED
      BY <2>3, <3>1, <3>2
  <2>7. NodeType'
    BY <1>q, <2>3 DEF NodeType
  <2> QED
    BY <1>q, <2>2, <2>3, <2>5, <2>6, <2>7, PartsStay DEF Parts
<1>6. CASE Return
  <2>1. Returns \in Steps /\ Decides(Returns)
    BY <1>6, StepTypes DEF Return
  <2>2. PlanType'
    BY <2>1, DecidesIs DEF PlanType
  <2>3. /\ node' = "returned" /\ kept' = IF replayed THEN kept ELSE [by |-> me, did |-> did]
        /\ UNCHANGED <<journal, claims, code, calls, did, wrote, asking, again, replayed>>
    BY <1>6 DEF Return
  <2>4. KeptType'
    <3>1. [by |-> me, did |-> did] \in [by : Nat, did : Histories]
      BY <1>q, StateIs
    <3> QED
      BY <1>q, <2>3, <3>1 DEF KeptType
  <2>5. NodeType'
    BY <2>3 DEF NodeType
  <2> QED
    BY <1>q, <2>2, <2>3, <2>4, <2>5, PartsStay DEF Parts
<1>7. CASE Dispatch
  <2>1. PICK outcome \in {"sent", "not sent"} :
          /\ \/ UNCHANGED claims
             \/ claims' = [e \in DOMAIN claims \cup {Effect} |->
                             IF e = Effect THEN [by |-> me, state |-> outcome] ELSE claims[e]]
          /\ \/ node' = "deciding" /\ wrote' = wrote + 1 /\ did' = Append(did, Writes)
                /\ UNCHANGED <<calls, asking>>
             \/ node' = "down" /\ calls' = <<>> /\ did' = <<>> /\ wrote' = 0 /\ asking' = FALSE
    BY <1>7 DEF Dispatch, Does, Fresh
  <2>2. UNCHANGED <<journal, code, plan, again, kept, replayed>>
    BY <1>7 DEF Dispatch
  <2>3. ClaimsType'
    <3>1. CASE UNCHANGED claims
      BY <1>q, <3>1, PartsStay
    <3>2. CASE claims' = [e \in DOMAIN claims \cup {Effect} |->
                             IF e = Effect THEN [by |-> me, state |-> outcome] ELSE claims[e]]
      <4>1. [by |-> me, state |-> outcome] \in Claims /\ Effect \in Effects
        BY StateIs, EffectType DEF Claims, EffectIs
      <4>2. DOMAIN claims \subseteq Effects /\ \A e \in DOMAIN claims : claims[e] \in Claims
        BY <1>q DEF ClaimsType
      <4>3. /\ DOMAIN claims' = DOMAIN claims \cup {Effect}
            /\ claims' \in [DOMAIN claims \cup {Effect} -> Claims]
        BY <3>2, <4>1, <4>2
      <4> QED
        BY <4>1, <4>2, <4>3 DEF ClaimsType
    <3> QED
      BY <2>1, <3>1, <3>2
  <2>4. did' \in Histories /\ wrote' \in Nat /\ calls' \in Seq(Calls)
    <3>1. Append(did, Writes) \in Histories
      BY <1>q, StepTypes, Longer
    <3>2. wrote + 1 \in Nat
      BY <1>r
    <3>3. did \in Histories /\ calls \in Seq(Calls) /\ 0 \in Nat
      BY <1>q
    <3> QED
      BY <2>1, <3>1, <3>2, <3>3, EmptyIs
  <2>5. NodeType' /\ FlagTypes'
    BY <1>q, <2>1, <2>2 DEF NodeType, FlagTypes
  <2> QED
    BY <1>q, <2>2, <2>3, <2>4, <2>5, PartsStay DEF Parts
<1>8. CASE Crash \/ Resume \/ Replay
  <2>1. calls' = <<>> /\ did' = <<>> /\ wrote' = 0 /\ asking' = FALSE
        /\ UNCHANGED <<journal, claims, kept>>
    BY <1>8 DEF Crash, Resume, Replay, Fresh
  <2>2. calls' \in Seq(Calls) /\ did' \in Histories /\ wrote' \in Nat
    BY <2>1, EmptyIs
  <2>3. CodeType'
    <3>1. CASE UNCHANGED code
      BY <1>q, <3>1, PartsStay
    <3>2. ASSUME NEW c \in Nat, code' = Append(code, c)
          PROVE  CodeType'
      <4>1. code \in Seq(Nat)
        BY <1>q DEF CodeType
      <4>2. Append(code, c) \in Seq(Nat) /\ Append(code, c) # <<>>
        BY <4>1, AppendIs
      <4> QED
        BY <3>2, <4>2 DEF CodeType
    <3>3. mine \in Nat /\ mine + 1 \in Nat
      BY StateIs
    <3> QED
      BY <1>8, <3>1, <3>2, <3>3 DEF Crash, Resume, Replay
  <2>4. PlanType'
    <3>1. CASE UNCHANGED plan
      BY <1>q, <3>1, PartsStay
    <3>2. CASE plan' = <<>>
      BY <3>2 DEF PlanType
    <3> QED
      BY <1>8, <3>1, <3>2 DEF Crash, Resume, Replay
  <2>5. NodeType'
    BY <1>8 DEF Crash, Resume, Replay, NodeType
  <2>6. FlagTypes'
    BY <1>8, <1>q, <2>1 DEF Crash, Resume, Replay, FlagTypes
  <2> QED
    BY <1>q, <2>1, <2>2, <2>3, <2>4, <2>5, <2>6, PartsStay DEF Parts
<1>9. ASSUME NEW i \in DOMAIN calls, Answer(i) \/ Serve(i) \/ GiveUp(i) \/ GiveUpLate(i)
      PROVE  Parts'
  <2>1. PICK what \in Answers \cup {GaveUp} : Ends(i, what) /\ UNCHANGED aside
    BY <1>9, EndsIs
  <2>2. CASE TellsReplayed(i, what)
    <3>1. /\ calls' = [calls EXCEPT ![i].state = "over"] /\ did' = Append(did, Sees(i, what))
          /\ node' = "deciding" /\ UNCHANGED journal
      BY <2>2 DEF TellsReplayed, Does
    <3>2. calls' \in Seq(Calls)
      BY <3>1, CallEnds
    <3>3. did' \in Histories
      BY <1>q, <3>1, CallIs, StepTypes, Longer
    <3>4. NodeType'
      BY <3>1 DEF NodeType
    <3> QED
      BY <1>q, <2>1, <3>1, <3>2, <3>3, <3>4, PartsStay DEF Parts, aside
  <2>3. CASE Records(i, what)
    <3>1. /\ journal' = Append(journal, Response(i, what))
          /\ calls' = [calls EXCEPT ![i].state = "written", ![i].told = Len(journal) + 1]
          /\ UNCHANGED <<did, node>>
      BY <2>3 DEF Records
    <3>2. calls' \in Seq(Calls)
      <4>1. Len(journal) + 1 \in Nat
        BY StateIs
      <4> QED
        BY <3>1, <4>1, CallWritten
    <3>3. journal' \in Seq(Entries)
      BY <1>q, <3>1, RecordsIs, AppendIs
    <3> QED
      BY <1>q, <2>1, <3>1, <3>2, <3>3, PartsStay DEF Parts, aside
  <2> QED
    BY <2>1, <2>2, <2>3 DEF Ends
<1>10. ASSUME NEW i \in DOMAIN calls, See(i)
       PROVE  Parts'
  <2>1. /\ calls[i].state = "written" /\ calls' = [calls EXCEPT ![i].state = "over"]
        /\ did' = Append(did, Sees(i, journal[calls[i].told].what))
        /\ node = "waiting" /\ node' = "deciding" /\ UNCHANGED <<run, plan, wrote, asking>>
    BY <1>10 DEF See, Does
  <2>2. calls' \in Seq(Calls)
    BY <2>1, CallEnds
  <2>3. calls[i].told \in Outcomes(calls[i].request)
    BY <2>1 DEF Own, CallsAre
  <2>4. journal[calls[i].told].what \in Answers \cup {GaveUp}
    BY <1>q, <2>3, EntriesAre DEF Outcomes
  <2>5. did' \in Histories
    <3>1. Sees(i, journal[calls[i].told].what) \in Steps
      BY <2>4, CallIs, StepTypes
    <3> QED
      BY <1>q, <2>1, <3>1, Longer
  <2>6. NodeType'
    BY <2>1 DEF NodeType
  <2> QED
    BY <1>q, <2>1, <2>2, <2>5, <2>6, PartsStay DEF Parts, run
<1>11. ASSUME NEW i \in DOMAIN calls, Expire(i)
       PROVE  Parts'
  <2>1. /\ \/ calls' = [calls EXCEPT ![i].turn = 0] /\ UNCHANGED <<journal, node>>
           \/ /\ calls' = [calls EXCEPT ![i].state = "expired"] /\ node' = "halted"
              /\ journal' = journal \/ journal' = Append(journal, Response(i, GaveUp))
        /\ UNCHANGED <<aside, did>>
    BY <1>11 DEF Expire
  <2>2. calls' \in Seq(Calls)
    BY <2>1, CallEnds, CallAgain
  <2>3. journal' \in Seq(Entries)
    <3>1. Response(i, GaveUp) \in Entries
      BY RecordsIs
    <3>2. Append(journal, Response(i, GaveUp)) \in Seq(Entries)
      BY <1>q, <3>1, AppendIs
    <3> QED
      BY <1>q, <2>1, <3>2
  <2>4. NodeType'
    BY <1>q, <2>1 DEF NodeType
  <2> QED
    BY <1>q, <2>1, <2>2, <2>3, <2>4, PartsStay DEF Parts, aside
<1>12. CASE Next
  <2>1. \A i \in DOMAIN calls : i \in Nat
    BY CallIs
  <2> QED
    BY <1>2, <1>3, <1>4, <1>5, <1>6, <1>7, <1>8, <1>9, <1>10, <1>11, <1>12, <1>p, <2>1 DEF Next
<1> QED
  BY <1>1, <1>12, <1>p

(***************************************************************************)
(* What no step takes back: entries, code, decisions, and what was sent.   *)
(***************************************************************************)

MoreOf(p, q) == DOMAIN p \subseteq DOMAIN q /\ \A h \in DOMAIN p : q[h] = p[h]

LEMMA DecidesMore ==
  ASSUME TypeOK, NEW m \in Steps, Decides(m)
  PROVE  MoreOf(plan, plan')
BY DecidesIs DEF MoreOf

\* An entry more, by the attempt that runs: a question, a write, or the outcome of a
\* call that had not been told.
Adds(x) ==
  /\ journal' = Append(journal, x) /\ x \in Entries /\ x.by = me /\ Live
  /\ node \in {"deciding", "waiting"}
  /\ x.kind = "response" => /\ node = "waiting"
                            /\ \E i \in DOMAIN calls : Unfinished(i) /\ x.of = calls[i].request
  /\ x.kind = "staged" => Stage /\ x.effect = Effect

\* The steps, by what they do with the code.
Same == code' = code /\ MoreOf(plan, plan')
Renews == Resume /\ UNCHANGED <<journal, claims>>

LEMMA StepKeeps ==
  ASSUME TypeOK, JournalIs, CallsAre, Guided, KeptIs, Replaying, [Next]_vars
  PROVE  /\ Same \/ Renews
         /\ journal' = journal \/ \E x \in Entries : Adds(x)
         /\ claims' = claims \/ Dispatch
<1> DEFINE Goal == /\ Same \/ Renews
                   /\ journal' = journal \/ \E x \in Entries : Adds(x)
                   /\ claims' = claims \/ Dispatch
<1> SUFFICES Goal
  OBVIOUS
<1>a. MoreOf(plan, plan)
  BY DEF MoreOf
<1>b. me \in Nat /\ Len(journal) + 1 \in Nat
  BY StateIs
<1>1. CASE UNCHANGED vars
  BY <1>1, <1>a DEF vars, run, Same
<1>2. ASSUME NEW q \in Questions, Ask(q)
      PROVE  Goal
  <2>1. MoreOf(plan, plan')
    BY <1>2, StepTypes, DecidesMore DEF Ask
  <2> DEFINE x == [kind |-> "request", by |-> me, question |-> q]
  <2>2. x \in Entries /\ x.by = me /\ x.kind \notin {"response", "staged"}
    BY <1>b DEF Entries
  <2>3. journal' = Append(journal, x) /\ Live /\ node = "deciding" /\ UNCHANGED <<claims, code>>
    BY <1>2 DEF Ask, Decides
  <2>4. Adds(x)
    BY <2>2, <2>3 DEF Adds
  <2> HIDE DEF x
  <2> QED
    BY <2>1, <2>2, <2>3, <2>4 DEF Same
<1>3. ASSUME NEW q \in Questions, AskReplay(q)
      PROVE  Goal
  <2>1. MoreOf(plan, plan')
    BY <1>3, StepTypes, DecidesMore DEF AskReplay
  <2> QED
    BY <1>3, <2>1 DEF AskReplay, Same
<1>4. ASSUME NEW i \in Nat, Waits(i)
      PROVE  Goal
  <2>1. MoreOf(plan, plan')
    BY <1>4, StepTypes, DecidesMore DEF Waits
  <2> QED
    BY <1>4, <2>1 DEF Waits, Same, run
<1>5. CASE Stage
  <2>1. MoreOf(plan, plan')
    BY <1>5, StepTypes, DecidesMore DEF Stage
  <2>2. UNCHANGED <<claims, code>> /\ node = "deciding"
    BY <1>5 DEF Stage, Decides
  <2>3. CASE replayed
    BY <1>5, <2>1, <2>2, <2>3 DEF Stage, Same
  <2>4. CASE Live
    <3> DEFINE x == [kind |-> "staged", by |-> me, effect |-> Effect]
    <3>1. x \in Entries /\ x.by = me /\ x.kind # "response" /\ x.effect = Effect
      BY <1>b, EffectType DEF EffectIs, Entries
    <3>2. journal' = Append(journal, x)
      BY <1>5, <2>4 DEF Stage, Live
    <3>3. Adds(x)
      BY <1>5, <2>2, <2>4, <3>1, <3>2 DEF Adds
    <3> HIDE DEF x
    <3> QED
      BY <2>1, <2>2, <3>1, <3>3 DEF Same
  <2> QED
    BY <2>3, <2>4 DEF Live
<1>6. CASE Return
  <2>1. MoreOf(plan, plan')
    BY <1>6, StepTypes, DecidesMore DEF Return
  <2> QED
    BY <1>6, <2>1 DEF Return, Same
<1>7. CASE Dispatch
  BY <1>7, <1>a DEF Dispatch, Same
<1>8. CASE Crash
  BY <1>8, <1>a DEF Crash, Same
<1>9. CASE Resume
  BY <1>9 DEF Resume, Renews
<1>10. CASE Replay
  BY <1>10, <1>a DEF Replay, Same
<1>11. ASSUME NEW i \in DOMAIN calls, Answer(i) \/ Serve(i) \/ GiveUp(i) \/ GiveUpLate(i)
       PROVE  Goal
  <2>1. PICK what \in Answers \cup {GaveUp} :
          /\ Ends(i, what) /\ UNCHANGED aside
          /\ node = "waiting" /\ calls[i].state \in {"open", "written"}
    BY <1>11, EndsIs
  <2>2. Same /\ claims' = claims
    BY <1>a, <2>1 DEF aside, Same
  <2>3. CASE replayed
    BY <2>1, <2>2, <2>3 DEF Ends, TellsReplayed
  <2>4. CASE Live
    <3>1. journal' = Append(journal, Response(i, what))
      BY <2>1, <2>4 DEF Ends, Records, Live
    <3>2. Response(i, what) \in Entries
      BY RecordsIs
    <3>3. /\ Response(i, what).by = me /\ Response(i, what).of = calls[i].request
          /\ Response(i, what).kind = "response"
      BY DEF Response
    <3>4. Unfinished(i)
      BY <2>1 DEF Unfinished
    <3>5. Adds(Response(i, what))
      BY <2>1, <2>4, <3>1, <3>2, <3>3, <3>4 DEF Adds
    <3> QED
      BY <2>2, <3>2, <3>5
  <2> QED
    BY <2>3, <2>4 DEF Live
<1>12. ASSUME NEW i \in DOMAIN calls, See(i)
       PROVE  Goal
  BY <1>12, <1>a DEF See, run, Same
<1>13. ASSUME NEW i \in DOMAIN calls, Expire(i)
       PROVE  Goal
  <2>1. /\ Open(i) /\ UNCHANGED aside
        /\ \/ UNCHANGED journal
           \/ Live /\ journal' = Append(journal, Response(i, GaveUp))
    BY <1>13 DEF Expire, Live
  <2>2. Same /\ claims' = claims
    BY <1>a, <2>1 DEF aside, Same
  <2>3. Response(i, GaveUp) \in Entries
    BY RecordsIs
  <2>4. /\ Response(i, GaveUp).by = me /\ Response(i, GaveUp).of = calls[i].request
        /\ Response(i, GaveUp).kind = "response"
    BY DEF Response
  <2>5. Unfinished(i) /\ node = "waiting"
    BY <2>1 DEF Open, Unfinished
  <2>6. Live /\ journal' = Append(journal, Response(i, GaveUp)) => Adds(Response(i, GaveUp))
    BY <2>3, <2>4, <2>5 DEF Adds
  <2> QED
    BY <2>1, <2>2, <2>3, <2>6
<1>14. CASE Next
  <2>1. \A i \in DOMAIN calls : i \in Nat
    BY CallIs
  <2> QED
    BY <1>2, <1>3, <1>4, <1>5, <1>6, <1>7, <1>8, <1>9, <1>10, <1>11, <1>12, <1>13, <1>14, <2>1
    DEF Next
<1> QED
  BY <1>1, <1>14

\* Entries stay where they are.
LEMMA EntriesStay ==
  ASSUME TypeOK, journal' = journal \/ \E x \in Entries : Adds(x)
  PROVE  /\ \A o \in DOMAIN journal : o \in DOMAIN journal' /\ journal'[o] = journal[o]
         /\ \A o \in DOMAIN journal' : o \in DOMAIN journal \/
              (o = Len(journal) + 1 /\ o \notin DOMAIN journal /\ journal'[o].by = me
               /\ Adds(journal'[o]))
<1>1. CASE journal' = journal
  BY <1>1
<1>2. ASSUME NEW x \in Entries, Adds(x)
      PROVE  /\ \A o \in DOMAIN journal : o \in DOMAIN journal' /\ journal'[o] = journal[o]
             /\ \A o \in DOMAIN journal' : o \in DOMAIN journal \/
                  (o = Len(journal) + 1 /\ o \notin DOMAIN journal /\ journal'[o].by = me
                   /\ Adds(journal'[o]))
  <2>1. journal \in Seq(Entries) /\ journal' = Append(journal, x) /\ x.by = me
    BY <1>2 DEF TypeOK, Adds
  <2>2. /\ Len(journal) \in Nat /\ DOMAIN journal = 1 .. Len(journal)
        /\ \A k \in DOMAIN journal : k \in DOMAIN journal' /\ journal'[k] = journal[k]
        /\ journal'[Len(journal) + 1] = x
        /\ \A k \in DOMAIN journal' : k \in DOMAIN journal \/ k = Len(journal) + 1
    BY <2>1, AppendIs
  <2>3. Len(journal) + 1 \notin DOMAIN journal
    BY <2>2
  <2> QED
    BY <1>2, <2>1, <2>2, <2>3
<1> QED
  BY <1>1, <1>2

\* The code of earlier attempts stays what it was; what decides now, decides as it did.
LEMMA CodeGrows ==
  ASSUME TypeOK, CodeIs, Same \/ Renews
  PROVE  /\ me' \in Nat /\ me <= me' /\ DOMAIN code \subseteq DOMAIN code'
         /\ DOMAIN code' = 1 .. me' /\ mine' \in Nat
         /\ \A a \in DOMAIN code : code'[a] = code[a] /\ code[a] <= mine
         /\ mine <= mine' /\ (mine' = mine => MoreOf(plan, plan'))
         /\ Same => me' = me /\ mine' = mine
         /\ Renews => me' = me + 1
         /\ CodeIs'
<1>1. /\ me \in Nat /\ me >= 1 /\ DOMAIN code = 1 .. me /\ mine \in Nat /\ code \in Seq(Nat)
      /\ \A a \in DOMAIN code : code[a] \in Nat
  BY StateIs DEF TypeOK
<1>2. \A a \in DOMAIN code : code[a] <= mine
  <2>1. me \in DOMAIN code /\ \A a \in DOMAIN code : a <= me
    BY <1>1
  <2> QED
    BY <2>1 DEF CodeIs, mine
<1>3. CASE Same /\ ~Renews
  <2>1. code' = code /\ MoreOf(plan, plan') /\ me' = me /\ mine' = mine
    BY <1>3 DEF Same, me, mine
  <2>2. CodeIs'
    BY <2>1 DEF CodeIs
  <2> QED
    BY <1>1, <1>2, <1>3, <2>1, <2>2
<1>4. CASE Renews
  <2>1. \E c \in {mine, mine + 1} : code' = Append(code, c) /\ (c = mine => plan' = plan)
    BY <1>1, <1>4 DEF Renews, Resume
  <2>2. PICK c \in {mine, mine + 1} : code' = Append(code, c) /\ (c = mine => plan' = plan)
    BY <2>1
  <2>3. c \in Nat /\ mine <= c
    BY <1>1
  <2>4. /\ Len(code') = Len(code) + 1 /\ DOMAIN code' = 1 .. Len(code) + 1
        /\ \A a \in DOMAIN code : a \in DOMAIN code' /\ code'[a] = code[a]
        /\ code'[Len(code) + 1] = c
        /\ \A a \in DOMAIN code' : a \in DOMAIN code \/ a = Len(code) + 1
    BY <1>1, <2>2, <2>3, AppendIs
  <2>5. me' = me + 1 /\ mine' = c /\ DOMAIN code' = 1 .. me'
    BY <2>4 DEF me, mine
  <2>6. mine' = mine => MoreOf(plan, plan')
    BY <2>2, <2>5 DEF MoreOf
  <2>7. CodeIs'
    <3> SUFFICES ASSUME NEW a \in DOMAIN code', NEW b \in DOMAIN code', a <= b
                 PROVE  code'[a] <= code'[b]
      BY DEF CodeIs
    <3>1. CASE b \in DOMAIN code
      <4>1. a \in DOMAIN code
        BY <1>1, <2>5, <3>1
      <4> QED
        BY <2>4, <3>1, <4>1 DEF CodeIs
    <3>2. CASE b = Len(code) + 1
      <4>1. code'[b] = c
        BY <2>4, <3>2
      <4>2. CASE a \in DOMAIN code
        BY <1>1, <1>2, <2>3, <2>4, <4>1, <4>2
      <4>3. CASE a = Len(code) + 1
        BY <2>3, <2>4, <4>1, <4>3
      <4> QED
        BY <2>4, <4>2, <4>3
    <3> QED
      BY <2>4, <3>1, <3>2
  <2>8. me <= me' /\ me' \in Nat /\ DOMAIN code \subseteq DOMAIN code'
    BY <1>1, <2>5
  <2>9. ~Same
    BY <1>1, <2>4 DEF Same
  <2> QED
    BY <1>2, <1>4, <2>3, <2>4, <2>5, <2>6, <2>7, <2>8, <2>9
<1> QED
  BY <1>3, <1>4

LEMMA DispatchIs ==
  ASSUME TypeOK, NodeIs, Dispatch
  PROVE  /\ node = "parked" /\ Live
         /\ \/ IsSent(claims, Effect) /\ claims' = claims
            \/ /\ ~IsSent(claims, Effect)
               /\ \E outcome \in {"sent", "not sent"} :
                    /\ DOMAIN claims' = DOMAIN claims \cup {Effect}
                    /\ claims'[Effect] = [by |-> me, state |-> outcome]
                    /\ \A e \in DOMAIN claims : e # Effect => claims'[e] = claims[e]
                    /\ outcome = "sent" <=> node' = "deciding"
         /\ \/ /\ node' = "deciding" /\ wrote' = wrote + 1 /\ did' = Append(did, Writes)
               /\ IsSent(claims', Effect)
               /\ UNCHANGED <<calls, asking, journal, code, plan, again, kept, replayed>>
            \/ /\ node' = "down" /\ calls' = <<>> /\ did' = <<>> /\ wrote' = 0 /\ ~asking'
               /\ UNCHANGED <<journal, code, plan, again, kept, replayed>>
<1>1. PICK outcome \in {"sent", "not sent"} :
       /\ IF IsSent(claims, Effect)
          THEN outcome = "sent" /\ UNCHANGED claims
          ELSE claims' = [e \in DOMAIN claims \cup {Effect} |->
                            IF e = Effect THEN [by |-> me, state |-> outcome]
                            ELSE claims[e]]
       /\ IF outcome = "sent"
          THEN /\ node' = "deciding" /\ wrote' = wrote + 1 /\ did' = Append(did, Writes)
               /\ UNCHANGED <<calls, asking>>
          ELSE node' = "down" /\ calls' = <<>> /\ did' = <<>> /\ wrote' = 0 /\ asking' = FALSE
  BY DEF Dispatch, Does, Fresh, IsSent
<1>2. node = "parked" /\ Live /\ UNCHANGED <<journal, code, plan, again, kept, replayed>>
  BY DEF Dispatch, NodeIs
<1>3. CASE IsSent(claims, Effect)
  BY <1>1, <1>2, <1>3
<1>4. CASE ~IsSent(claims, Effect)
  <2>1. /\ DOMAIN claims' = DOMAIN claims \cup {Effect}
        /\ claims'[Effect] = [by |-> me, state |-> outcome]
        /\ \A e \in DOMAIN claims : e # Effect => claims'[e] = claims[e]
    BY <1>1, <1>4
  <2>2. outcome = "sent" => IsSent(claims', Effect)
    BY <2>1 DEF IsSent
  <2>3. outcome = "sent" <=> node' = "deciding"
    BY <1>1
  <2> QED
    BY <1>1, <1>2, <1>4, <2>1, <2>2, <2>3
<1> QED
  BY <1>3, <1>4

LEMMA DispatchClaims ==
  ASSUME TypeOK, NodeIs, Dispatch
  PROVE  /\ node = "parked" /\ Live /\ journal' = journal /\ code' = code /\ plan' = plan
         /\ claims' # claims =>
              /\ ~IsSent(claims, Effect) /\ claims'[Effect].by = me
              /\ DOMAIN claims' = DOMAIN claims \cup {Effect}
              /\ \A e \in DOMAIN claims : e # Effect => claims'[e] = claims[e]
<1>1. node = "parked" /\ Live /\ journal' = journal /\ code' = code /\ plan' = plan
  BY DispatchIs
<1>2. CASE claims' # claims
  <2>1. PICK outcome \in {"sent", "not sent"} :
          /\ ~IsSent(claims, Effect) /\ claims'[Effect] = [by |-> me, state |-> outcome]
          /\ DOMAIN claims' = DOMAIN claims \cup {Effect}
          /\ \A e \in DOMAIN claims : e # Effect => claims'[e] = claims[e]
    BY <1>2, DispatchIs
  <2>2. claims'[Effect].by = me
    <3> DEFINE c == claims'[Effect]
    <3>1. c = [by |-> me, state |-> outcome]
      BY <2>1
    <3> HIDE DEF c
    <3>2. c.by = me
      BY <3>1
    <3> QED
      BY <3>2 DEF c
  <2> QED
    BY <1>1, <2>1, <2>2
<1> QED
  BY <1>1, <1>2

\* What was sent stays sent, by the one that sent it.
LEMMA SentStays ==
  ASSUME TypeOK, NodeIs, claims' = claims \/ Dispatch
  PROVE  \A e : IsSent(claims, e) => IsSent(claims', e) /\ claims'[e] = claims[e]
<1>1. CASE claims' = claims
  BY <1>1
<1>2. CASE Dispatch
  BY <1>2, DispatchIs DEF IsSent
<1> QED
  BY <1>1, <1>2

LEMMA JournalNext ==
  ASSUME TypeOK, JournalIs, CodeIs, Own, Same \/ Renews,
         journal' = journal \/ \E x \in Entries : Adds(x)
  PROVE  JournalIs'
<1>1. /\ \A o \in DOMAIN journal : o \in DOMAIN journal' /\ journal'[o] = journal[o]
      /\ \A o \in DOMAIN journal' : o \in DOMAIN journal \/
           (o = Len(journal) + 1 /\ o \notin DOMAIN journal /\ journal'[o].by = me
            /\ Adds(journal'[o]))
  BY EntriesStay
<1>2. Len(journal) \in Nat /\ DOMAIN journal = 1 .. Len(journal)
      /\ me \in DOMAIN code /\ \A a \in DOMAIN code : a <= me
  BY StateIs
<1>3. DOMAIN code \subseteq DOMAIN code'
  BY CodeGrows
<1>4. \A o \in DOMAIN journal' : journal'[o].by \in DOMAIN code'
  BY <1>1, <1>2, <1>3 DEF JournalIs
<1>5. ASSUME NEW o \in DOMAIN journal', NEW p \in DOMAIN journal', o < p
      PROVE  journal'[o].by <= journal'[p].by
  <2>1. CASE o \in DOMAIN journal /\ p \in DOMAIN journal
    BY <1>1, <1>5, <2>1 DEF JournalIs
  <2>2. CASE o \in DOMAIN journal /\ p \notin DOMAIN journal
    BY <1>1, <1>2, <2>2 DEF JournalIs
  <2>3. CASE o \notin DOMAIN journal
    <3>1. o = Len(journal) + 1 /\ (p \in DOMAIN journal \/ p = Len(journal) + 1)
      BY <1>1, <2>3
    <3> QED
      BY <1>2, <1>5, <3>1
  <2> QED
    BY <2>1, <2>2, <2>3
<1>6. ASSUME NEW o \in DOMAIN journal', journal'[o].kind = "response"
      PROVE  /\ journal'[o].of \in DOMAIN journal' /\ journal'[o].of < o
             /\ journal'[journal'[o].of].kind = "request"
             /\ journal'[journal'[o].of].by = journal'[o].by
  <2>1. CASE o \in DOMAIN journal
    BY <1>1, <1>6, <2>1 DEF JournalIs
  <2>2. CASE o \notin DOMAIN journal
    <3>1. o = Len(journal) + 1 /\ journal'[o].by = me /\ Adds(journal'[o])
      BY <1>1, <2>2
    <3>2. PICK i \in DOMAIN calls : journal'[o].of = calls[i].request
      BY <1>6, <3>1 DEF Adds
    <3>3. Live /\ node # "down"
      BY <3>1 DEF Adds
    <3>4. /\ calls[i].request \in DOMAIN journal
          /\ journal[calls[i].request].kind = "request" /\ journal[calls[i].request].by = me
      BY <3>3 DEF Own
    <3> QED
      BY <1>1, <1>2, <3>1, <3>2, <3>4
  <2> QED
    BY <2>1, <2>2
<1> QED
  BY <1>4, <1>5, <1>6 DEF JournalIs

(***************************************************************************)
(* What an attempt decides on, and what it decided on before.              *)
(***************************************************************************)

\* Once its calls are over, all it asked came back to it, and is what it saw.
LEMMA ToldNow ==
  ASSUME TypeOK, JournalIs, CallsAre, NodeIs, Own, Live, node = "deciding", MayWrite
  PROVE  ToldBy(journal, TurnsBefore(journal, me, Len(journal) + 1), did)
<1> DEFINE n == Len(calls)
           f == [i \in 1 .. n |-> calls[i].request]
           R == AskedBefore(journal, me, Len(journal) + 1)
           T == TurnsBefore(journal, me, Len(journal) + 1)
<1>1. /\ n \in Nat /\ DOMAIN calls = 1 .. n /\ Len(journal) \in Nat
      /\ DOMAIN journal = 1 .. Len(journal) /\ journal \in Seq(Entries)
  BY StateIs DEF TypeOK
<1>2. \A r : OutcomesIn(journal, r) = Outcomes(r)
  BY DEF OutcomesIn, Outcomes
<1>3. ASSUME NEW i \in DOMAIN calls
      PROVE  /\ calls[i].request \in Nat /\ calls[i].state = "over"
             /\ calls[i].request \in DOMAIN journal
             /\ journal[calls[i].request].kind = "request" /\ journal[calls[i].request].by = me
             /\ journal[calls[i].request].question = calls[i].question
             /\ \A j \in DOMAIN calls : i < j => calls[i].request < calls[j].request
             /\ calls[i].told \in Outcomes(calls[i].request)
             /\ Newest(Outcomes(calls[i].request)) = calls[i].told
  <2>1. calls[i].request \in Nat /\ calls[i].state = "over"
    BY CallIs DEF MayWrite, Unfinished
  <2>2. /\ calls[i].request \in DOMAIN journal
        /\ journal[calls[i].request].kind = "request" /\ journal[calls[i].request].by = me
        /\ journal[calls[i].request].question = calls[i].question
        /\ \A j \in DOMAIN calls : i < j => calls[i].request < calls[j].request
        /\ calls[i].told \in Outcomes(calls[i].request)
        /\ \A o \in Outcomes(calls[i].request) : o <= calls[i].told
    BY <2>1 DEF Own
  <2>3. Outcomes(calls[i].request) \in SUBSET Nat /\ \A x \in Outcomes(calls[i].request) : x <= Len(journal)
    BY <1>1 DEF Outcomes
  <2>4. Newest(Outcomes(calls[i].request)) = calls[i].told
    BY <1>1, <2>2, <2>3, NewestIs
  <2> QED
    BY <2>1, <2>2, <2>4
<1>4. (\A i \in 1 .. n : f[i] \in R) /\ (\A r \in R : \E i \in 1 .. n : r = f[i])
  <2>1. ASSUME NEW r \in R
        PROVE  \E i \in 1 .. n : r = f[i]
    <3>1. r \in DOMAIN journal /\ journal[r].kind = "request" /\ journal[r].by = me
      BY DEF AskedBefore
    <3>2. \E i \in DOMAIN calls : calls[i].request = r
      BY <3>1 DEF Own
    <3> QED
      BY <1>1, <3>2
  <2>2. ASSUME NEW i \in 1 .. n
        PROVE  f[i] \in R
    <3>1. /\ calls[i].request \in DOMAIN journal /\ calls[i].told \in Outcomes(calls[i].request)
          /\ journal[calls[i].request].kind = "request" /\ journal[calls[i].request].by = me
      BY <1>1, <1>3
    <3>2. calls[i].request < Len(journal) + 1
      BY <1>1, <3>1
    <3>3. OutcomesIn(journal, calls[i].request) # {}
      BY <1>2, <3>1
    <3>4. calls[i].request \in R
      BY <3>1, <3>2, <3>3 DEF AskedBefore
    <3> QED
      BY <3>4
  <2> QED
    BY <2>1, <2>2
<1>5. \A i \in 1 .. n : f[i] \in Nat
  BY <1>1, <1>3
<1>6. \A i, j \in 1 .. n : i < j => f[i] < f[j]
  BY <1>1, <1>3
<1>7. Cardinality(R) = n /\ \A i \in 1 .. n : Nth(R, i) = f[i]
  <2>1. n \in Nat
    BY <1>1
  <2> HIDE DEF f, R, n
  <2>2. IsFiniteSet(R) /\ Cardinality(R) = n /\ \A i \in 1 .. n : Nth(R, i) = f[i]
    BY ONLY <2>1, <1>4, <1>5, <1>6, NthListed
  <2> QED
    BY <2>2
<1>8. DOMAIN T = 1 .. n /\ \A i \in 1 .. n : T[i] = calls[i].told
  <2>1. T = [i \in 1 .. Cardinality(R) |-> Newest(OutcomesIn(journal, Nth(R, i)))]
    BY DEF TurnsBefore
  <2>2. \A i \in 1 .. n : Nth(R, i) = calls[i].request
    BY <1>7
  <2> HIDE DEF R, T, f
  <2>3. \A i \in 1 .. n : T[i] = Newest(OutcomesIn(journal, calls[i].request))
    BY <1>7, <2>1, <2>2
  <2> QED
    BY <1>1, <1>2, <1>3, <1>7, <2>1, <2>3
<1> HIDE DEF T, R, f, n
<1>9. \A i \in DOMAIN calls : T[i] = calls[i].told /\ i \in DOMAIN T
                              /\ journal[calls[i].told].of = calls[i].request
  BY <1>1, <1>3, <1>8 DEF Outcomes
<1>10. ASSUME NEW k \in DOMAIN did, did[k].does = "ask"
       PROVE  did[k].call \in DOMAIN T /\ journal[journal[T[did[k].call]].of].question = did[k].of
  <2>1. did[k].call \in DOMAIN calls /\ did[k].of = calls[did[k].call].question
    BY <1>10 DEF CallsAre
  <2> QED
    BY <1>3, <1>9, <2>1
<1>11. ASSUME NEW k \in DOMAIN did, did[k].does = "see"
       PROVE  /\ did[k].call \in DOMAIN T /\ journal[T[did[k].call]].what = did[k].of
              /\ \A j \in 1 .. k - 1 : did[j].does = "see" => T[did[j].call] < T[did[k].call]
  <2>1. did[k].call \in DOMAIN calls
    BY <1>11 DEF CallsAre
  <2>2. /\ journal[calls[did[k].call].told].what = did[k].of
        /\ \A j \in 1 .. k - 1 :
             did[j].does = "see" => calls[did[j].call].told < calls[did[k].call].told
    BY <1>11 DEF Own
  <2>3. \A j \in 1 .. k - 1 : did[j].does = "see" => did[j].call \in DOMAIN calls
    BY StateIs DEF CallsAre
  <2> QED
    BY <1>9, <2>1, <2>2, <2>3
<1>12. \A i \in DOMAIN T : \E k \in DOMAIN did : did[k].does = "see" /\ did[k].call = i
  BY <1>1, <1>3, <1>8 DEF CallsAre
<1>13. ToldBy(journal, T, did)
  BY <1>10, <1>11, <1>12 DEF ToldBy
<1> QED
  BY <1>13 DEF T

\* The outcomes a write was decided on are told for good.
LEMMA StagedStay ==
  ASSUME TypeOK, JournalIs, Own, journal' = journal \/ \E x \in Entries : Adds(x),
         NEW o \in Stagings(journal)
  PROVE  LET T == TurnsBefore(journal, journal[o].by, o)
         IN  /\ o \in Stagings(journal') /\ journal'[o] = journal[o]
             /\ TurnsBefore(journal', journal[o].by, o) = T
             /\ \A i \in DOMAIN T : /\ T[i] \in DOMAIN journal /\ journal'[T[i]] = journal[T[i]]
                                    /\ journal[T[i]].of \in DOMAIN journal
                                    /\ journal'[journal[T[i]].of] = journal[journal[T[i]].of]
                                    /\ journal[T[i]].kind = "response"
                                    /\ journal[T[i]].by = journal[o].by
             /\ \A d : ToldBy(journal, T, d) => ToldBy(journal', T, d)
<1> DEFINE a == journal[o].by
           T == TurnsBefore(journal, a, o)
<1>1. /\ journal \in Seq(Entries) /\ DOMAIN journal = 1 .. Len(journal) /\ Len(journal) \in Nat
      /\ o \in DOMAIN journal
  BY StateIs DEF TypeOK, Stagings
<1>2. \A p \in DOMAIN journal : p \in DOMAIN journal' /\ journal'[p] = journal[p]
  BY EntriesStay
<1>3. TurnsBefore(journal', a, o) = T
  <2>1. CASE journal' = journal
    BY <2>1
  <2>2. ASSUME NEW x \in Entries, Adds(x)
        PROVE  TurnsBefore(journal', a, o) = T
    <3>1. x.kind = "response" => ~(/\ x.of \in DOMAIN journal /\ journal[x.of].kind = "request"
                                   /\ journal[x.of].by = a /\ x.of < o)
      <4> SUFFICES ASSUME x.kind = "response", x.of \in DOMAIN journal,
                          journal[x.of].by = a, x.of < o
                   PROVE  FALSE
        OBVIOUS
      <4>1. PICK i \in DOMAIN calls : Unfinished(i) /\ x.of = calls[i].request
        BY <2>2 DEF Adds
      <4>2. Live /\ node # "down"
        BY <2>2 DEF Adds
      <4>3. journal[calls[i].request].by = me
        BY <4>2 DEF Own
      <4>4. calls[i].request > o
        BY <4>1, <4>2, <4>3 DEF Own
      <4> QED
        BY <1>1, <4>1, <4>4
    <3>2. o \in 1 .. Len(journal) + 1
      BY <1>1
    <3>2a. journal' = Append(journal, x)
      BY <2>2 DEF Adds
    <3>3. TurnsBefore(Append(journal, x), a, o) = TurnsBefore(journal, a, o)
      BY <1>1, <3>1, <3>2, TurnsStay
    <3> QED
      BY <3>2a, <3>3
  <2> QED
    BY <2>1, <2>2
<1>4. ASSUME NEW i \in DOMAIN T
      PROVE  /\ T[i] \in DOMAIN journal /\ journal'[T[i]] = journal[T[i]]
             /\ journal[T[i]].of \in DOMAIN journal
             /\ journal'[journal[T[i]].of] = journal[journal[T[i]].of]
             /\ journal[T[i]].kind = "response"
             /\ journal[T[i]].by = a
  <2>1. /\ T[i] \in DOMAIN journal /\ journal[T[i]].kind = "response"
        /\ journal[T[i]].of \in AskedBefore(journal, a, o)
    BY <1>1, TurnsAre
  <2>2. journal[T[i]].of \in DOMAIN journal /\ journal[journal[T[i]].of].by = a
    BY <2>1 DEF AskedBefore
  <2>3. journal[T[i]].by = a
    BY <2>1, <2>2 DEF JournalIs
  <2> QED
    BY <1>2, <2>1, <2>2, <2>3
<1> HIDE DEF T
<1>5. \A d : ToldBy(journal, T, d) => ToldBy(journal', T, d)
  <2> TAKE d
  <2> HAVE ToldBy(journal, T, d)
  <2>1. \A i \in DOMAIN T : journal[T[i]] = journal'[T[i]]
                            /\ journal[journal[T[i]].of] = journal'[journal[T[i]].of]
    BY <1>4
  <2> QED
    BY <2>1, ToldStays
<1>6. o \in Stagings(journal') /\ journal'[o] = journal[o]
  BY <1>1, <1>2 DEF Stagings
<1> QED
  BY <1>3, <1>4, <1>5, <1>6 DEF T

LEMMA StagingIs ==
  ASSUME TypeOK, NEW o \in Stagings(journal)
  PROVE  /\ o \in DOMAIN journal /\ o \in Nat /\ journal[o].by \in Nat
         /\ journal[o].effect \in Effects /\ journal[o].effect.from \in Histories
         /\ journal[o].effect.nth \in Nat /\ journal[o].effect.code \in Nat
         /\ journal[o].effect = [code |-> journal[o].effect.code, nth |-> journal[o].effect.nth,
                                 from |-> journal[o].effect.from]
<1>1. o \in DOMAIN journal /\ journal[o].kind = "staged" /\ journal \in Seq(Entries)
  BY DEF Stagings, TypeOK
<1>2. /\ o \in Nat /\ journal[o].by \in Nat
      /\ journal[o].effect \in Effects /\ journal[o].effect.from \in Histories
      /\ journal[o].effect.nth \in Nat /\ journal[o].effect.code \in Nat
  BY <1>1, EntriesAre
<1>3. journal[o].effect = [code |-> journal[o].effect.code, nth |-> journal[o].effect.nth,
                           from |-> journal[o].effect.from]
  BY <1>2 DEF Effects
<1> QED
  BY <1>1, <1>2, <1>3

LEMMA StagedNext ==
  ASSUME TypeOK, JournalIs, CodeIs, StagedAre, CallsAre, NodeIs, Own,
         Same \/ Renews, journal' = journal \/ \E x \in Entries : Adds(x),
         claims' = claims \/ Dispatch
  PROVE  StagedAre'
<1> SUFFICES ASSUME NEW o \in Stagings(journal'), NEW e, e = journal'[o].effect
             PROVE  /\ e.code = code'[journal'[o].by]
                    /\ Sound(e.from) /\ ~EndsIn(e.from, "wait")
                    /\ ToldBy(journal', TurnsBefore(journal', journal'[o].by, o), e.from)
                    /\ \A k \in DOMAIN e.from : e.from[k].does = "write" => e.from[k].call < e.nth
                    /\ WritesSent(claims', e.code, e.from)
                    /\ e.code = mine' =>
                         /\ Follows(plan', e.from)
                         /\ e.from \in DOMAIN plan'
                         /\ plan'[e.from] = Step("write", e.nth, Nothing)
  BY DEF StagedAre
<1>1. \A f : IsSent(claims, f) => IsSent(claims', f)
  BY SentStays
<1>2. /\ \A a \in DOMAIN code : code'[a] = code[a] /\ code[a] <= mine
      /\ mine \in Nat /\ mine' \in Nat /\ mine <= mine' /\ (mine' = mine => MoreOf(plan, plan'))
      /\ \A a \in DOMAIN code : code[a] \in Nat
  BY CodeGrows, StateIs
<1>3. CASE o \in DOMAIN journal
  <2>1. o \in Stagings(journal)
    BY <1>3, EntriesStay DEF Stagings
  <2>2. /\ e = journal[o].effect /\ journal'[o].by = journal[o].by
        /\ \A d : ToldBy(journal, TurnsBefore(journal, journal[o].by, o), d) =>
                  ToldBy(journal', TurnsBefore(journal', journal'[o].by, o), d)
    BY <2>1, StagedStay
  <2>3. /\ e.code = code[journal[o].by]
        /\ Sound(e.from) /\ ~EndsIn(e.from, "wait")
        /\ ToldBy(journal, TurnsBefore(journal, journal[o].by, o), e.from)
        /\ \A k \in DOMAIN e.from : e.from[k].does = "write" => e.from[k].call < e.nth
        /\ WritesSent(claims, e.code, e.from)
        /\ e.code = mine =>
             /\ Follows(plan, e.from)
             /\ e.from \in DOMAIN plan /\ plan[e.from] = Step("write", e.nth, Nothing)
    BY <2>1, <2>2 DEF StagedAre
  <2>4. journal[o].by \in DOMAIN code
    BY <1>3 DEF JournalIs
  <2>5. e.code = mine' => e.code = mine /\ MoreOf(plan, plan')
    <3>1. e.code \in Nat /\ e.code <= mine
      BY <1>2, <2>3, <2>4
    <3>2. mine \in Nat /\ mine' \in Nat /\ mine <= mine' /\ (mine' = mine => MoreOf(plan, plan'))
      BY <1>2
    <3> HIDE DEF mine
    <3> QED
      BY <3>1, <3>2
  <2>6. e.code = mine' =>
          /\ Follows(plan', e.from)
          /\ e.from \in DOMAIN plan' /\ plan'[e.from] = Step("write", e.nth, Nothing)
    BY <2>3, <2>5, FollowsMore DEF MoreOf
  <2>7. WritesSent(claims', e.code, e.from)
    BY <1>1, <2>3, SentMore
  <2> QED
    BY <1>2, <2>2, <2>3, <2>4, <2>6, <2>7
<1>4. CASE o \notin DOMAIN journal
  <2>1. o = Len(journal) + 1 /\ journal'[o].by = me /\ Adds(journal'[o]) /\ journal'[o].kind = "staged"
    BY <1>4, EntriesStay DEF Stagings
  <2>2. Stage /\ e = Effect /\ Live
    BY <2>1 DEF Adds
  <2>3. node = "deciding" /\ MayWrite /\ Writes \in Steps /\ Decides(Writes)
    BY <2>2, StepTypes DEF Stage, Decides
  <2>4. e.code = mine /\ e.nth = wrote + 1 /\ e.from = did
    BY <2>2 DEF Effect
  <2>5. UNCHANGED <<claims, code>>
    BY <2>2 DEF Stage
  <2>6. ToldBy(journal', TurnsBefore(journal', me, o), did)
    <3> DEFINE T == TurnsBefore(journal, me, o)
    <3>1. ToldBy(journal, T, did)
      BY <2>1, <2>2, <2>3, ToldNow
    <3>2. /\ journal \in Seq(Entries) /\ o \in 1 .. Len(journal) + 1 /\ journal'[o] \in Entries
          /\ journal' = Append(journal, journal'[o])
      BY <2>1, StateIs DEF TypeOK, Adds
    <3>3. TurnsBefore(Append(journal, journal'[o]), me, o) = T
      BY <2>1, <3>2, TurnsStay
    <3>4. \A i \in DOMAIN T : /\ T[i] \in DOMAIN journal /\ journal[T[i]].of \in DOMAIN journal
      <4>1. \A i \in DOMAIN T : T[i] \in DOMAIN journal /\ journal[T[i]].kind = "response"
        BY <3>2, TurnsAre
      <4> QED
        BY <4>1 DEF JournalIs
    <3>5. \A p \in DOMAIN journal : journal'[p] = journal[p]
      BY EntriesStay
    <3> HIDE DEF T
    <3>6. ToldBy(journal', T, did)
      BY <3>1, <3>4, <3>5, ToldStays
    <3> QED
      BY <3>2, <3>3, <3>6
  <2>7. Sound(did) /\ ~EndsIn(did, "wait") /\ Follows(plan, did)
    BY <2>3 DEF NodeIs
  <2>8. \A k \in DOMAIN did : did[k].does = "write" => did[k].call < wrote + 1
    <3>1. \A k \in DOMAIN did : did[k].call \in Nat
      BY HistoryIs DEF TypeOK
    <3>2. \A k \in DOMAIN did : did[k].does = "write" => did[k].call <= wrote
      BY DEF CallsAre
    <3> QED
      BY <3>1, <3>2, StateIs
  <2>9. WritesSent(claims, mine, did)
    BY <2>2, <2>3 DEF Own
  <2>10. /\ Follows(plan', did) /\ did \in DOMAIN plan'
         /\ plan'[did] = Step("write", wrote + 1, Nothing)
    BY <2>3, <2>7, DecidesIs, FollowsMore DEF Writes
  <2>11. code'[me] = mine
    BY <2>5 DEF mine
  <2> QED
    BY <2>1, <2>4, <2>5, <2>6, <2>7, <2>8, <2>9, <2>10, <2>11
<1> QED
  BY <1>3, <1>4


(***************************************************************************)
(* What has been sent.                                                     *)
(***************************************************************************)

Keeps == /\ Same \/ Renews
         /\ journal' = journal \/ \E x \in Entries : Adds(x)
         /\ claims' = claims \/ Dispatch

\* Of the attempts whose code was this, the last that sent something is the guide.
LEMMA GuideExists ==
  ASSUME TypeOK, NEW o \in DOMAIN journal, Guides(o)
  PROVE  \E g \in DOMAIN journal : TheGuide(g) /\ o <= g
<1> DEFINE S == {p \in DOMAIN journal : Guides(p)}
<1>1. Len(journal) \in Nat /\ DOMAIN journal = 1 .. Len(journal)
  BY StateIs
<1>2. S \in SUBSET Nat /\ (\A x \in S : x <= Len(journal)) /\ o \in S
  BY <1>1
<1>3. Max(S) \in S /\ \A x \in S : x <= Max(S)
  <2> HIDE DEF S
  <2> QED
    BY <1>1, <1>2, MaxIs
<1>4. TheGuide(Max(S)) /\ Max(S) \in DOMAIN journal /\ o <= Max(S)
  BY <1>2, <1>3 DEF TheGuide
<1> QED
  BY <1>4

\* What it did, and the turns it was told.
LEMMA GuideIs ==
  ASSUME TypeOK, JournalIs, StagedAre, NEW g \in DOMAIN journal, Guides(g)
  PROVE  /\ g \in Stagings(journal) /\ journal[g].by \in 1 .. me - 1 /\ code[journal[g].by] = mine
         /\ journal[g].effect \in Effects /\ journal[g].effect.from \in Histories
         /\ journal[g].effect.code = mine /\ IsSent(claims, journal[g].effect)
         /\ claims[journal[g].effect].by = journal[g].by
         /\ journal[g].effect = [code |-> mine, nth |-> journal[g].effect.nth,
                                 from |-> journal[g].effect.from]
         /\ Sound(journal[g].effect.from) /\ ~EndsIn(journal[g].effect.from, "wait")
         /\ ToldBy(journal, TurnsBefore(journal, journal[g].by, g), journal[g].effect.from)
         /\ WritesSent(claims, mine, journal[g].effect.from)
         /\ Follows(plan, journal[g].effect.from)
         /\ journal[g].effect.from \in DOMAIN plan
         /\ plan[journal[g].effect.from] = Step("write", journal[g].effect.nth, Nothing)
<1>1. /\ g \in Stagings(journal) /\ IsSent(claims, journal[g].effect)
      /\ claims[journal[g].effect].by = journal[g].by
      /\ journal[g].by < me /\ code[journal[g].by] = mine
  BY DEF Guides, Sends
<1>2. journal[g].by \in DOMAIN code
  BY DEF JournalIs
<1>3. journal[g].by \in 1 .. me - 1
  BY <1>1, <1>2, StateIs
<1>4. /\ journal[g].effect \in Effects /\ journal[g].effect.from \in Histories
      /\ journal[g].effect = [code |-> journal[g].effect.code, nth |-> journal[g].effect.nth,
                              from |-> journal[g].effect.from]
  BY <1>1, StagingIs
<1>5. /\ journal[g].effect.code = mine
      /\ Sound(journal[g].effect.from) /\ ~EndsIn(journal[g].effect.from, "wait")
      /\ ToldBy(journal, TurnsBefore(journal, journal[g].by, g), journal[g].effect.from)
      /\ WritesSent(claims, mine, journal[g].effect.from)
      /\ Follows(plan, journal[g].effect.from)
      /\ journal[g].effect.from \in DOMAIN plan
      /\ plan[journal[g].effect.from] = Step("write", journal[g].effect.nth, Nothing)
  BY <1>1 DEF StagedAre
<1> QED
  BY <1>1, <1>3, <1>4, <1>5

\* A write that has not been sent comes after all that its code has sent.
LEMMA SentBefore ==
  ASSUME TypeOK, JournalIs, StagedAre, Chain, NodeIs, Own, Guided,
         node = "parked", ~IsSent(claims, Effect),
         NEW o \in DOMAIN journal, Sends(journal, claims, o), journal[o].effect.code = mine
  PROVE  Agree(journal[o].effect.from, did) /\ Len(journal[o].effect.from) < Len(did)
<1> DEFINE from == journal[o].effect.from
<1>1. /\ o \in Stagings(journal) /\ IsSent(claims, journal[o].effect)
      /\ from \in Histories /\ did \in Histories /\ Live
  BY StagingIs DEF Sends, TypeOK, NodeIs
<1>2. CASE journal[o].by = me
  <2>1. Agree(from, did) /\ (Len(from) < Len(did) \/ o = Len(journal))
    BY <1>1, <1>2 DEF Own
  <2>2. o # Len(journal)
    BY <1>1 DEF NodeIs
  <2> QED
    BY <2>1, <2>2
<1>3. CASE journal[o].by # me
  <2>1. journal[o].by \in DOMAIN code /\ code[journal[o].by] = mine
    BY <1>1 DEF JournalIs, StagedAre
  <2>2. Guides(o)
    BY <1>3, <2>1, StateIs DEF Guides
  <2>3. PICK g \in DOMAIN journal : TheGuide(g) /\ o <= g
    BY <2>2, GuideExists
  <2> DEFINE d == journal[g].effect.from
  <2>4. /\ Guides(g) /\ Sends(journal, claims, g)
        /\ d \in Histories /\ journal[g].effect.code = mine /\ IsSent(claims, journal[g].effect)
        /\ journal[g].effect = [code |-> mine, nth |-> journal[g].effect.nth, from |-> d]
        /\ Sound(d) /\ WritesSent(claims, mine, d) /\ Follows(plan, d)
        /\ plan[d] = Step("write", journal[g].effect.nth, Nothing)
    <3>1. Guides(g)
      BY <2>3 DEF TheGuide
    <3>2. Sends(journal, claims, g)
      BY <3>1 DEF Guides
    <3> QED
      BY <3>1, <3>2, GuideIs
  <2>5. Agree(from, d) /\ Len(from) <= Len(d)
    BY <2>3, <2>4 DEF Chain
  <2>6. Agree(did, d)
    BY <1>1, <2>3 DEF Guided, Lock
  <2>7. did \in DOMAIN plan /\ plan[did] = Writes /\ ~EndsIn(did, "wait")
    BY DEF NodeIs
  <2> HIDE DEF d
  <2>8. Len(d) \in Nat /\ Len(did) \in Nat /\ Len(from) \in Nat
    BY <1>1, <2>4, HistoryIs
  <2>9. Len(did) # Len(d)
    <3> SUFFICES ASSUME Len(did) = Len(d) PROVE FALSE
      OBVIOUS
    <3>1. did = d
      BY <1>1, <2>4, <2>6, SameHistory
    <3>2. journal[g].effect.nth = wrote + 1
      BY <2>4, <2>7, <3>1 DEF Writes, Step
    <3>3. journal[g].effect = Effect
      BY <2>4, <3>1, <3>2 DEF Effect
    <3> QED
      BY <2>4, <3>3
  <2>10. ~(Len(did) < Len(d))
    <3> SUFFICES ASSUME Len(did) < Len(d) PROVE FALSE
      OBVIOUS
    <3>1. /\ Len(did) + 1 \in DOMAIN d /\ plan[did] = d[Len(did) + 1]
      BY <1>1, <2>4, <2>6, <2>7, NextStep
    <3>2. d[Len(did) + 1].does = "write" /\ d[Len(did) + 1].call = wrote + 1
      BY <2>7, <3>1 DEF Writes, Step
    <3>3. Len(did) + 1 - 1 = Len(did) /\ Upto(d, Len(did)) = did
      BY <1>1, <2>4, <2>6, <2>8, Shorter
    <3>4. IsSent(claims, [code |-> mine, nth |-> wrote + 1, from |-> did])
      BY <2>4, <3>1, <3>2, <3>3 DEF WritesSent
    <3> QED
      BY <3>4 DEF Effect
  <2>11. Len(from) < Len(did) /\ Len(d) < Len(did)
    BY <2>5, <2>8, <2>9, <2>10
  <2>12. Agree(from, did)
    <3>1. DOMAIN from = 1 .. Len(from) /\ DOMAIN d = 1 .. Len(d)
      BY <1>1, <2>4, HistoryIs
    <3>2. DOMAIN from \subseteq DOMAIN d
      BY <2>5, <2>8, <3>1
    <3> QED
      BY <2>5, <2>6, <3>2 DEF Agree
  <2> QED
    BY <2>11, <2>12
<1> QED
  BY <1>2, <1>3

\* So no other write of that number has been.
LEMMA NotSentYet ==
  ASSUME TypeOK, JournalIs, StagedAre, ClaimsAre, Chain, CallsAre, NodeIs, Own, Guided,
         node = "parked", ~IsSent(claims, Effect),
         NEW f, IsSent(claims, f), f.code = mine, f.nth = wrote + 1
  PROVE  FALSE
<1>1. PICK o \in DOMAIN journal : Sends(journal, claims, o) /\ journal[o].effect = f
  BY DEF ClaimsAre, IsSent
<1>2. Agree(f.from, did) /\ Len(f.from) < Len(did)
  BY <1>1, SentBefore
<1>3. o \in Stagings(journal) /\ f.from \in Histories /\ did \in Histories
  BY <1>1, StagingIs DEF Sends, TypeOK
<1>4. /\ ~EndsIn(f.from, "wait") /\ f.from \in DOMAIN plan
      /\ plan[f.from] = Step("write", f.nth, Nothing)
  BY <1>1, <1>3 DEF StagedAre
<1>5. Sound(did) /\ Follows(plan, did)
  BY DEF NodeIs
<1>6. Len(f.from) + 1 \in DOMAIN did /\ plan[f.from] = did[Len(f.from) + 1]
  BY <1>2, <1>3, <1>4, <1>5, NextStep
<1>7. did[Len(f.from) + 1].does = "write" /\ did[Len(f.from) + 1].call = wrote + 1
  BY <1>4, <1>6 DEF Step
<1>8. did[Len(f.from) + 1].call <= wrote
  BY <1>6, <1>7 DEF CallsAre
<1> QED
  BY <1>7, <1>8, StateIs

\* Of what was sent nothing is lost, and a dispatch adds the write that is parked.
LEMMA SendsNext ==
  ASSUME TypeOK, JournalIs, CodeIs, ClaimsAre, NodeIs, Own, Keeps
  PROVE  /\ \A o \in DOMAIN journal : Sends(journal, claims, o) =>
              o \in DOMAIN journal' /\ journal'[o] = journal[o] /\ Sends(journal', claims', o)
         /\ \A o \in DOMAIN journal' : Sends(journal', claims', o) =>
              /\ o \in Stagings(journal) /\ journal'[o] = journal[o]
              /\ \/ Sends(journal, claims, o)
                 \/ /\ Dispatch /\ ~IsSent(claims, Effect)
                    /\ o = Len(journal) /\ journal[o].effect = Effect /\ journal[o].by = me
<1>1. \A e : IsSent(claims, e) => IsSent(claims', e) /\ claims'[e] = claims[e]
  BY SentStays DEF Keeps
<1>2. /\ \A o \in DOMAIN journal : o \in DOMAIN journal' /\ journal'[o] = journal[o]
      /\ \A o \in DOMAIN journal' : o \in DOMAIN journal \/
           (o = Len(journal) + 1 /\ o \notin DOMAIN journal /\ journal'[o].by = me
            /\ Adds(journal'[o]))
  BY EntriesStay DEF Keeps
<1>3. ASSUME NEW o \in DOMAIN journal, Sends(journal, claims, o)
      PROVE  o \in DOMAIN journal' /\ journal'[o] = journal[o] /\ Sends(journal', claims', o)
  BY <1>1, <1>2, <1>3 DEF Sends, Stagings
<1>4. ASSUME NEW o \in DOMAIN journal', Sends(journal', claims', o)
      PROVE  /\ o \in Stagings(journal) /\ journal'[o] = journal[o]
             /\ \/ Sends(journal, claims, o)
                \/ /\ Dispatch /\ ~IsSent(claims, Effect)
                   /\ o = Len(journal) /\ journal[o].effect = Effect /\ journal[o].by = me
  <2>1. CASE claims' = claims /\ o \in DOMAIN journal
    BY <1>2, <1>4, <2>1 DEF Sends, Stagings
  <2>2. CASE claims' = claims /\ o \notin DOMAIN journal
    <3>1. Adds(journal'[o]) /\ journal'[o].by = me /\ journal'[o].kind = "staged"
      BY <1>2, <1>4, <2>2 DEF Sends, Stagings
    <3>2. journal'[o].effect = Effect /\ Live /\ node \in {"deciding", "waiting"}
      BY <3>1 DEF Adds
    <3>3. IsSent(claims, Effect) /\ claims[Effect].by = me
      BY <1>4, <2>2, <3>1, <3>2 DEF Sends
    <3>4. PICK p \in DOMAIN journal : Sends(journal, claims, p) /\ journal[p].effect = Effect
      BY <3>3 DEF ClaimsAre, IsSent
    <3>5. p \in Stagings(journal) /\ journal[p].by = me /\ journal[p].effect.from = did
      BY <3>3, <3>4 DEF Sends, Effect
    <3>6. Len(journal[p].effect.from) < Len(did)
      BY <3>2, <3>5 DEF Own
    <3> QED
      BY <3>5, <3>6, StateIs
  <2>3. CASE Dispatch
    <3>1. /\ node = "parked" /\ Live /\ journal' = journal
          /\ \/ claims' = claims
             \/ /\ ~IsSent(claims, Effect)
                /\ claims'[Effect].by = me /\ DOMAIN claims' = DOMAIN claims \cup {Effect}
                /\ \A e \in DOMAIN claims : e # Effect => claims'[e] = claims[e]
      BY <2>3, DispatchClaims
    <3>2. CASE claims' = claims
      BY <2>1, <3>1, <3>2, <1>4
    <3>3. CASE claims' # claims /\ journal[o].effect # Effect
      BY <1>4, <3>1, <3>3 DEF Sends, IsSent, Stagings
    <3>4. CASE claims' # claims /\ journal[o].effect = Effect
      <4>1. o \in Stagings(journal) /\ journal[o].by = me /\ journal[o].effect.from = did
        BY <1>4, <3>1, <3>4 DEF Sends, Effect
      <4>2. Len(journal[o].effect.from) < Len(did) \/ o = Len(journal)
        BY <3>1, <4>1 DEF Own
      <4>3. o = Len(journal)
        BY <4>1, <4>2, StateIs
      <4> QED
        BY <2>3, <3>1, <3>4, <4>1, <4>3
    <3> QED
      BY <3>2, <3>3, <3>4
  <2> QED
    BY <2>1, <2>2, <2>3 DEF Keeps
<1> QED
  BY <1>3, <1>4

LEMMA ClaimsNext ==
  ASSUME TypeOK, JournalIs, CodeIs, ClaimsAre, NodeIs, Own, Keeps
  PROVE  ClaimsAre'
<1> SUFFICES ASSUME NEW e \in DOMAIN claims'
             PROVE  /\ claims'[e].by \in DOMAIN code' /\ e.code <= mine'
                    /\ claims'[e].state = "sent" => \E o \in DOMAIN journal' :
                         Sends(journal', claims', o) /\ journal'[o].effect = e
  BY DEF ClaimsAre
<1>1. /\ DOMAIN code \subseteq DOMAIN code' /\ mine \in Nat /\ mine' \in Nat /\ mine <= mine'
      /\ me \in DOMAIN code
  BY CodeGrows, StateIs DEF Keeps
<1>2. CASE e \in DOMAIN claims /\ claims'[e] = claims[e]
  <2>1. claims'[e].by \in DOMAIN code'
    BY <1>1, <1>2 DEF ClaimsAre
  <2>2. e.code <= mine'
    <3>1. e.code \in Nat /\ e.code <= mine
      BY <1>2 DEF TypeOK, Effects, ClaimsAre
    <3> HIDE DEF mine
    <3> QED
      BY <1>1, <3>1
  <2>3. ASSUME claims'[e].state = "sent"
        PROVE  \E o \in DOMAIN journal' : Sends(journal', claims', o) /\ journal'[o].effect = e
    <3>1. PICK o \in DOMAIN journal : Sends(journal, claims, o) /\ journal[o].effect = e
      BY <1>2, <2>3 DEF ClaimsAre
    <3> QED
      BY <3>1, SendsNext
  <2> QED
    BY <2>1, <2>2, <2>3
<1>3. CASE ~(e \in DOMAIN claims /\ claims'[e] = claims[e])
  <2>1. Dispatch
    BY <1>3 DEF Keeps
  <2>2. e = Effect /\ claims'[e].by = me /\ journal' = journal /\ node = "parked"
    BY <1>3, <2>1, DispatchClaims
  <2>3. claims'[e].by \in DOMAIN code' /\ e.code <= mine'
    BY <1>1, <2>2 DEF Effect
  <2>4. /\ Len(journal) \in Stagings(journal) /\ Len(journal) \in DOMAIN journal
        /\ journal[Len(journal)].effect = e /\ journal[Len(journal)].by = me
    BY <2>2 DEF NodeIs, Stagings
  <2>5. claims'[e].state = "sent" => Sends(journal', claims', Len(journal))
    BY <2>2, <2>4 DEF Sends, IsSent
  <2> QED
    BY <2>2, <2>3, <2>4, <2>5
<1> QED
  BY <1>2, <1>3

LEMMA ChainNext ==
  ASSUME TypeOK, JournalIs, CodeIs, StagedAre, ClaimsAre, Chain, NodeIs, Own, Guided, Keeps
  PROVE  Chain'
<1> SUFFICES ASSUME NEW o \in DOMAIN journal', NEW p \in DOMAIN journal',
                    Sends(journal', claims', o), Sends(journal', claims', p), o <= p,
                    journal'[o].effect.code = mine', journal'[p].effect.code = mine'
             PROVE  /\ Agree(journal'[o].effect.from, journal'[p].effect.from)
                    /\ Len(journal'[o].effect.from) <= Len(journal'[p].effect.from)
  BY DEF Chain
<1>1. /\ o \in Stagings(journal) /\ journal'[o] = journal[o]
      /\ \/ Sends(journal, claims, o)
         \/ o = Len(journal)
  BY SendsNext
<1>2. /\ p \in Stagings(journal) /\ journal'[p] = journal[p]
      /\ \/ Sends(journal, claims, p)
         \/ /\ Dispatch /\ ~IsSent(claims, Effect)
            /\ p = Len(journal) /\ journal[p].effect = Effect
  BY SendsNext
<1>3. mine' = mine
  <2>1. journal[o].effect.code = code[journal[o].by] /\ journal[o].by \in DOMAIN code
    BY <1>1 DEF StagedAre, JournalIs, Stagings
  <2>2. mine' <= mine /\ mine <= mine' /\ mine \in Nat /\ mine' \in Nat
    BY <1>1, <2>1, CodeGrows, StateIs DEF Keeps
  <2> HIDE DEF mine
  <2> QED
    BY <2>2
<1>4. o \in DOMAIN journal /\ p \in DOMAIN journal /\ Len(journal) \in Nat
      /\ DOMAIN journal = 1 .. Len(journal)
  BY <1>1, <1>2, StateIs DEF Stagings
<1>5. CASE o = p
  <2>1. Len(journal[o].effect.from) \in Nat
    BY <1>1, StagingIs, HistoryIs
  <2> QED
    BY <1>1, <1>5, <2>1 DEF Agree
<1>6. CASE o # p
  <2>1. Sends(journal, claims, o)
    BY <1>1, <1>4, <1>6
  <2>2. CASE Sends(journal, claims, p)
    BY <1>1, <1>2, <1>3, <1>4, <2>1, <2>2 DEF Chain
  <2>3. CASE Dispatch /\ ~IsSent(claims, Effect) /\ journal[p].effect = Effect
    <3>1. node = "parked"
      BY <2>3 DEF Dispatch
    <3>2. Agree(journal[o].effect.from, did) /\ Len(journal[o].effect.from) < Len(did)
      BY <1>1, <1>3, <1>4, <2>1, <2>3, <3>1, SentBefore
    <3>3. journal[p].effect.from = did
      BY <2>3 DEF Effect
    <3>4. Len(journal[o].effect.from) \in Nat /\ Len(did) \in Nat
      BY <1>1, StagingIs, HistoryIs, StateIs
    <3> QED
      BY <1>1, <1>2, <3>2, <3>3, <3>4
  <2> QED
    BY <1>2, <2>2, <2>3
<1> QED
  BY <1>5, <1>6

LEMMA OneNext ==
  ASSUME TypeOK, JournalIs, CodeIs, StagedAre, ClaimsAre, Chain, CallsAre, NodeIs, Own, Guided,
         Keeps, OneDecision
  PROVE  OneDecision'
<1> SUFFICES ASSUME NEW e \in DOMAIN claims', NEW f \in DOMAIN claims',
                    claims'[e].state = "sent", claims'[f].state = "sent",
                    e.code = f.code, e.nth = f.nth
             PROVE  e = f
  BY DEF OneDecision
<1>1. CASE claims' = claims
  BY <1>1 DEF OneDecision
<1>2. CASE Dispatch /\ claims' # claims
  <2>1. /\ node = "parked" /\ ~IsSent(claims, Effect)
        /\ DOMAIN claims' = DOMAIN claims \cup {Effect}
        /\ \A h \in DOMAIN claims : h # Effect => claims'[h] = claims[h]
    BY <1>2, DispatchIs
  <2>2. \A h \in DOMAIN claims' : claims'[h].state = "sent" => h = Effect \/ IsSent(claims, h)
    BY <2>1 DEF IsSent
  <2>3. \A h : IsSent(claims, h) => ~(h.code = mine /\ h.nth = wrote + 1)
    BY <2>1, NotSentYet
  <2>4. Effect.code = mine /\ Effect.nth = wrote + 1
    BY DEF Effect
  <2>5. (e = Effect \/ IsSent(claims, e)) /\ (f = Effect \/ IsSent(claims, f))
    BY <2>2
  <2>6. CASE IsSent(claims, e) /\ IsSent(claims, f)
    BY <2>6 DEF OneDecision, IsSent
  <2> QED
    BY <2>3, <2>4, <2>5, <2>6
<1> QED
  BY <1>1, <1>2 DEF Keeps

(***************************************************************************)
(* The steps, by what they do to the attempt's record of itself.           *)
(***************************************************************************)

\* The next turn a replay has is this question's.
NextKept(q) == Len(calls) + 1 <= Len(Kept) /\ QuestionOf(Kept[Len(calls) + 1]) = q

AskStep(q, r, t) ==
  /\ Decides(Asks(q)) /\ Anew(q)
  /\ calls' = Append(calls, Call(q, r, t)) /\ did' = Append(did, Asks(q))
  /\ UNCHANGED <<claims, code, node, wrote, again, kept, replayed>>
  /\ replayed => /\ NextKept(q) /\ t = Kept[Len(calls) + 1]
                 /\ journal' = journal /\ asking' = asking
  /\ Live => /\ r = Len(journal) + 1 /\ t = Take(q) /\ asking' = (asking \/ t = 0)
             /\ journal' = Append(journal, [kind |-> "request", by |-> me, question |-> q])

DivergeStep(q) ==
  /\ Decides(Asks(q)) /\ Anew(q) /\ replayed /\ ~NextKept(q)
  /\ node' = "diverged" /\ UNCHANGED <<run, calls, did, wrote, asking>>

ParkStep == Stage /\ Live

WriteStep ==
  /\ did' = Append(did, Writes) /\ wrote' = wrote + 1 /\ node' = "deciding"
  /\ did \in DOMAIN plan' /\ plan'[did] = Writes /\ MoreOf(plan, plan')
  /\ UNCHANGED <<calls, asking, journal, code, again, kept, replayed>>
  /\ Live => node = "parked" /\ IsSent(claims', Effect)
  /\ replayed => node = "deciding" /\ UNCHANGED claims /\ Decides(Writes)

FreshStep ==
  /\ Live /\ calls' = <<>> /\ did' = <<>> /\ wrote' = 0 /\ ~asking' /\ UNCHANGED journal
  /\ \/ node' = "down" /\ UNCHANGED <<code, replayed>> /\ MoreOf(plan, plan')
     \/ Resume
     \/ Replay

SeeStep(i, what) ==
  /\ node = "waiting" /\ node' = "deciding" /\ calls[i].read
  /\ calls' = [calls EXCEPT ![i].state = "over"] /\ did' = Append(did, Sees(i, what))
  /\ UNCHANGED <<run, plan, wrote, asking>>
  /\ replayed => calls[i].state = "open" /\ what = TurnOf(i).what /\ Due(i)
  /\ Live => /\ calls[i].state = "written" /\ what = journal[calls[i].told].what
             /\ \A k \in DOMAIN calls :
                  calls[k].state = "written" => calls[i].told <= calls[k].told

RecordStep(i, what) ==
  /\ Live /\ node = "waiting" /\ calls[i].state \in {"open", "written"} /\ calls[i].read
  /\ journal' = Append(journal, Response(i, what))
  /\ calls' = [calls EXCEPT ![i].state = "written", ![i].told = Len(journal) + 1]
  /\ UNCHANGED <<did, node>> /\ UNCHANGED aside
  /\ Served(i) /\ SameCode(i) => what = TurnOf(i).what /\ Due(i) /\ calls[i].state = "open"

Expires(i) ==
  /\ Open(i) /\ Served(i) /\ (SameCode(i) => Stuck) /\ UNCHANGED aside /\ UNCHANGED did

AgainStep(i) ==
  /\ Expires(i) /\ Live /\ calls' = [calls EXCEPT ![i].turn = 0] /\ UNCHANGED <<journal, node>>

HaltStep(i) ==
  /\ Expires(i) /\ calls' = [calls EXCEPT ![i].state = "expired"] /\ node' = "halted"
  /\ replayed => journal' = journal
  /\ Live => journal' = Append(journal, Response(i, GaveUp))

AStep ==
  \/ \E q \in Questions : \E r, t \in Nat : AskStep(q, r, t)
  \/ \E q \in Questions : DivergeStep(q)
  \/ \E i \in DOMAIN calls \cup {0} : Waits(i)
  \/ ParkStep \/ WriteStep \/ Return \/ FreshStep
  \/ \E i \in DOMAIN calls : \/ \E what \in Answers \cup {GaveUp} :
                                  SeeStep(i, what) \/ RecordStep(i, what)
                             \/ AgainStep(i) \/ HaltStep(i)

LEMMA StepIs ==
  ASSUME TypeOK, JournalIs, CallsAre, NodeIs, Own, Guided, KeptIs, Replaying, Next
  PROVE  AStep
<1>a. Live \/ replayed
  BY DEF Live
<1>1. ASSUME NEW q \in Questions, Ask(q)
      PROVE  AStep
  <2>1. /\ Len(journal) + 1 \in Nat /\ Take(q) \in Nat
    BY TakeIs, StateIs
  <2>2. AskStep(q, Len(journal) + 1, Take(q))
    BY <1>1 DEF Ask, AskStep, Does, Live
  <2> QED
    BY <2>1, <2>2 DEF AStep
<1>2. ASSUME NEW q \in Questions, AskReplay(q)
      PROVE  AStep
  <2>1. CASE NextKept(q)
    <3>1. Len(calls) + 1 \in DOMAIN Kept
      BY <2>1, StateIs, KeptTurns, TurnsAre DEF NextKept, TypeOK
    <3>2. Kept[Len(calls) + 1] \in Nat /\ 0 \in Nat
      BY <3>1, StateIs, KeptTurns, TurnsAre DEF TypeOK
    <3>3. AskStep(q, 0, Kept[Len(calls) + 1])
      BY <1>2, <2>1 DEF AskReplay, AskStep, NextKept, Does, Live
    <3> QED
      BY <3>2, <3>3 DEF AStep
  <2>2. CASE ~NextKept(q)
    <3>1. DivergeStep(q)
      BY <1>2, <2>2 DEF AskReplay, DivergeStep, NextKept, run
    <3> QED
      BY <3>1 DEF AStep
  <2> QED
    BY <2>1, <2>2
<1>3. CASE Stage
  <2>1. CASE Live
    BY <1>3, <2>1 DEF AStep, ParkStep
  <2>2. CASE replayed
    <3>1. Decides(Writes) /\ Writes \in Steps /\ node = "deciding"
      BY <1>3, StepTypes DEF Stage, Decides
    <3>2. did \in DOMAIN plan' /\ plan'[did] = Writes /\ MoreOf(plan, plan')
      BY <3>1, DecidesIs, DecidesMore
    <3>3. WriteStep
      BY <1>3, <2>2, <3>1, <3>2 DEF Stage, WriteStep, Does, Live
    <3> QED
      BY <3>3 DEF AStep
  <2> QED
    BY <1>a, <2>1, <2>2
<1>4. CASE Dispatch
  <2>1. node = "parked" /\ Live /\ did \in DOMAIN plan /\ plan[did] = Writes
    BY <1>4 DEF Dispatch, NodeIs
  <2>2. CASE /\ node' = "deciding" /\ wrote' = wrote + 1 /\ did' = Append(did, Writes)
             /\ IsSent(claims', Effect)
             /\ UNCHANGED <<calls, asking, journal, code, plan, again, kept, replayed>>
    <3>1. WriteStep
      BY <2>1, <2>2 DEF WriteStep, MoreOf, Live
    <3> QED
      BY <3>1 DEF AStep
  <2>3. CASE /\ node' = "down" /\ calls' = <<>> /\ did' = <<>> /\ wrote' = 0 /\ ~asking'
             /\ UNCHANGED <<journal, code, plan, again, kept, replayed>>
    <3>1. FreshStep
      BY <2>1, <2>3 DEF FreshStep, MoreOf
    <3> QED
      BY <3>1 DEF AStep
  <2> QED
    BY <1>4, <2>2, <2>3, DispatchIs
<1>5. CASE Crash \/ Resume \/ Replay
  <2>1. FreshStep
    BY <1>5 DEF FreshStep, Crash, Resume, Replay, Fresh, MoreOf
  <2> QED
    BY <2>1 DEF AStep
<1>6. ASSUME NEW i \in DOMAIN calls, Answer(i) \/ Serve(i) \/ GiveUp(i) \/ GiveUpLate(i)
      PROVE  AStep
  <2>1. PICK what \in Answers \cup {GaveUp} :
           /\ Ends(i, what) /\ UNCHANGED aside
           /\ node = "waiting" /\ calls[i].state \in {"open", "written"} /\ calls[i].read
           /\ Served(i) /\ SameCode(i) =>
                what = TurnOf(i).what /\ Due(i) /\ calls[i].state = "open"
           /\ calls[i].state = "written" => Live
    BY <1>6, EndsIs
  <2>2. CASE Live
    <3>1. RecordStep(i, what)
      BY <2>1, <2>2 DEF Ends, Records, RecordStep, Live
    <3> QED
      BY <3>1 DEF AStep
  <2>3. CASE replayed
    <3>1. Served(i) /\ SameCode(i)
      BY <2>3, ReplayedCallIs
    <3>2. SeeStep(i, what)
      BY <2>1, <2>3, <3>1 DEF Ends, TellsReplayed, SeeStep, Does, Live, aside, run
    <3> QED
      BY <3>2 DEF AStep
  <2> QED
    BY <1>a, <2>2, <2>3
<1>7. ASSUME NEW i \in DOMAIN calls, See(i)
      PROVE  AStep
  <2>1. calls[i].state = "written" /\ calls[i].read /\ Live /\ node = "waiting"
    BY <1>7 DEF See, CallsAre
  <2>2. calls[i].told \in Outcomes(calls[i].request)
    BY <2>1 DEF Own
  <2>3. journal[calls[i].told].what \in Answers \cup {GaveUp}
    BY <2>2, EntriesAre DEF Outcomes, TypeOK
  <2>4. SeeStep(i, journal[calls[i].told].what)
    BY <1>7, <2>1 DEF See, SeeStep, Does, Live
  <2> QED
    BY <2>3, <2>4 DEF AStep
<1>8. ASSUME NEW i \in DOMAIN calls, Expire(i)
      PROVE  AStep
  <2>1. Expires(i)
    BY <1>8 DEF Expire, Expires
  <2>2. AgainStep(i) \/ HaltStep(i)
    BY <1>8, <2>1 DEF Expire, AgainStep, HaltStep, Live
  <2> QED
    BY <2>2 DEF AStep
<1>9. ASSUME NEW i \in DOMAIN calls \cup {0}, Waits(i) PROVE AStep
  BY <1>9 DEF AStep
<1>10. CASE Return
  BY <1>10 DEF AStep
<1> QED
  BY <1>1, <1>2, <1>3, <1>4, <1>5, <1>6, <1>7, <1>8, <1>9, <1>10 DEF Next

\* What a record, a wait and an expiry make of the calls.
LEMMA RecordCalls ==
  ASSUME TypeOK, NEW i \in DOMAIN calls, NEW what, RecordStep(i, what)
  PROVE  /\ DOMAIN calls' = DOMAIN calls /\ Len(calls') = Len(calls)
         /\ \A k \in DOMAIN calls :
              /\ calls'[k].question = calls[k].question /\ calls'[k].request = calls[k].request
              /\ calls'[k].turn = calls[k].turn /\ calls'[k].read = calls[k].read
              /\ calls'[k].told = IF k = i THEN Len(journal) + 1 ELSE calls[k].told
              /\ calls'[k].state = IF k = i THEN "written" ELSE calls[k].state
<1>1. Len(journal) + 1 \in Nat
  BY StateIs
<1>2. calls' = [calls EXCEPT ![i].state = "written", ![i].told = Len(journal) + 1]
  BY DEF RecordStep
<1> QED
  BY <1>1, <1>2, CallWritten

LEMMA WaitCalls ==
  ASSUME TypeOK, NEW i, Waits(i)
  PROVE  /\ DOMAIN calls' = DOMAIN calls /\ Len(calls') = Len(calls)
         /\ \A k \in DOMAIN calls :
              /\ calls'[k].question = calls[k].question /\ calls'[k].request = calls[k].request
              /\ calls'[k].turn = calls[k].turn
              /\ calls'[k].read <=> calls[k].read \/ k = i
              /\ calls'[k].told = calls[k].told /\ calls'[k].state = calls[k].state
<1>1. calls' = [k \in DOMAIN calls |-> [calls[k] EXCEPT !.read = @ \/ k = i]]
  BY DEF Waits
<1> QED
  BY <1>1, CallReads

LEMMA HaltCalls ==
  ASSUME TypeOK, NEW i \in DOMAIN calls, HaltStep(i)
  PROVE  /\ DOMAIN calls' = DOMAIN calls /\ Len(calls') = Len(calls)
         /\ \A k \in DOMAIN calls :
              /\ calls'[k].question = calls[k].question /\ calls'[k].request = calls[k].request
              /\ calls'[k].turn = calls[k].turn /\ calls'[k].read = calls[k].read
              /\ calls'[k].told = calls[k].told
              /\ calls'[k].state = IF k = i THEN "expired" ELSE calls[k].state
<1> DEFINE s == "expired"
<1>1. s \in {"over", "expired"} /\ calls' = [calls EXCEPT ![i].state = s]
  BY DEF HaltStep
<1>2. s = "expired"
  OBVIOUS
<1> HIDE DEF s
<1> QED
  BY <1>1, <1>2, CallEnds

LEMMA SeeCalls ==
  ASSUME TypeOK, NEW i \in DOMAIN calls, NEW what, SeeStep(i, what)
  PROVE  /\ DOMAIN calls' = DOMAIN calls /\ Len(calls') = Len(calls)
         /\ \A k \in DOMAIN calls :
              /\ calls'[k].question = calls[k].question /\ calls'[k].request = calls[k].request
              /\ calls'[k].turn = calls[k].turn /\ calls'[k].read = calls[k].read
              /\ calls'[k].told = calls[k].told
              /\ calls'[k].state = IF k = i THEN "over" ELSE calls[k].state
<1> DEFINE s == "over"
<1>1. s \in {"over", "expired"} /\ calls' = [calls EXCEPT ![i].state = s]
  BY DEF SeeStep
<1>2. s = "over"
  OBVIOUS
<1> HIDE DEF s
<1> QED
  BY <1>1, <1>2, CallEnds

(***************************************************************************)
(* The calls are the questions of the history.                             *)
(***************************************************************************)

\* Of a step k of the history, and of a call i.
CalledAt(k) ==
  /\ did[k].does = "ask" =>
       did[k].call \in DOMAIN calls /\ did[k].of = calls[did[k].call].question
  /\ did[k].does = "see" => did[k].call \in DOMAIN calls /\ calls[did[k].call].state = "over"
  /\ did[k].does = "wait" /\ did[k].call # 0 =>
       did[k].call \in DOMAIN calls /\ calls[did[k].call].read
  /\ did[k].does = "write" => did[k].call <= wrote
CallAt(i) ==
  /\ \E k \in DOMAIN did : did[k].does = "ask" /\ did[k].call = i
  /\ calls[i].state = "over" => \E k \in DOMAIN did : did[k].does = "see" /\ did[k].call = i
  /\ calls[i].question \notin Streamed => calls[i].read
  /\ calls[i].read => \/ calls[i].question \notin Streamed
                      \/ \E k \in DOMAIN did : did[k].does = "wait" /\ did[k].call = i
  /\ calls[i].state = "written" => calls[i].read /\ Live
  /\ calls[i].state = "expired" => node = "halted"

LEMMA CallsParts ==
  CallsAre <=> (\A k \in DOMAIN did : CalledAt(k)) /\ (\A i \in DOMAIN calls : CallAt(i))
BY DEF CallsAre, CalledAt, CallAt

\* A step it takes: what the step must be for the parts to be kept.
LEMMA CallsGrow ==
  ASSUME TypeOK, CallsAre, NEW x \in Steps, did' = Append(did, x),
         DOMAIN calls \subseteq DOMAIN calls',
         \A i \in DOMAIN calls : /\ calls'[i].question = calls[i].question
                                 /\ calls[i].read => calls'[i].read
                                 /\ calls'[i].read => calls[i].read \/ (x.does = "wait" /\ x.call = i)
                                 /\ calls[i].state = "over" => calls'[i].state = "over"
                                 /\ calls'[i].state = "over" =>
                                      calls[i].state = "over" \/ (x.does = "see" /\ x.call = i)
                                 /\ calls'[i].state = "written" => calls[i].state = "written"
                                 /\ calls'[i].state = "expired" => calls[i].state = "expired",
         \A i \in DOMAIN calls' : i \notin DOMAIN calls =>
           /\ x.does = "ask" /\ x.call = i
           /\ calls'[i].state = "open" /\ (calls'[i].read <=> calls'[i].question \notin Streamed),
         x.does = "ask" => x.call \in DOMAIN calls' /\ x.of = calls'[x.call].question,
         x.does = "see" => x.call \in DOMAIN calls' /\ calls'[x.call].state = "over",
         x.does = "wait" /\ x.call # 0 => x.call \in DOMAIN calls' /\ calls'[x.call].read,
         x.does = "write" => x.call <= wrote',
         wrote' \in Nat, wrote <= wrote', replayed' = replayed, node # "halted"
  PROVE  CallsAre'
<1>1. /\ Len(did) + 1 \in DOMAIN did' /\ did'[Len(did) + 1] = x
      /\ \A k \in DOMAIN did : k \in DOMAIN did' /\ did'[k] = did[k]
      /\ \A k \in DOMAIN did' : k \in DOMAIN did \/ k = Len(did) + 1
  <2>1. /\ Len(did) \in Nat /\ DOMAIN did' = 1 .. Len(did) + 1 /\ did'[Len(did) + 1] = x
        /\ \A k \in DOMAIN did : k \in DOMAIN did' /\ did'[k] = did[k]
        /\ \A k \in DOMAIN did' : k \in DOMAIN did \/ k = Len(did) + 1
    BY Longer DEF TypeOK
  <2> QED
    BY <2>1
<1>2. ASSUME NEW k \in DOMAIN did'
      PROVE  CalledAt(k)'
  <2>1. CASE k \in DOMAIN did
    <3>1. did'[k] = did[k] /\ CalledAt(k)
      BY <1>1, <2>1, CallsParts
    <3>2. did[k].call \in DOMAIN calls => did[k].call \in DOMAIN calls'
      OBVIOUS
    <3>3. did[k].does = "write" => did[k].call <= wrote'
      <4>1. did[k].does = "write" => did[k].call <= wrote
        BY <3>1 DEF CalledAt
      <4>2. did[k].call \in Nat /\ wrote \in Nat
        BY <2>1, HistoryIs DEF TypeOK
      <4> QED
        BY <4>1, <4>2
    <3> QED
      BY <3>1, <3>2, <3>3 DEF CalledAt
  <2>2. CASE k = Len(did) + 1
    BY <1>1, <2>2 DEF CalledAt
  <2> QED
    BY <1>1, <2>1, <2>2
<1>3. ASSUME NEW i \in DOMAIN calls'
      PROVE  CallAt(i)'
  <2>1. CASE i \in DOMAIN calls
    <3>1. CallAt(i)
      BY <2>1, CallsParts
    <3>2. \E k \in DOMAIN did' : did'[k].does = "ask" /\ did'[k].call = i
      BY <1>1, <3>1 DEF CallAt
    <3>3. calls'[i].state = "over" => \E k \in DOMAIN did' : did'[k].does = "see" /\ did'[k].call = i
      BY <1>1, <2>1, <3>1 DEF CallAt
    <3>4. calls'[i].question \notin Streamed => calls'[i].read
      BY <2>1, <3>1 DEF CallAt
    <3>5. calls'[i].read => \/ calls'[i].question \notin Streamed
                            \/ \E k \in DOMAIN did' : did'[k].does = "wait" /\ did'[k].call = i
      BY <1>1, <2>1, <3>1 DEF CallAt
    <3>6. calls'[i].state = "written" => calls'[i].read /\ Live'
      BY <2>1, <3>1 DEF CallAt, Live
    <3>7. calls'[i].state # "expired"
      BY <2>1, <3>1 DEF CallAt
    <3> QED
      BY <3>2, <3>3, <3>4, <3>5, <3>6, <3>7 DEF CallAt
  <2>2. CASE i \notin DOMAIN calls
    BY <1>1, <2>2 DEF CallAt
  <2> QED
    BY <2>1, <2>2
<1> QED
  BY <1>2, <1>3 DEF CallsAre, CalledAt, CallAt

LEMMA CallsNext ==
  ASSUME TypeOK, CallsAre, AStep
  PROVE  CallsAre'
<1>1. ASSUME NEW q \in Questions, NEW r \in Nat, NEW t \in Nat, AskStep(q, r, t)
      PROVE  CallsAre'
  <2> DEFINE x == Asks(q)
  <2>1. /\ x \in Steps /\ x.does = "ask" /\ x.call = Len(calls) + 1 /\ x.of = q
        /\ did' = Append(did, x) /\ node = "deciding" /\ wrote' = wrote /\ wrote \in Nat
        /\ replayed' = replayed /\ wrote <= wrote
    BY <1>1, StepTypes, StateIs DEF AskStep, Decides, Asks, Step
  <2>2. /\ DOMAIN calls' = DOMAIN calls \cup {Len(calls) + 1}
        /\ \A k \in DOMAIN calls : calls'[k] = calls[k]
        /\ calls'[Len(calls) + 1].question = q /\ calls'[Len(calls) + 1].state = "open"
        /\ calls'[Len(calls) + 1].read <=> q \notin Streamed
    BY <1>1, CallAsked DEF AskStep
  <2> HIDE DEF x
  <2> QED
    BY <2>1, <2>2, CallsGrow
<1>2. ASSUME NEW q \in Questions, DivergeStep(q)
      PROVE  CallsAre'
  BY <1>2 DEF DivergeStep, run, Decides, CallsAre, Live
<1>3. ASSUME NEW i \in DOMAIN calls \cup {0}, Waits(i)
      PROVE  CallsAre'
  <2> DEFINE x == WaitsOn(i)
  <2>0. i \in Nat
    BY CallIs
  <2>1. /\ x \in Steps /\ x.does = "wait" /\ x.call = i
        /\ did' = Append(did, x) /\ node = "deciding" /\ wrote' = wrote /\ wrote \in Nat
        /\ replayed' = replayed /\ wrote <= wrote
    BY <1>3, <2>0, StepTypes, StateIs DEF Waits, Does, run, Decides, WaitsOn, Step
  <2>2. /\ DOMAIN calls' = DOMAIN calls
        /\ \A k \in DOMAIN calls :
              /\ calls'[k].question = calls[k].question
              /\ calls'[k].read <=> calls[k].read \/ k = i
              /\ calls'[k].state = calls[k].state
    BY <1>3, WaitCalls
  <2>3. i # 0 => i \in DOMAIN calls'
    BY <2>2
  <2> HIDE DEF x
  <2> QED
    BY <2>1, <2>2, <2>3, CallsGrow
<1>4. CASE ParkStep
  BY <1>4 DEF ParkStep, Stage, Live, Decides, CallsAre
<1>5. CASE WriteStep
  <2> DEFINE x == Writes
  <2>1. /\ x \in Steps /\ x.does = "write" /\ x.call = wrote + 1
        /\ did' = Append(did, x) /\ node # "halted" /\ wrote' = wrote + 1 /\ wrote' \in Nat
        /\ wrote <= wrote' /\ x.call <= wrote' /\ replayed' = replayed /\ calls' = calls
    BY <1>5, StepTypes, StateIs DEF WriteStep, Live, Writes, Step
  <2> HIDE DEF x
  <2> QED
    BY <2>1, CallsGrow
<1>6. CASE Return
  BY <1>6 DEF Return, Decides, CallsAre, Live
<1>7. CASE FreshStep
  <2>1. calls' = <<>> /\ did' = <<>>
    BY <1>7 DEF FreshStep
  <2> QED
    BY <2>1 DEF CallsAre
<1>8. ASSUME NEW i \in DOMAIN calls, NEW what \in Answers \cup {GaveUp}, SeeStep(i, what)
      PROVE  CallsAre'
  <2> DEFINE x == Sees(i, what)
  <2>1. /\ x \in Steps /\ x.does = "see" /\ x.call = i
        /\ did' = Append(did, x) /\ node = "waiting" /\ wrote' = wrote /\ wrote \in Nat
        /\ replayed' = replayed /\ wrote <= wrote
    BY <1>8, CallIs, StepTypes, StateIs DEF SeeStep, run, Sees, Step
  <2>2. /\ DOMAIN calls' = DOMAIN calls
        /\ \A k \in DOMAIN calls :
              /\ calls'[k].question = calls[k].question
              /\ calls'[k].read = calls[k].read
              /\ calls'[k].state = IF k = i THEN "over" ELSE calls[k].state
    BY <1>8, SeeCalls
  <2> HIDE DEF x
  <2> QED
    BY <2>1, <2>2, CallsGrow
<1>9. ASSUME NEW i \in DOMAIN calls, NEW what \in Answers \cup {GaveUp}, RecordStep(i, what)
      PROVE  CallsAre'
  <2>1. /\ calls[i].read /\ calls[i].state # "over" /\ Live /\ Live' /\ did' = did /\ wrote' = wrote
        /\ node' = node
    BY <1>9 DEF RecordStep, aside, Live
  <2>2. /\ DOMAIN calls' = DOMAIN calls
        /\ \A k \in DOMAIN calls :
              /\ calls'[k].question = calls[k].question /\ calls'[k].read = calls[k].read
              /\ calls'[k].state = IF k = i THEN "written" ELSE calls[k].state
    BY <1>9, RecordCalls
  <2>3. \A k \in DOMAIN did' : CalledAt(k)'
    BY <2>1, <2>2 DEF CallsAre, CalledAt
  <2>4. \A k \in DOMAIN calls' : CallAt(k)'
    BY <2>1, <2>2 DEF CallsAre, CallAt
  <2> QED
    BY <2>3, <2>4 DEF CallsAre, CalledAt, CallAt
<1>10. ASSUME NEW i \in DOMAIN calls, AgainStep(i)
       PROVE  CallsAre'
  <2>1. /\ Live /\ Live' /\ did' = did /\ wrote' = wrote /\ node' = node
    BY <1>10 DEF AgainStep, Expires, aside, Live
  <2>2. /\ DOMAIN calls' = DOMAIN calls
        /\ \A k \in DOMAIN calls :
              /\ calls'[k].question = calls[k].question /\ calls'[k].read = calls[k].read
              /\ calls'[k].state = calls[k].state
    BY <1>10, CallAgain DEF AgainStep
  <2>3. \A k \in DOMAIN did' : CalledAt(k)'
    BY <2>1, <2>2 DEF CallsAre, CalledAt
  <2>4. \A k \in DOMAIN calls' : CallAt(k)'
    BY <2>1, <2>2 DEF CallsAre, CallAt
  <2> QED
    BY <2>3, <2>4 DEF CallsAre, CalledAt, CallAt
<1>11. ASSUME NEW i \in DOMAIN calls, HaltStep(i)
       PROVE  CallsAre'
  <2>1. /\ calls[i].state = "open" /\ replayed' = replayed /\ did' = did /\ wrote' = wrote
        /\ node' = "halted"
    BY <1>11 DEF HaltStep, Expires, Open, aside, Live
  <2>2. /\ DOMAIN calls' = DOMAIN calls
        /\ \A k \in DOMAIN calls :
              /\ calls'[k].question = calls[k].question /\ calls'[k].read = calls[k].read
              /\ calls'[k].state = IF k = i THEN "expired" ELSE calls[k].state
    BY <1>11, HaltCalls
  <2>3. \A k \in DOMAIN did' : CalledAt(k)'
    BY <2>1, <2>2 DEF CallsAre, CalledAt
  <2>4. \A k \in DOMAIN calls' : CallAt(k)'
    BY <2>1, <2>2 DEF CallsAre, CallAt, Live
  <2> QED
    BY <2>3, <2>4 DEF CallsAre, CalledAt, CallAt
<1> QED
  BY <1>1, <1>2, <1>3, <1>4, <1>5, <1>6, <1>7, <1>8, <1>9, <1>10, <1>11 DEF AStep

(***************************************************************************)
(* The node does what its code decides, and sees what it waits for.        *)
(***************************************************************************)

LEMMA Decided ==
  ASSUME TypeOK, NodeIs, NEW m \in Steps, Decides(m), m.does # "see"
  PROVE  /\ node = "deciding" /\ Sound(did) /\ ~EndsIn(did, "wait") /\ Follows(plan', did)
         /\ did \in DOMAIN plan' /\ plan'[did] = m
         /\ m.does # "return" => Sound(Append(did, m))
         /\ Follows(plan', Append(did, m))
         /\ EndsIn(Append(did, m), "wait") <=> m.does = "wait"
<1>1. did \in Histories /\ Sound(did) /\ Follows(plan, did) /\ node = "deciding"
  BY DEF TypeOK, NodeIs, Decides
<1>2. ~EndsIn(did, "wait")
  BY <1>1 DEF NodeIs
<1>3. /\ did \in DOMAIN plan' /\ plan'[did] = m
      /\ DOMAIN plan \subseteq DOMAIN plan' /\ \A h \in DOMAIN plan : plan'[h] = plan[h]
  BY DecidesIs
<1>4. Follows(plan', did)
  BY <1>1, <1>3, FollowsMore
<1>5. m.does # "return" => Sound(Append(did, m))
  BY <1>1, <1>2, SoundDecides
<1>6. Follows(plan', Append(did, m))
  BY <1>1, <1>3, <1>4, FollowsStep
<1>7. EndsIn(Append(did, m), "wait") <=> m.does = "wait"
  BY <1>1, EndsInIs
<1> QED
  BY <1>1, <1>2, <1>3, <1>4, <1>5, <1>6, <1>7

\* The parts of it that the history decides, and those of a node that waits, is down
\* or is parked.
NodeAt == /\ Sound(did) /\ Follows(plan, did)
          /\ node \in {"waiting", "halted"} <=> EndsIn(did, "wait")
NodeWaits == node = "waiting" => \E k \in DOMAIN calls : calls[k].read /\ Unfinished(k)

LEMMA NodeActs ==
  ASSUME NodeAt', node' \in {"deciding", "returned", "diverged", "halted"}
  PROVE  NodeIs'
BY DEF NodeIs, NodeAt

LEMMA NodeWaiting ==
  ASSUME NodeAt', NodeWaits', node' = "waiting"
  PROVE  NodeIs'
BY DEF NodeIs, NodeAt, NodeWaits

LEMMA NodeNext ==
  ASSUME TypeOK, JournalIs, CallsAre, NodeIs, AStep
  PROVE  NodeIs'
<1>1. ASSUME NEW q \in Questions, NEW r \in Nat, NEW t \in Nat, AskStep(q, r, t)
      PROVE  NodeIs'
  <2>1. Asks(q) \in Steps /\ Asks(q).does = "ask" /\ Decides(Asks(q))
    BY <1>1, StepTypes DEF AskStep, Asks, Step
  <2>2. did' = Append(did, Asks(q)) /\ node' = node
    BY <1>1 DEF AskStep
  <2>3. NodeAt' /\ node' = "deciding"
    BY <2>1, <2>2, Decided DEF NodeAt
  <2> QED
    BY <2>3, NodeActs
<1>2. ASSUME NEW q \in Questions, DivergeStep(q)
      PROVE  NodeIs'
  <2>1. Asks(q) \in Steps /\ Asks(q).does = "ask" /\ Decides(Asks(q))
    BY <1>2, StepTypes DEF DivergeStep, Asks, Step
  <2>2. did' = did /\ node' = "diverged"
    BY <1>2 DEF DivergeStep
  <2>3. NodeAt'
    BY <2>1, <2>2, Decided DEF NodeAt
  <2> QED
    BY <2>2, <2>3, NodeActs
<1>3. ASSUME NEW i \in DOMAIN calls \cup {0}, Waits(i)
      PROVE  NodeIs'
  <2>1. WaitsOn(i) \in Steps /\ WaitsOn(i).does = "wait" /\ Decides(WaitsOn(i))
    <3>1. i \in Nat
      BY CallIs
    <3> QED
      BY <1>3, <3>1, StepTypes DEF Waits, WaitsOn, Step
  <2>2. did' = Append(did, WaitsOn(i)) /\ node' = "waiting"
    BY <1>3 DEF Waits, Does
  <2>3. NodeAt'
    BY <2>1, <2>2, Decided DEF NodeAt
  <2>4. NodeWaits'
    <3>2. DOMAIN calls' = DOMAIN calls /\ \A k \in DOMAIN calls : calls'[k].state = calls[k].state
      BY <1>3, WaitCalls
    <3>3. PICK k \in DOMAIN calls' : calls'[k].read /\ Unfinished(k)
      BY <1>3 DEF Waits
    <3>4. calls'[k].state # "over"
      BY <3>2, <3>3 DEF Unfinished
    <3> QED
      BY <3>3, <3>4 DEF NodeWaits, Unfinished
  <2> QED
    BY <2>2, <2>3, <2>4, NodeWaiting
<1>4. CASE ParkStep
  <2>1. Writes \in Steps /\ Writes.does = "write" /\ Decides(Writes) /\ Live
    BY <1>4, StepTypes DEF ParkStep, Stage, Writes, Step
  <2>2. /\ did' = did /\ wrote' = wrote /\ node' = "parked" /\ replayed' = replayed
        /\ code' = code
        /\ journal' = Append(journal, [kind |-> "staged", by |-> me, effect |-> Effect])
    BY <1>4 DEF ParkStep, Stage, Live
  <2>3. NodeAt' /\ did \in DOMAIN plan' /\ plan'[did] = Writes
    BY <2>1, <2>2, Decided DEF NodeAt
  <2>4. /\ Len(journal') \in DOMAIN journal' /\ journal'[Len(journal')].kind = "staged"
        /\ journal'[Len(journal')].by = me /\ journal'[Len(journal')].effect = Effect
    <3> DEFINE x == [kind |-> "staged", by |-> me, effect |-> Effect]
    <3>1. x \in Entries /\ x.kind = "staged" /\ x.by = me /\ x.effect = Effect
      BY StateIs, EffectType DEF EffectIs, Entries
    <3> HIDE DEF x
    <3>2. /\ Len(journal) \in Nat /\ Len(journal') = Len(journal) + 1
          /\ DOMAIN journal' = 1 .. Len(journal) + 1
          /\ journal'[Len(journal) + 1] = x
      BY <2>2, <3>1, AppendIs DEF TypeOK, x
    <3> QED
      BY <3>1, <3>2
  <2>5. Effect' = Effect /\ me' = me /\ Writes' = Writes /\ Live'
    BY <2>1, <2>2 DEF Effect, me, mine, Writes, Live
  <2>6. node' \notin {"waiting", "down"}
    BY <2>2
  <2>7. Len(journal') \in Stagings(journal')
    BY <2>4 DEF Stagings
  <2>8. /\ did' \in DOMAIN plan' /\ plan'[did'] = Writes'
        /\ journal'[Len(journal')].by = me' /\ journal'[Len(journal')].effect = Effect'
    BY <2>2, <2>3, <2>4, <2>5
  <2> QED
    BY <2>3, <2>5, <2>6, <2>7, <2>8 DEF NodeIs, NodeAt
<1>5. CASE WriteStep
  <2>1. /\ did' = Append(did, Writes) /\ node' = "deciding"
        /\ did \in DOMAIN plan' /\ plan'[did] = Writes /\ MoreOf(plan, plan')
        /\ node \in {"parked", "deciding"}
    BY <1>5 DEF WriteStep, Live
  <2>2. /\ did \in Histories /\ Sound(did) /\ Follows(plan, did) /\ ~EndsIn(did, "wait")
        /\ Writes \in Steps /\ Writes.does = "write"
    BY <2>1, StepTypes DEF NodeIs, TypeOK, Writes, Step
  <2>3. Follows(plan', did)
    BY <2>1, <2>2, FollowsMore DEF MoreOf
  <2>4. Follows(plan', Append(did, Writes)) /\ Sound(Append(did, Writes))
        /\ ~EndsIn(Append(did, Writes), "wait")
    BY <2>1, <2>2, <2>3, FollowsStep, SoundDecides, EndsInIs
  <2>5. NodeAt'
    BY <2>1, <2>4 DEF NodeAt
  <2> QED
    BY <2>1, <2>5, NodeActs
<1>6. CASE Return
  <2>1. Returns \in Steps /\ Returns.does = "return" /\ Decides(Returns)
    BY <1>6, StepTypes DEF Return, Returns, Step
  <2>2. did' = did /\ node' = "returned"
    BY <1>6 DEF Return
  <2>3. NodeAt'
    BY <2>1, <2>2, Decided DEF NodeAt
  <2> QED
    BY <2>2, <2>3, NodeActs
<1>7. CASE FreshStep
  <2>1. did' = <<>> /\ node' \in {"down", "deciding"}
    BY <1>7 DEF FreshStep, Resume, Replay
  <2>2. NodeAt'
    BY <2>1, EndsInIs DEF NodeAt, Sound, Follows, EndsIn
  <2>3. CASE node' = "down"
    <3>1. calls' = <<>> /\ did' = <<>> /\ wrote' = 0 /\ ~asking' /\ Live'
      BY <1>7, <2>3 DEF FreshStep, Live, Resume, Replay
    <3> QED
      BY <2>2, <2>3, <3>1 DEF NodeIs, NodeAt
  <2> QED
    BY <2>1, <2>2, <2>3, NodeActs
<1>8. ASSUME NEW i \in DOMAIN calls, NEW what \in Answers \cup {GaveUp}, SeeStep(i, what)
      PROVE  NodeIs'
  <2> DEFINE x == Sees(i, what)
  <2>1. /\ x \in Steps /\ x.does = "see" /\ x.call = i /\ did \in Histories
        /\ did' = Append(did, x) /\ node = "waiting" /\ node' = "deciding" /\ plan' = plan
        /\ calls[i].read
    BY <1>8, CallIs, StepTypes DEF SeeStep, Sees, Step, TypeOK
  <2>2. Sound(did) /\ Follows(plan, did) /\ EndsIn(did, "wait")
    BY <2>1 DEF NodeIs
  <2>3. \E j \in DOMAIN did :
           /\ did[j].does = "ask" /\ did[j].call = i
           /\ \/ did[j].of \notin Streamed
              \/ \E m \in DOMAIN did : did[m].does = "wait" /\ did[m].call = i
    <3>1. PICK j \in DOMAIN did : did[j].does = "ask" /\ did[j].call = i
      BY DEF CallsAre
    <3>2. did[j].of = calls[i].question
      BY <3>1 DEF CallsAre
    <3>3. \/ calls[i].question \notin Streamed
          \/ \E k \in DOMAIN did : did[k].does = "wait" /\ did[k].call = i
      BY <2>1 DEF CallsAre
    <3> QED
      BY <3>1, <3>2, <3>3
  <2> HIDE DEF x
  <2>4. Sound(Append(did, x))
    BY <2>1, <2>2, <2>3, SoundSees
  <2>5. Follows(plan, Append(did, x)) /\ ~EndsIn(Append(did, x), "wait")
    BY <2>1, <2>2, FollowsStep, EndsInIs
  <2>6. NodeAt'
    BY <2>1, <2>4, <2>5 DEF NodeAt
  <2> QED
    BY <2>1, <2>6, NodeActs
<1>9. ASSUME NEW i \in DOMAIN calls, NEW what \in Answers \cup {GaveUp}, RecordStep(i, what)
      PROVE  NodeIs'
  <2>1. /\ did' = did /\ plan' = plan /\ node = "waiting" /\ node' = node /\ calls[i].read
    BY <1>9 DEF RecordStep, aside
  <2>2. NodeAt'
    BY <2>1 DEF NodeAt, NodeIs
  <2>3. /\ DOMAIN calls' = DOMAIN calls /\ calls'[i].read /\ calls'[i].state = "written"
    BY <1>9, <2>1, RecordCalls
  <2>4. NodeWaits'
    BY <2>3 DEF NodeWaits, Unfinished
  <2> QED
    BY <2>1, <2>2, <2>4, NodeWaiting
<1>10. ASSUME NEW i \in DOMAIN calls, AgainStep(i)
       PROVE  NodeIs'
  <2>1. /\ did' = did /\ plan' = plan /\ node = "waiting" /\ node' = node
        /\ calls[i].read /\ calls[i].state = "open"
    BY <1>10 DEF AgainStep, Expires, Open, aside
  <2>2. NodeAt'
    BY <2>1 DEF NodeAt, NodeIs
  <2>3. /\ DOMAIN calls' = DOMAIN calls /\ calls'[i].read /\ calls'[i].state = "open"
    BY <1>10, <2>1, CallAgain DEF AgainStep
  <2>4. NodeWaits'
    BY <2>3 DEF NodeWaits, Unfinished
  <2> QED
    BY <2>1, <2>2, <2>4, NodeWaiting
<1>11. ASSUME NEW i \in DOMAIN calls, HaltStep(i)
       PROVE  NodeIs'
  <2>1. /\ did' = did /\ plan' = plan /\ node = "waiting" /\ node' = "halted"
    BY <1>11 DEF HaltStep, Expires, Open, aside
  <2>2. NodeAt'
    BY <2>1 DEF NodeAt, NodeIs
  <2> QED
    BY <2>1, <2>2, NodeActs
<1> QED
  BY <1>1, <1>2, <1>3, <1>4, <1>5, <1>6, <1>7, <1>8, <1>9, <1>10, <1>11 DEF AStep

(***************************************************************************)
(* What the journal has of the attempt that runs.                          *)
(***************************************************************************)

OwnAsks == \A r \in DOMAIN journal : journal[r].kind = "request" /\ journal[r].by = me =>
             \E i \in DOMAIN calls : calls[i].request = r
OwnCall(i) ==
  /\ calls[i].request \in DOMAIN journal
  /\ journal[calls[i].request].kind = "request" /\ journal[calls[i].request].by = me
  /\ journal[calls[i].request].question = calls[i].question
  /\ \A j \in DOMAIN calls : i < j => calls[i].request < calls[j].request
  /\ calls[i].state = "open" => OutcomesIn(journal, calls[i].request) = {}
  /\ calls[i].state \in {"written", "over"} =>
       /\ calls[i].told \in OutcomesIn(journal, calls[i].request)
       /\ \A o \in OutcomesIn(journal, calls[i].request) : o <= calls[i].told
OwnSee(k) ==
  did[k].does = "see" =>
    /\ journal[calls[did[k].call].told].what = did[k].of
    /\ \A j \in 1 .. k - 1 :
         did[j].does = "see" => calls[did[j].call].told < calls[did[k].call].told
    /\ \A i \in DOMAIN calls :
         calls[i].state = "written" => calls[did[k].call].told < calls[i].told
OwnStaging(o) ==
  journal[o].by = me =>
    /\ \A i \in DOMAIN calls : Unfinished(i) => calls[i].request > o
    /\ Agree(journal[o].effect.from, did)
    /\ \/ Len(journal[o].effect.from) < Len(did)
       \/ node = "parked" /\ o = Len(journal)
OwnAll == /\ WritesSent(claims, mine, did) /\ OwnAsks
          /\ \A i \in DOMAIN calls : OwnCall(i)
          /\ \A k \in DOMAIN did : OwnSee(k)
          /\ \A o \in Stagings(journal) : OwnStaging(o)

LEMMA OwnParts ==
  Own <=> (Live /\ node # "down" => OwnAll)
<1>1. \A r : OutcomesIn(journal, r) = Outcomes(r)
  BY DEF OutcomesIn, Outcomes
<1>2. OwnAll <=>
    /\ WritesSent(claims, mine, did)
    /\ \A r \in DOMAIN journal : journal[r].kind = "request" /\ journal[r].by = me =>
         \E i \in DOMAIN calls : calls[i].request = r
    /\ \A i \in DOMAIN calls :
         /\ calls[i].request \in DOMAIN journal
         /\ journal[calls[i].request].kind = "request" /\ journal[calls[i].request].by = me
         /\ journal[calls[i].request].question = calls[i].question
         /\ \A j \in DOMAIN calls : i < j => calls[i].request < calls[j].request
         /\ calls[i].state = "open" => Outcomes(calls[i].request) = {}
         /\ calls[i].state \in {"written", "over"} =>
              /\ calls[i].told \in Outcomes(calls[i].request)
              /\ \A o \in Outcomes(calls[i].request) : o <= calls[i].told
    /\ \A k \in DOMAIN did : OwnSee(k)
    /\ \A o \in Stagings(journal) : OwnStaging(o)
  BY <1>1 DEF OwnAll, OwnAsks, OwnCall
<1> QED
  BY <1>2 DEF Own, OwnSee, OwnStaging

LEMMA OutcomesGrow ==
  ASSUME NEW J \in Seq(Entries), NEW x \in Entries, NEW r
  PROVE  OutcomesIn(Append(J, x), r) =
           OutcomesIn(J, r) \cup (IF x.kind = "response" /\ x.of = r THEN {Len(J) + 1} ELSE {})
<1> DEFINE K == Append(J, x)
<1>1. /\ \A i \in DOMAIN J : i \in DOMAIN K /\ K[i] = J[i]
      /\ Len(J) + 1 \in DOMAIN K /\ K[Len(J) + 1] = x
      /\ \A i \in DOMAIN K : i \in DOMAIN J \/ i = Len(J) + 1
  <2>1. /\ Len(J) \in Nat /\ DOMAIN K = 1 .. Len(J) + 1
        /\ \A i \in DOMAIN J : i \in DOMAIN K /\ K[i] = J[i]
        /\ K[Len(J) + 1] = x
        /\ \A i \in DOMAIN K : i \in DOMAIN J \/ i = Len(J) + 1
    BY AppendIs
  <2> HIDE DEF K
  <2> QED
    BY <2>1
<1> HIDE DEF K
<1>2. OutcomesIn(K, r) =
           OutcomesIn(J, r) \cup (IF x.kind = "response" /\ x.of = r THEN {Len(J) + 1} ELSE {})
  BY <1>1 DEF OutcomesIn
<1> QED
  BY <1>2 DEF K

\* Of the requests of the calls, no two are one.
LEMMA RequestsDiffer ==
  ASSUME TypeOK, OwnAll, NEW i \in DOMAIN calls, NEW j \in DOMAIN calls, i # j
  PROVE  calls[i].request # calls[j].request
<1>1. i \in Nat /\ j \in Nat /\ calls[i].request \in Nat /\ calls[j].request \in Nat
  BY CallIs
<1>2. i < j => calls[i].request < calls[j].request
  BY DEF OwnAll, OwnCall
<1>3. j < i => calls[j].request < calls[i].request
  BY DEF OwnAll, OwnCall
<1> QED
  BY <1>1, <1>2, <1>3

OldEntries == \A o \in DOMAIN journal : o \in DOMAIN journal' /\ journal'[o] = journal[o]

\* A call nothing came to, while calls that were asked stay and later ones follow.
LEMMA OwnCallStays ==
  ASSUME TypeOK, OwnAll, code' = code, OldEntries, NEW i \in DOMAIN calls,
         DOMAIN calls \subseteq DOMAIN calls',
         \A j \in DOMAIN calls : calls'[j].request = calls[j].request,
         \A j \in DOMAIN calls' : j \notin DOMAIN calls => calls'[j].request = Len(journal) + 1,
         calls'[i].question = calls[i].question,
         OutcomesIn(journal', calls[i].request) = OutcomesIn(journal, calls[i].request),
         calls'[i].state = "open" => calls[i].state = "open",
         calls'[i].state \in {"written", "over"} =>
           calls[i].state \in {"written", "over"} /\ calls'[i].told = calls[i].told
  PROVE  OwnCall(i)'
<1>1. OwnCall(i) /\ me' = me
  BY DEF OwnAll, me
<1>2. Len(journal) \in Nat /\ DOMAIN journal = 1 .. Len(journal)
  BY StateIs
<1>3. ASSUME NEW j \in DOMAIN calls', i < j
      PROVE  calls'[i].request < calls'[j].request
  <2>1. CASE j \in DOMAIN calls
    BY <1>1, <1>3, <2>1 DEF OwnCall
  <2>2. CASE j \notin DOMAIN calls
    <3>1. calls[i].request \in 1 .. Len(journal) /\ calls'[j].request = Len(journal) + 1
      BY <1>1, <1>2, <2>2 DEF OwnCall
    <3> QED
      BY <1>2, <3>1
  <2> QED
    BY <2>1, <2>2
<1>4. /\ calls'[i].request \in DOMAIN journal'
      /\ journal'[calls'[i].request].kind = "request" /\ journal'[calls'[i].request].by = me'
      /\ journal'[calls'[i].request].question = calls'[i].question
  BY <1>1 DEF OwnCall, OldEntries
<1>5. calls'[i].state = "open" => OutcomesIn(journal', calls'[i].request) = {}
  BY <1>1 DEF OwnCall
<1>6. calls'[i].state \in {"written", "over"} =>
       /\ calls'[i].told \in OutcomesIn(journal', calls'[i].request)
       /\ \A o \in OutcomesIn(journal', calls'[i].request) : o <= calls'[i].told
  BY <1>1 DEF OwnCall
<1> QED
  BY <1>3, <1>4, <1>5, <1>6 DEF OwnCall

\* What was seen before, was.
LEMMA OwnSeeStays ==
  ASSUME TypeOK, CallsAre, OwnAll, OldEntries, NEW k \in DOMAIN did,
         \A j \in DOMAIN did : did'[j] = did[j],
         DOMAIN calls \subseteq DOMAIN calls',
         \A i \in DOMAIN calls : calls[i].state = "over" => calls'[i].told = calls[i].told,
         \A i \in DOMAIN calls' : calls'[i].state = "written" =>
           \/ i \in DOMAIN calls /\ calls[i].state = "written" /\ calls'[i].told = calls[i].told
           \/ calls'[i].told = Len(journal) + 1
  PROVE  OwnSee(k)'
<1> SUFFICES ASSUME did[k].does = "see"
             PROVE  /\ journal'[calls'[did[k].call].told].what = did[k].of
                    /\ \A j \in 1 .. k - 1 :
                         did'[j].does = "see" => calls'[did'[j].call].told < calls'[did[k].call].told
                    /\ \A i \in DOMAIN calls' :
                         calls'[i].state = "written" => calls'[did[k].call].told < calls'[i].told
  BY DEF OwnSee
<1>1. OwnSee(k) /\ Len(journal) \in Nat /\ DOMAIN journal = 1 .. Len(journal)
      /\ did[k].call \in DOMAIN calls /\ calls[did[k].call].state = "over"
      /\ DOMAIN did = 1 .. Len(did) /\ Len(did) \in Nat
  BY StateIs DEF OwnAll, CallsAre
<1>2. calls[did[k].call].told \in DOMAIN journal
  BY <1>1 DEF OwnAll, OwnCall, OutcomesIn
<1>3. calls'[did[k].call].told = calls[did[k].call].told
  BY <1>1
<1>4. journal'[calls'[did[k].call].told].what = did[k].of
  BY <1>1, <1>2, <1>3 DEF OwnSee, OldEntries
<1>5. ASSUME NEW j \in 1 .. k - 1, did'[j].does = "see"
      PROVE  calls'[did'[j].call].told < calls'[did[k].call].told
  <2>1. j \in DOMAIN did /\ did'[j] = did[j]
    BY <1>1
  <2>2. did[j].call \in DOMAIN calls /\ calls[did[j].call].state = "over"
    BY <1>5, <2>1 DEF CallsAre
  <2>3. calls[did[j].call].told < calls[did[k].call].told
    BY <1>1, <1>5, <2>1 DEF OwnSee
  <2> QED
    BY <1>3, <2>1, <2>2, <2>3
<1>6. ASSUME NEW i \in DOMAIN calls', calls'[i].state = "written"
      PROVE  calls'[did[k].call].told < calls'[i].told
  <2>1. CASE i \in DOMAIN calls /\ calls[i].state = "written" /\ calls'[i].told = calls[i].told
    BY <1>1, <1>3, <2>1 DEF OwnSee
  <2>2. CASE calls'[i].told = Len(journal) + 1
    BY <1>1, <1>2, <1>3, <2>2
  <2> QED
    BY <1>6, <2>1, <2>2
<1> QED
  BY <1>4, <1>5, <1>6

\* A staging of this attempt comes before what it does next.
LEMMA OwnStagingsStay ==
  ASSUME TypeOK, NodeIs, OwnAll, code' = code, OldEntries, Stagings(journal') \subseteq Stagings(journal),
         \A i \in DOMAIN calls' :
           \/ /\ i \in DOMAIN calls /\ calls'[i].request = calls[i].request
              /\ calls'[i].state # "over" => calls[i].state # "over"
           \/ calls'[i].request = Len(journal) + 1,
         \/ did' = did /\ node # "parked"
         \/ \E x \in Steps : did' = Append(did, x),
         NEW o \in Stagings(journal')
  PROVE  OwnStaging(o)'
<1>1. o \in Stagings(journal) /\ o \in DOMAIN journal /\ OwnStaging(o) /\ me' = me
      /\ journal'[o] = journal[o] /\ journal[o].effect.from \in Histories /\ did \in Histories
      /\ Len(journal) \in Nat /\ o \in 1 .. Len(journal)
  <2>1. o \in Stagings(journal)
    OBVIOUS
  <2> QED
    BY <2>1, StagingIs, StateIs DEF OwnAll, me, OldEntries, TypeOK
<1> SUFFICES ASSUME journal[o].by = me
             PROVE  /\ \A i \in DOMAIN calls' : calls'[i].state # "over" => calls'[i].request > o
                    /\ Agree(journal[o].effect.from, did')
                    /\ Len(journal[o].effect.from) < Len(did')
  BY <1>1 DEF OwnStaging, Unfinished
<1>2. ASSUME NEW i \in DOMAIN calls', calls'[i].state # "over"
      PROVE  calls'[i].request > o
  <2>1. CASE /\ i \in DOMAIN calls /\ calls'[i].request = calls[i].request
             /\ calls'[i].state # "over" => calls[i].state # "over"
    BY <1>1, <1>2, <2>1 DEF OwnStaging, Unfinished
  <2>2. CASE calls'[i].request = Len(journal) + 1
    BY <1>1, <2>2
  <2> QED
    BY <2>1, <2>2
<1> DEFINE from == journal[o].effect.from
<1>3. /\ Agree(from, did) /\ (Len(from) < Len(did) \/ (node = "parked" /\ o = Len(journal)))
      /\ Len(from) \in Nat /\ Len(did) \in Nat /\ DOMAIN from = 1 .. Len(from)
      /\ DOMAIN did = 1 .. Len(did)
  BY <1>1, HistoryIs DEF OwnStaging
<1>4. CASE did' = did /\ node # "parked"
  BY <1>2, <1>3, <1>4
<1>5. ASSUME NEW x \in Steps, did' = Append(did, x)
      PROVE  Agree(from, did') /\ Len(from) < Len(did')
  <2>1. /\ Len(did') = Len(did) + 1 /\ \A k \in DOMAIN did : did'[k] = did[k]
        /\ \A k \in DOMAIN did' : k \in DOMAIN did \/ k = Len(did) + 1
    <3>1. /\ Len(Append(did, x)) = Len(did) + 1 /\ \A k \in DOMAIN did : Append(did, x)[k] = did[k]
          /\ \A k \in DOMAIN Append(did, x) : k \in DOMAIN did \/ k = Len(did) + 1
      BY <1>1, Longer
    <3> QED
      BY <1>5, <3>1
  <2>2. Len(from) <= Len(did)
    <3>1. node = "parked" /\ o = Len(journal) => from = did
      BY DEF NodeIs, Effect
    <3> QED
      BY <1>3, <3>1
  <2>3. Agree(from, did')
    <3>1. \A k \in DOMAIN from : k # Len(did) + 1
      BY <1>3, <2>2
    <3> QED
      BY <1>3, <2>1, <3>1 DEF Agree
  <2> QED
    BY <1>3, <2>1, <2>2, <2>3
<1>6. Agree(from, did') /\ Len(from) < Len(did')
  BY <1>3, <1>4, <1>5
<1> QED
  BY <1>2, <1>6

LEMMA OwnNow ==
  ASSUME OwnAll'
  PROVE  Own'
<1>1. \A r : OutcomesIn(journal', r) = Outcomes(r)'
  BY DEF OutcomesIn, Outcomes
<1>2. /\ WritesSent(claims, mine, did)'
      /\ \A r \in DOMAIN journal' : journal'[r].kind = "request" /\ journal'[r].by = me' =>
           \E i \in DOMAIN calls' : calls'[i].request = r
      /\ \A i \in DOMAIN calls' :
           /\ calls'[i].request \in DOMAIN journal'
           /\ journal'[calls'[i].request].kind = "request" /\ journal'[calls'[i].request].by = me'
           /\ journal'[calls'[i].request].question = calls'[i].question
           /\ \A j \in DOMAIN calls' : i < j => calls'[i].request < calls'[j].request
           /\ calls'[i].state = "open" => Outcomes(calls[i].request)' = {}
           /\ calls'[i].state \in {"written", "over"} =>
                /\ calls'[i].told \in Outcomes(calls[i].request)'
                /\ \A o \in Outcomes(calls[i].request)' : o <= calls'[i].told
      /\ \A k \in DOMAIN did' : OwnSee(k)'
      /\ \A o \in Stagings(journal') : OwnStaging(o)'
  BY <1>1 DEF OwnAll, OwnAsks, OwnCall
<1> QED
  BY <1>2 DEF Own, OwnSee, OwnStaging

LEMMA Entered ==
  ASSUME TypeOK, NEW x \in Entries, journal' = Append(journal, x)
  PROVE  /\ OldEntries /\ Len(journal) + 1 \in DOMAIN journal' /\ journal'[Len(journal) + 1] = x
         /\ Len(journal) + 1 \notin DOMAIN journal
         /\ \A o \in DOMAIN journal' : o \in DOMAIN journal \/ o = Len(journal) + 1
         /\ x.kind # "staged" => Stagings(journal') \subseteq Stagings(journal)
         /\ \A r : OutcomesIn(journal', r) = OutcomesIn(journal, r) \cup
              (IF x.kind = "response" /\ x.of = r THEN {Len(journal) + 1} ELSE {})
<1>1. journal \in Seq(Entries)
  BY DEF TypeOK
<1>2. /\ Len(journal) \in Nat /\ DOMAIN journal = 1 .. Len(journal)
      /\ DOMAIN Append(journal, x) = 1 .. Len(journal) + 1
      /\ \A o \in DOMAIN journal : o \in DOMAIN Append(journal, x) /\ Append(journal, x)[o] = journal[o]
      /\ Append(journal, x)[Len(journal) + 1] = x
      /\ \A o \in DOMAIN Append(journal, x) : o \in DOMAIN journal \/ o = Len(journal) + 1
  BY <1>1, AppendIs
<1>3. /\ OldEntries /\ Len(journal) + 1 \in DOMAIN journal' /\ journal'[Len(journal) + 1] = x
      /\ Len(journal) + 1 \notin DOMAIN journal
      /\ \A o \in DOMAIN journal' : o \in DOMAIN journal \/ o = Len(journal) + 1
  BY <1>2 DEF OldEntries
<1>4. x.kind # "staged" => Stagings(journal') \subseteq Stagings(journal)
  BY <1>3 DEF Stagings, OldEntries
<1>5. \A r : OutcomesIn(journal', r) = OutcomesIn(journal, r) \cup
              (IF x.kind = "response" /\ x.of = r THEN {Len(journal) + 1} ELSE {})
  BY <1>1, OutcomesGrow
<1> QED
  BY <1>3, <1>4, <1>5

\* A step after which the attempt has entered nothing.
LEMMA OwnQuiet ==
  ASSUME TypeOK, CallsAre, NodeIs, OwnAll, code' = code, journal' = journal,
         DOMAIN calls' = DOMAIN calls,
         \A i \in DOMAIN calls :
           /\ calls'[i].question = calls[i].question /\ calls'[i].request = calls[i].request
           /\ calls'[i].told = calls[i].told
           /\ calls'[i].state = calls[i].state \/ (calls'[i].state = "over" /\ calls[i].state = "written"),
         WritesSent(claims', mine, did'),
         \/ did' = did /\ node # "parked"
         \/ \E x \in Steps : /\ did' = Append(did, x)
                             /\ \A n : x.does = "see" /\ n = Len(did) + 1 => OwnSee(n)'
  PROVE  Own'
<1>1. OldEntries /\ Stagings(journal') \subseteq Stagings(journal)
      /\ \A r : OutcomesIn(journal', r) = OutcomesIn(journal, r)
  BY DEF OldEntries
<1>2. me' = me /\ mine' = mine
  BY DEF me, mine
<1>3. OwnAsks'
  BY <1>2 DEF OwnAll, OwnAsks
<1>4. ASSUME NEW i \in DOMAIN calls'
      PROVE  OwnCall(i)'
  <2>1. calls'[i].state = "open" => calls[i].state = "open"
    OBVIOUS
  <2>2. calls'[i].state \in {"written", "over"} =>
           calls[i].state \in {"written", "over"} /\ calls'[i].told = calls[i].told
    OBVIOUS
  <2> QED
    BY <1>1, <2>1, <2>2, OwnCallStays
<1>5. /\ \A j \in DOMAIN did : did'[j] = did[j]
      /\ \A k \in DOMAIN did' : k \in DOMAIN did \/
           (k = Len(did) + 1 /\ (did'[k].does = "see" => OwnSee(k)'))
  <2>1. CASE did' = did
    BY <2>1
  <2>2. ASSUME NEW x \in Steps, did' = Append(did, x),
                     \A n : x.does = "see" /\ n = Len(did) + 1 => OwnSee(n)'
        PROVE  /\ \A j \in DOMAIN did : did'[j] = did[j]
               /\ \A k \in DOMAIN did' : k \in DOMAIN did \/
                    (k = Len(did) + 1 /\ (did'[k].does = "see" => OwnSee(k)'))
    <3>1. /\ \A k \in DOMAIN did : Append(did, x)[k] = did[k]
          /\ Append(did, x)[Len(did) + 1] = x
          /\ \A k \in DOMAIN Append(did, x) : k \in DOMAIN did \/ k = Len(did) + 1
      BY Longer DEF TypeOK
    <3> QED
      BY <2>2, <3>1
  <2> QED
    BY <2>1, <2>2
<1>6. ASSUME NEW k \in DOMAIN did'
      PROVE  OwnSee(k)'
  <2>1. CASE k \in DOMAIN did
    <3>1. /\ DOMAIN calls \subseteq DOMAIN calls'
          /\ \A i \in DOMAIN calls : calls[i].state = "over" => calls'[i].told = calls[i].told
          /\ \A i \in DOMAIN calls' : calls'[i].state = "written" =>
                i \in DOMAIN calls /\ calls[i].state = "written" /\ calls'[i].told = calls[i].told
      OBVIOUS
    <3> QED
      BY <1>1, <1>5, <2>1, <3>1, OwnSeeStays
  <2>2. CASE k = Len(did) + 1 /\ (did'[k].does = "see" => OwnSee(k)')
    BY <2>2 DEF OwnSee
  <2> QED
    BY <1>5, <2>1, <2>2
<1>7. ASSUME NEW o \in Stagings(journal')
      PROVE  OwnStaging(o)'
  <2>1. /\ \A i \in DOMAIN calls' :
              /\ i \in DOMAIN calls /\ calls'[i].request = calls[i].request
              /\ calls'[i].state # "over" => calls[i].state # "over"
        /\ \/ did' = did /\ node # "parked"
           \/ \E x \in Steps : did' = Append(did, x)
    OBVIOUS
  <2> QED
    BY <1>1, <2>1, OwnStagingsStay
<1>8. WritesSent(claims, mine, did)'
  BY <1>2
<1>9. OwnAll'
  BY <1>3, <1>4, <1>6, <1>7, <1>8 DEF OwnAll
<1> QED
  BY <1>9, OwnNow

LEMMA OwnNext ==
  ASSUME TypeOK, JournalIs, CallsAre, NodeIs, Own, Guided, Replaying, AStep, Keeps
  PROVE  Own'
<1> SUFFICES ASSUME Live', node' # "down" PROVE Own'
  BY DEF Own
<1>a. Live /\ (node # "down" => OwnAll) /\ did \in Histories
  <2>1. Live
    BY DEF AStep, AskStep, DivergeStep, Waits, ParkStep, Stage, WriteStep, Return, FreshStep,
         SeeStep,
           RecordStep, AgainStep, HaltStep, Expires, Live, run, aside
  <2> QED
    BY <2>1, OwnParts DEF TypeOK
<1>b. \A e : IsSent(claims, e) => IsSent(claims', e)
  BY SentStays DEF Keeps
<1>1. ASSUME NEW q \in Questions, NEW r \in Nat, NEW t \in Nat, AskStep(q, r, t)
      PROVE  Own'
  <2> DEFINE x == [kind |-> "request", by |-> me, question |-> q]
             n == Len(journal) + 1
  <2>1. /\ node = "deciding" /\ r = n /\ journal' = Append(journal, x) /\ code' = code
        /\ claims' = claims /\ calls' = Append(calls, Call(q, r, t)) /\ did' = Append(did, Asks(q))
        /\ node' = node
    BY <1>1, <1>a DEF AskStep, Decides
  <2>2. OwnAll /\ me' = me /\ mine' = mine
    BY <1>a, <2>1 DEF me, mine
  <2>3. Asks(q) \in Steps /\ Asks(q).does = "ask"
    BY StepTypes DEF Asks, Step
  <2>4. x \in Entries /\ x.kind = "request" /\ x.by = me /\ x.question = q
    BY StateIs DEF Entries
  <2> HIDE DEF x
  <2>5. /\ OldEntries /\ n \in DOMAIN journal' /\ journal'[n] = x /\ n \notin DOMAIN journal
        /\ \A o \in DOMAIN journal' : o \in DOMAIN journal \/ o = n
        /\ Stagings(journal') \subseteq Stagings(journal)
        /\ \A s : OutcomesIn(journal', s) = OutcomesIn(journal, s)
    BY <2>1, <2>4, Entered
  <2>6. /\ DOMAIN calls' = DOMAIN calls \cup {Len(calls) + 1} /\ Len(calls) + 1 \notin DOMAIN calls
        /\ \A k \in DOMAIN calls : calls'[k] = calls[k]
        /\ calls'[Len(calls) + 1].question = q /\ calls'[Len(calls) + 1].request = n
        /\ calls'[Len(calls) + 1].state = "open"
    BY <2>1, CallAsked
  <2>7. /\ \A k \in DOMAIN did : did'[k] = did[k]
        /\ did'[Len(did) + 1] = Asks(q)
        /\ \A k \in DOMAIN did' : k \in DOMAIN did \/ k = Len(did) + 1
    <3>1. /\ \A k \in DOMAIN did : Append(did, Asks(q))[k] = did[k]
          /\ Append(did, Asks(q))[Len(did) + 1] = Asks(q)
          /\ \A k \in DOMAIN Append(did, Asks(q)) : k \in DOMAIN did \/ k = Len(did) + 1
      BY <1>a, <2>3, Longer
    <3> QED
      BY <2>1, <3>1
  <2> HIDE DEF n
  <2>8. WritesSent(claims, mine, did)'
    <3>1. WritesSent(claims, mine, Append(did, Asks(q)))
      BY <1>a, <2>2, <2>3, SentStep DEF OwnAll
    <3> QED
      BY <2>1, <2>2, <3>1
  <2>9. OwnAsks'
    <3> SUFFICES ASSUME NEW s \in DOMAIN journal', journal'[s].kind = "request", journal'[s].by = me'
                 PROVE  \E i \in DOMAIN calls' : calls'[i].request = s
      BY DEF OwnAsks
    <3>1. CASE s \in DOMAIN journal
      BY <2>2, <2>5, <2>6, <3>1 DEF OwnAll, OwnAsks, OldEntries
    <3>2. CASE s = n
      BY <2>6, <3>2
    <3> QED
      BY <2>5, <3>1, <3>2
  <2>10. ASSUME NEW i \in DOMAIN calls'
         PROVE  OwnCall(i)'
    <3>1. CASE i \in DOMAIN calls
      <4>1. /\ DOMAIN calls \subseteq DOMAIN calls'
            /\ \A j \in DOMAIN calls : calls'[j].request = calls[j].request
            /\ \A j \in DOMAIN calls' : j \notin DOMAIN calls => calls'[j].request = Len(journal) + 1
            /\ calls'[i].question = calls[i].question
            /\ calls'[i].state = "open" => calls[i].state = "open"
            /\ calls'[i].state \in {"written", "over"} =>
                  calls[i].state \in {"written", "over"} /\ calls'[i].told = calls[i].told
        BY <2>6, <3>1 DEF n
      <4> QED
        BY <2>1, <2>2, <2>5, <3>1, <4>1, OwnCallStays
    <3>2. CASE i = Len(calls) + 1
      <4>1. OutcomesIn(journal, n) = {}
        BY <2>5 DEF JournalIs, OutcomesIn
      <4>2. \A j \in DOMAIN calls' : ~(i < j)
        BY <2>6, <3>2, StateIs
      <4> QED
        BY <2>2, <2>4, <2>5, <2>6, <3>2, <4>1, <4>2 DEF OwnCall
    <3> QED
      BY <2>6, <3>1, <3>2
  <2>11. ASSUME NEW k \in DOMAIN did'
         PROVE  OwnSee(k)'
    <3>1. CASE k \in DOMAIN did
      <4>1. /\ \A j \in DOMAIN did : did'[j] = did[j]
            /\ DOMAIN calls \subseteq DOMAIN calls'
            /\ \A i \in DOMAIN calls : calls[i].state = "over" => calls'[i].told = calls[i].told
            /\ \A i \in DOMAIN calls' : calls'[i].state = "written" =>
                 i \in DOMAIN calls /\ calls[i].state = "written" /\ calls'[i].told = calls[i].told
        BY <2>6, <2>7
      <4> QED
        BY <2>2, <2>5, <3>1, <4>1, OwnSeeStays
    <3>2. CASE k = Len(did) + 1
      BY <2>3, <2>7, <3>2 DEF OwnSee
    <3> QED
      BY <2>7, <3>1, <3>2
  <2>12. ASSUME NEW o \in Stagings(journal')
         PROVE  OwnStaging(o)'
    <3>1. /\ \A i \in DOMAIN calls' :
               \/ /\ i \in DOMAIN calls /\ calls'[i].request = calls[i].request
                  /\ calls'[i].state # "over" => calls[i].state # "over"
               \/ calls'[i].request = Len(journal) + 1
          /\ \E y \in Steps : did' = Append(did, y)
      BY <2>1, <2>3, <2>6 DEF n
    <3> QED
      BY <2>1, <2>2, <2>5, <3>1, OwnStagingsStay
  <2>13. OwnAll'
    BY <2>8, <2>9, <2>10, <2>11, <2>12 DEF OwnAll
  <2> QED
    BY <2>13, OwnNow
<1>2. ASSUME NEW q \in Questions, DivergeStep(q)
      PROVE  Own'
  BY <1>2, <1>a DEF DivergeStep, Live
<1>3. ASSUME NEW i \in DOMAIN calls \cup {0}, Waits(i)
      PROVE  Own'
  <2>1. /\ node = "deciding" /\ code' = code /\ journal' = journal /\ claims' = claims
        /\ did' = Append(did, WaitsOn(i))
    BY <1>3 DEF Waits, Does, run, Decides
  <2>2. OwnAll /\ mine' = mine
    BY <1>a, <2>1 DEF mine, me
  <2>3. WaitsOn(i) \in Steps /\ WaitsOn(i).does = "wait"
    <3>1. i \in Nat
      BY CallIs
    <3> QED
      BY <3>1, StepTypes DEF WaitsOn, Step
  <2>4. /\ DOMAIN calls' = DOMAIN calls
        /\ \A k \in DOMAIN calls :
           /\ calls'[k].question = calls[k].question /\ calls'[k].request = calls[k].request
           /\ calls'[k].told = calls[k].told /\ calls'[k].state = calls[k].state
    BY <1>3, WaitCalls
  <2>5. WritesSent(claims', mine, did')
    <3>1. WritesSent(claims, mine, Append(did, WaitsOn(i)))
      BY <1>a, <2>2, <2>3, SentStep DEF OwnAll
    <3> QED
      BY <2>1, <3>1
  <2> QED
    BY <2>1, <2>2, <2>3, <2>4, <2>5, OwnQuiet
<1>4. CASE ParkStep
  <2> DEFINE x == [kind |-> "staged", by |-> me, effect |-> Effect]
             n == Len(journal) + 1
  <2>1. /\ node = "deciding" /\ journal' = Append(journal, x) /\ code' = code
        /\ claims' = claims /\ calls' = calls /\ did' = did /\ node' = "parked" /\ MayWrite
    BY <1>4, <1>a DEF ParkStep, Stage, Decides, Live
  <2>2. OwnAll /\ me' = me /\ mine' = mine
    BY <1>a, <2>1 DEF me, mine
  <2>3. x \in Entries /\ x.kind = "staged" /\ x.by = me /\ x.effect.from = did
    BY StateIs, EffectType DEF EffectIs, Entries, Effect
  <2> HIDE DEF x
  <2>4. /\ OldEntries /\ n \in DOMAIN journal' /\ journal'[n] = x /\ n \notin DOMAIN journal
        /\ \A o \in DOMAIN journal' : o \in DOMAIN journal \/ o = n
        /\ \A s : OutcomesIn(journal', s) = OutcomesIn(journal, s)
    BY <2>1, <2>3, Entered
  <2>5. Len(journal') = n
    BY <2>1, <2>3, AppendIs DEF TypeOK
  <2>6. OwnAsks'
    BY <2>1, <2>2, <2>3, <2>4 DEF OwnAll, OwnAsks, OldEntries
  <2>7. ASSUME NEW i \in DOMAIN calls'
        PROVE  OwnCall(i)'
    BY <2>1, <2>2, <2>4, OwnCallStays
  <2>8. ASSUME NEW k \in DOMAIN did'
        PROVE  OwnSee(k)'
    BY <2>1, <2>2, <2>4, OwnSeeStays
  <2>9. ASSUME NEW o \in Stagings(journal')
        PROVE  OwnStaging(o)'
    <3>1. \A i \in DOMAIN calls : ~Unfinished(i)
      BY <2>1 DEF MayWrite
    <3>2. CASE o \in DOMAIN journal
      <4>1. o \in Stagings(journal) /\ journal'[o] = journal[o]
        BY <2>4, <3>2 DEF Stagings, OldEntries
      <4> QED
        BY <2>1, <2>2, <3>1, <4>1 DEF OwnAll, OwnStaging, Unfinished
    <3>3. CASE o = n
      BY <2>1, <2>3, <2>4, <2>5, <3>1, <3>3 DEF OwnStaging, Unfinished, Agree
    <3> QED
      BY <2>4, <3>2, <3>3 DEF Stagings
  <2>10. WritesSent(claims, mine, did)'
    BY <2>1, <2>2 DEF OwnAll
  <2>11. OwnAll'
    BY <2>6, <2>7, <2>8, <2>9, <2>10 DEF OwnAll
  <2> QED
    BY <2>11, OwnNow
<1>5. CASE WriteStep
  <2>1. /\ node = "parked" /\ code' = code /\ journal' = journal /\ calls' = calls
        /\ did' = Append(did, Writes) /\ IsSent(claims', Effect)
    BY <1>5, <1>a DEF WriteStep
  <2>2. OwnAll /\ mine' = mine /\ Effect = [code |-> mine, nth |-> wrote + 1, from |-> did]
    BY <1>a, <2>1 DEF mine, me, Effect
  <2>3. Writes \in Steps /\ Writes.does = "write" /\ Writes.call = wrote + 1
    BY StepTypes DEF Writes, Step
  <2>4. WritesSent(claims', mine, did')
    <3>1. WritesSent(claims', mine, did)
      BY <1>b, <2>2, SentMore DEF OwnAll
    <3>2. WritesSent(claims', mine, Append(did, Writes))
      BY <1>a, <2>1, <2>2, <2>3, <3>1, SentStep
    <3> QED
      BY <2>1, <3>2
  <2> QED
    BY <2>1, <2>2, <2>3, <2>4, OwnQuiet
<1>6. CASE Return
  <2>1. /\ node = "deciding" /\ code' = code /\ journal' = journal /\ claims' = claims
        /\ did' = did /\ calls' = calls
    BY <1>6 DEF Return, Decides
  <2>2. OwnAll /\ mine' = mine
    BY <1>a, <2>1 DEF mine, me
  <2>3. WritesSent(claims', mine, did')
    BY <2>1, <2>2 DEF OwnAll
  <2> QED
    BY <2>1, <2>2, <2>3, OwnQuiet
<1>7. CASE FreshStep
  <2>1. Resume
    BY <1>7, <1>a DEF FreshStep, Replay, Live
  <2>2. /\ calls' = <<>> /\ did' = <<>> /\ journal' = journal /\ me' = me + 1
    <3>1. calls' = <<>> /\ did' = <<>> /\ journal' = journal
      BY <1>7 DEF FreshStep
    <3>2. \E c \in Nat : code' = Append(code, c)
      <4>1. mine \in Nat /\ mine + 1 \in Nat
        BY StateIs
      <4> QED
        BY <2>1, <4>1 DEF Resume
    <3>3. PICK c \in Nat : code' = Append(code, c)
      BY <3>2
    <3>4. code \in Seq(Nat)
      BY DEF TypeOK
    <3>5. Len(code') = Len(code) + 1
      BY <3>3, <3>4, AppendIs
    <3> QED
      BY <3>1, <3>5 DEF me
  <2>3. \A o \in DOMAIN journal : journal[o].by # me'
    <3>1. me' \notin DOMAIN code
      BY <2>2, StateIs
    <3> QED
      BY <3>1 DEF JournalIs
  <2>4. OwnAll'
    BY <2>2, <2>3 DEF OwnAll, OwnAsks, OwnStaging, WritesSent, Stagings
  <2> QED
    BY <2>4, OwnNow
<1>8. ASSUME NEW i \in DOMAIN calls, NEW what \in Answers \cup {GaveUp}, SeeStep(i, what)
      PROVE  Own'
  <2> DEFINE x == Sees(i, what)
  <2>1. /\ x \in Steps /\ x.does = "see" /\ x.call = i /\ x.of = what
        /\ did' = Append(did, x) /\ node = "waiting" /\ code' = code /\ journal' = journal
        /\ claims' = claims /\ calls' = [calls EXCEPT ![i].state = "over"]
        /\ calls[i].state = "written" /\ what = journal[calls[i].told].what
        /\ \A k \in DOMAIN calls : calls[k].state = "written" => calls[i].told <= calls[k].told
    BY <1>8, <1>a, CallIs, StepTypes DEF SeeStep, Sees, Step, run
  <2> HIDE DEF x
  <2>2. OwnAll /\ mine' = mine
    BY <1>a, <2>1 DEF mine, me
  <2>3. /\ DOMAIN calls' = DOMAIN calls
        /\ \A k \in DOMAIN calls :
              /\ calls'[k].question = calls[k].question /\ calls'[k].request = calls[k].request
              /\ calls'[k].told = calls[k].told
              /\ calls'[k].state = IF k = i THEN "over" ELSE calls[k].state
    BY <2>1, CallEnds
  <2>4. WritesSent(claims', mine, did')
    <3>1. WritesSent(claims, mine, Append(did, x))
      BY <1>a, <2>1, <2>2, SentStep DEF OwnAll
    <3> QED
      BY <2>1, <3>1
  <2>5. ASSUME NEW n, n = Len(did) + 1
        PROVE  OwnSee(n)'
    <3>1. /\ \A k \in DOMAIN did : did'[k] = did[k]
          /\ did'[n] = x /\ Len(did) \in Nat /\ DOMAIN did = 1 .. Len(did)
      BY <1>a, <2>1, <2>5, Longer
    <3>2. journal'[calls'[did'[n].call].told].what = did'[n].of
      BY <2>1, <2>3, <3>1
    <3>3. ASSUME NEW j \in 1 .. n - 1, did'[j].does = "see"
          PROVE  calls'[did'[j].call].told < calls'[did'[n].call].told
      <4>1. j \in DOMAIN did /\ did'[j] = did[j]
        BY <2>5, <3>1
      <4>2. did[j].call \in DOMAIN calls
        BY <3>3, <4>1 DEF CallsAre
      <4>3. calls[did[j].call].told < calls[i].told
        BY <2>1, <2>2, <3>3, <4>1 DEF OwnAll, OwnSee
      <4> QED
        BY <2>1, <2>3, <3>1, <4>1, <4>2, <4>3
    <3>4. ASSUME NEW k \in DOMAIN calls', calls'[k].state = "written"
          PROVE  calls'[did'[n].call].told < calls'[k].told
      <4>1. k \in DOMAIN calls /\ k # i /\ calls[k].state = "written"
        BY <2>3, <3>4
      <4>2. calls[i].told <= calls[k].told /\ calls[i].told \in Nat /\ calls[k].told \in Nat
        BY <2>1, <4>1, CallIs
      <4>3. calls[i].told # calls[k].told
        <5>1. /\ calls[i].told \in OutcomesIn(journal, calls[i].request)
              /\ calls[k].told \in OutcomesIn(journal, calls[k].request)
          BY <2>1, <2>2, <4>1 DEF OwnAll, OwnCall
        <5>2. calls[i].request # calls[k].request
          BY <2>2, <4>1, RequestsDiffer
        <5> QED
          BY <5>1, <5>2 DEF OutcomesIn
      <4> QED
        BY <2>1, <2>3, <3>1, <4>1, <4>2, <4>3
    <3> QED
      BY <3>2, <3>3, <3>4 DEF OwnSee
  <2> QED
    BY <2>1, <2>2, <2>3, <2>4, <2>5, OwnQuiet
<1>9. ASSUME NEW i \in DOMAIN calls, NEW what \in Answers \cup {GaveUp},
             NEW s \in {"written", "expired"},
             journal' = Append(journal, Response(i, what)), node = "waiting",
             UNCHANGED aside, did' = did, calls[i].state \in {"open", "written"},
             DOMAIN calls' = DOMAIN calls,
             \A k \in DOMAIN calls :
               /\ calls'[k].question = calls[k].question /\ calls'[k].request = calls[k].request
               /\ k # i => calls'[k].told = calls[k].told /\ calls'[k].state = calls[k].state,
             calls'[i].state = s, s = "written" => calls'[i].told = Len(journal) + 1
      PROVE  Own'
  <2> DEFINE x == Response(i, what)
             n == Len(journal) + 1
  <2>1. OwnAll /\ me' = me /\ mine' = mine /\ code' = code /\ claims' = claims
    BY <1>a, <1>9 DEF me, mine, aside
  <2>2. x \in Entries /\ x.kind = "response" /\ x.of = calls[i].request
    BY RecordsIs DEF Response
  <2> HIDE DEF x
  <2>3. /\ OldEntries /\ n \in DOMAIN journal' /\ journal'[n] = x /\ n \notin DOMAIN journal
        /\ \A o \in DOMAIN journal' : o \in DOMAIN journal \/ o = n
        /\ Stagings(journal') \subseteq Stagings(journal)
        /\ \A r : OutcomesIn(journal', r) =
                    OutcomesIn(journal, r) \cup (IF r = calls[i].request THEN {n} ELSE {})
    <3>1. journal' = Append(journal, x)
      BY <1>9 DEF x
    <3> QED
      BY <2>2, <3>1, Entered
  <2>4. OwnAsks'
    BY <1>9, <2>1, <2>2, <2>3 DEF OwnAll, OwnAsks, OldEntries
  <2>5. ASSUME NEW k \in DOMAIN calls'
        PROVE  OwnCall(k)'
    <3>1. CASE k # i
      <4>1. OutcomesIn(journal', calls[k].request) = OutcomesIn(journal, calls[k].request)
        <5>1. k \in DOMAIN calls
          BY <1>9
        <5>2. calls[k].request # calls[i].request
          BY <2>1, <3>1, <5>1, RequestsDiffer
        <5> QED
          BY <2>3, <5>2
      <4> QED
        BY <1>9, <2>1, <2>3, <3>1, <4>1, OwnCallStays
    <3>2. CASE k = i
      <4>1. OwnCall(i) /\ Len(journal) \in Nat /\ DOMAIN journal = 1 .. Len(journal)
        BY <2>1, StateIs DEF OwnAll
      <4>2. s = "written" => /\ calls'[i].told = n
                             /\ n \in OutcomesIn(journal', calls[i].request)
                             /\ \A o \in OutcomesIn(journal', calls[i].request) : o <= n
        <5>1. \A o \in OutcomesIn(journal, calls[i].request) : o <= n
          BY <4>1 DEF OutcomesIn
        <5>2. n <= n
          BY <4>1
        <5> QED
          BY <1>9, <2>3, <5>1, <5>2
      <4>3. calls'[i].request = calls[i].request /\ calls'[i].question = calls[i].question
            /\ calls'[i].state = s
        BY <1>9
      <4>4. \A j \in DOMAIN calls' : i < j => calls'[i].request < calls'[j].request
        BY <1>9, <4>1 DEF OwnCall
      <4>5. /\ calls'[i].request \in DOMAIN journal'
            /\ journal'[calls'[i].request].kind = "request" /\ journal'[calls'[i].request].by = me'
            /\ journal'[calls'[i].request].question = calls'[i].question
        BY <2>1, <2>3, <4>1, <4>3 DEF OwnCall, OldEntries
      <4> QED
        BY <3>2, <4>2, <4>3, <4>4, <4>5 DEF OwnCall
    <3> QED
      BY <3>1, <3>2
  <2>6. ASSUME NEW k \in DOMAIN did'
        PROVE  OwnSee(k)'
    <3>1. /\ \A j \in DOMAIN did : did'[j] = did[j]
          /\ DOMAIN calls \subseteq DOMAIN calls'
          /\ \A j \in DOMAIN calls : calls[j].state = "over" => calls'[j].told = calls[j].told
          /\ \A j \in DOMAIN calls' : calls'[j].state = "written" =>
               \/ j \in DOMAIN calls /\ calls[j].state = "written" /\ calls'[j].told = calls[j].told
               \/ calls'[j].told = Len(journal) + 1
      BY <1>9
    <3> QED
      BY <1>9, <2>1, <2>3, <3>1, OwnSeeStays
  <2>7. ASSUME NEW o \in Stagings(journal')
        PROVE  OwnStaging(o)'
    <3>1. \A j \in DOMAIN calls' :
               /\ j \in DOMAIN calls /\ calls'[j].request = calls[j].request
               /\ calls'[j].state # "over" => calls[j].state # "over"
      BY <1>9
    <3> QED
      BY <1>9, <2>1, <2>3, <3>1, OwnStagingsStay
  <2>8. WritesSent(claims, mine, did)'
    BY <1>9, <2>1 DEF OwnAll
  <2>9. OwnAll'
    BY <2>4, <2>5, <2>6, <2>7, <2>8 DEF OwnAll
  <2> QED
    BY <2>9, OwnNow
<1>10. ASSUME NEW i \in DOMAIN calls, NEW what \in Answers \cup {GaveUp}, RecordStep(i, what)
       PROVE  Own'
  <2>1. /\ journal' = Append(journal, Response(i, what)) /\ node = "waiting"
        /\ UNCHANGED aside /\ did' = did /\ calls[i].state \in {"open", "written"}
    BY <1>10 DEF RecordStep
  <2>2. /\ DOMAIN calls' = DOMAIN calls
        /\ \A k \in DOMAIN calls :
             /\ calls'[k].question = calls[k].question /\ calls'[k].request = calls[k].request
             /\ k # i => calls'[k].told = calls[k].told /\ calls'[k].state = calls[k].state
        /\ calls'[i].state = "written" /\ calls'[i].told = Len(journal) + 1
    BY <1>10, RecordCalls
  <2> QED
    BY <1>9, <2>1, <2>2
<1>11. ASSUME NEW i \in DOMAIN calls, AgainStep(i)
       PROVE  Own'
  <2>1. /\ node = "waiting" /\ code' = code /\ journal' = journal /\ claims' = claims
        /\ did' = did
    BY <1>11 DEF AgainStep, Expires, aside, Open
  <2>2. OwnAll /\ mine' = mine
    BY <1>a, <2>1 DEF mine, me
  <2>3. WritesSent(claims', mine, did')
    BY <2>1, <2>2 DEF OwnAll
  <2>4. /\ DOMAIN calls' = DOMAIN calls
        /\ \A k \in DOMAIN calls :
              /\ calls'[k].question = calls[k].question /\ calls'[k].request = calls[k].request
              /\ calls'[k].told = calls[k].told /\ calls'[k].state = calls[k].state
    BY <1>11, CallAgain DEF AgainStep
  <2> QED
    BY <2>1, <2>2, <2>3, <2>4, OwnQuiet
<1>12. ASSUME NEW i \in DOMAIN calls, HaltStep(i)
       PROVE  Own'
  <2>1. /\ journal' = Append(journal, Response(i, GaveUp)) /\ node = "waiting"
        /\ UNCHANGED aside /\ did' = did /\ calls[i].state = "open"
    BY <1>12, <1>a DEF HaltStep, Expires, Open
  <2>2. /\ DOMAIN calls' = DOMAIN calls
        /\ \A k \in DOMAIN calls :
             /\ calls'[k].question = calls[k].question /\ calls'[k].request = calls[k].request
             /\ k # i => calls'[k].told = calls[k].told /\ calls'[k].state = calls[k].state
        /\ calls'[i].state = "expired"
    BY <1>12, HaltCalls
  <2> QED
    BY <1>9, <2>1, <2>2
<1> QED
  BY <1>1, <1>2, <1>3, <1>4, <1>5, <1>6, <1>7, <1>8, <1>10, <1>11, <1>12 DEF AStep

(***************************************************************************)
(* Doing again what was done: a history d and the turns T it was told, of  *)
(* an attempt a whose code this was.                                       *)
(***************************************************************************)

Leads(a, d, T) ==
  /\ d \in Histories /\ Sound(d) /\ ~EndsIn(d, "wait")
  /\ Follows(plan, d) /\ d \in DOMAIN plan
  /\ ToldBy(journal, T, d)
  /\ Len(T) \in Nat /\ DOMAIN T = 1 .. Len(T)
  /\ \A i \in DOMAIN T : T[i] \in DOMAIN journal /\ T[i] \in Nat /\ T[i] # 0 /\ journal[T[i]].by = a
  /\ code[a] = mine /\ Recorded(a) = T
  /\ \A k \in DOMAIN calls : Served(k) /\ SameCode(k) => k \in DOMAIN T

\* No turn was told twice.
LEMMA TurnsDiffer ==
  ASSUME NEW a, NEW d, NEW T, Leads(a, d, T), NEW i \in DOMAIN T, NEW j \in DOMAIN T, i # j
  PROVE  T[i] # T[j] /\ (~(T[i] < T[j]) => T[j] < T[i])
<1>1. T[i] \in Nat /\ T[j] \in Nat /\ d \in Histories
  BY DEF Leads
<1>2. PICK k \in DOMAIN d : d[k].does = "see" /\ d[k].call = i
  BY DEF Leads, ToldBy
<1>3. PICK m \in DOMAIN d : d[m].does = "see" /\ d[m].call = j
  BY DEF Leads, ToldBy
<1>4. Len(d) \in Nat /\ DOMAIN d = 1 .. Len(d)
  BY <1>1, HistoryIs
<1>5. CASE k < m
  <2>1. k \in 1 .. m - 1
    BY <1>4, <1>5
  <2>2. T[i] < T[j]
    BY <1>2, <1>3, <2>1 DEF Leads, ToldBy
  <2> QED
    BY <1>1, <2>2
<1>6. CASE m < k
  <2>1. m \in 1 .. k - 1
    BY <1>4, <1>6
  <2>2. T[j] < T[i]
    BY <1>2, <1>3, <2>1 DEF Leads, ToldBy
  <2> QED
    BY <1>1, <2>2
<1>7. k # m
  BY <1>2, <1>3
<1> QED
  BY <1>4, <1>5, <1>6, <1>7

\* While it has a call of theirs that is not over, there is more it will do.
LEMMA MoreToDo ==
  ASSUME TypeOK, CallsAre, NEW a, NEW d, NEW T, Leads(a, d, T), Lock(d, T),
         NEW i \in DOMAIN calls \cap DOMAIN T, Unfinished(i)
  PROVE  Len(did) < Len(d)
<1>1. PICK k \in DOMAIN d : d[k].does = "see" /\ d[k].call = i
  BY DEF Leads, ToldBy
<1>2. /\ Len(d) \in Nat /\ DOMAIN d = 1 .. Len(d) /\ Len(did) \in Nat /\ DOMAIN did = 1 .. Len(did)
  BY HistoryIs, StateIs DEF Leads
<1>3. k \in DOMAIN did => FALSE
  <2> SUFFICES ASSUME k \in DOMAIN did PROVE FALSE
    OBVIOUS
  <2>1. did[k] = d[k]
    BY <1>1 DEF Lock, Agree
  <2>2. calls[i].state = "over"
    BY <1>1, <2>1 DEF CallsAre
  <2> QED
    BY <2>2 DEF Unfinished
<1> QED
  BY <1>2, <1>3

\* What was asked of it and is told, was asked: a call the turns T have and this attempt
\* has not, it has yet to ask for.
LEMMA MoreToAsk ==
  ASSUME TypeOK, CallsAre, NEW a, NEW d, NEW T, Leads(a, d, T), Agree(did, d),
         NEW i \in DOMAIN T, i \notin DOMAIN calls
  PROVE  Len(did) < Len(d)
<1>1. PICK k \in DOMAIN d : d[k].does = "see" /\ d[k].call = i
  BY DEF Leads, ToldBy
<1>2. /\ Len(d) \in Nat /\ DOMAIN d = 1 .. Len(d) /\ Len(did) \in Nat /\ DOMAIN did = 1 .. Len(did)
  BY HistoryIs, StateIs DEF Leads
<1>3. PICK j \in 1 .. k - 1 : d[j].does = "ask" /\ d[j].call = i
  BY <1>1 DEF Leads, Sound, SoundAt
<1>4. j \in DOMAIN d
  BY <1>2, <1>3
<1>5. j \in DOMAIN did => FALSE
  <2> SUFFICES ASSUME j \in DOMAIN did PROVE FALSE
    OBVIOUS
  <2>1. did[j] = d[j]
    BY <1>4 DEF Agree
  <2>2. i \in DOMAIN calls
    BY <1>3, <2>1 DEF CallsAre
  <2> QED
    BY <2>2
<1> QED
  BY <1>2, <1>4, <1>5

\* Where it waits, c is what it will see next: of what it has asked and has not seen, the
\* first to have come back.
LEMMA NextSee ==
  ASSUME TypeOK, CallsAre, NodeIs, NEW a, NEW d, NEW T, Leads(a, d, T), Lock(d, T),
         EndsIn(did, "wait"), Len(did) < Len(d)
  PROVE  \E c \in DOMAIN calls \cap DOMAIN T :
           /\ d[Len(did) + 1] = Sees(c, journal[T[c]].what)
           /\ calls[c].read /\ Unfinished(c)
           /\ \A m \in DOMAIN T : T[m] < T[c] => m \in DOMAIN calls /\ ~Unfinished(m)
           /\ DOMAIN calls \subseteq DOMAIN T
           /\ \A j \in DOMAIN calls : Unfinished(j) /\ j # c => T[c] < T[j]
<1> DEFINE n == Len(did) + 1
           c == d[n].call
<1>1. /\ Len(d) \in Nat /\ DOMAIN d = 1 .. Len(d) /\ Len(did) \in Nat /\ DOMAIN did = 1 .. Len(did)
      /\ did # <<>> <=> Len(did) > 0
  BY HistoryIs, StateIs DEF Leads, TypeOK
<1>2. /\ n \in DOMAIN d /\ n - 1 = Len(did) /\ n > 1 /\ Len(did) \in DOMAIN did
      /\ did[Len(did)].does = "wait"
      /\ \A k \in 1 .. n - 1 : k \in DOMAIN did /\ k \in DOMAIN d
      /\ \A k \in DOMAIN did : k \in 1 .. n - 1 /\ k \in DOMAIN d
  BY <1>1 DEF EndsIn
<1>3. \A k \in DOMAIN did : did[k] = d[k]
  BY <1>2 DEF Lock, Agree
<1>4. d[n].does = "see"
  BY <1>2, <1>3 DEF Leads, Sound, SoundAt
<1>5. /\ c \in DOMAIN T /\ journal[T[c]].what = d[n].of
      /\ \A j \in 1 .. n - 1 : d[j].does = "see" => T[d[j].call] < T[c]
  BY <1>2, <1>4 DEF Leads, ToldBy
<1>6. PICK j \in 1 .. n - 1 :
         /\ d[j].does = "ask" /\ d[j].call = c
         /\ \/ d[j].of \notin Streamed
            \/ \E m \in 1 .. n - 1 : d[m].does = "wait" /\ d[m].call = c
  BY <1>2, <1>4 DEF Leads, Sound, SoundAt
<1>7. c \in DOMAIN calls /\ d[j].of = calls[c].question
  BY <1>2, <1>3, <1>6 DEF CallsAre
<1>8. calls[c].read
  <2>1. CASE d[j].of \notin Streamed
    BY <1>7, <2>1 DEF CallsAre
  <2>2. ASSUME NEW m \in 1 .. n - 1, d[m].does = "wait", d[m].call = c
        PROVE  calls[c].read
    <3>1. c # 0
      BY <1>7, StateIs
    <3> QED
      BY <1>2, <1>3, <2>2, <3>1 DEF CallsAre
  <2> QED
    BY <1>6, <2>1, <2>2
<1>9. Unfinished(c)
  <2> SUFFICES ASSUME calls[c].state = "over" PROVE FALSE
    BY DEF Unfinished
  <2>1. PICK k \in DOMAIN did : did[k].does = "see" /\ did[k].call = c
    BY <1>7 DEF CallsAre
  <2>2. T[c] < T[c]
    BY <1>2, <1>3, <1>5, <2>1
  <2>3. T[c] \in Nat
    BY <1>5 DEF Leads
  <2> QED
    BY <2>2, <2>3
<1>10. ASSUME NEW m \in DOMAIN T, T[m] < T[c]
       PROVE  m \in DOMAIN calls /\ ~Unfinished(m)
  <2>1. PICK k \in DOMAIN d : d[k].does = "see" /\ d[k].call = m
    BY DEF Leads, ToldBy
  <2>2. T[m] \in Nat /\ T[c] \in Nat
    BY <1>5 DEF Leads
  <2>3. k # n
    BY <1>10, <2>1, <2>2
  <2>4. ~(n < k)
    <3> SUFFICES ASSUME n < k PROVE FALSE
      OBVIOUS
    <3>1. n \in 1 .. k - 1
      BY <1>1, <1>2
    <3>2. T[c] < T[m]
      BY <1>4, <2>1, <3>1 DEF Leads, ToldBy
    <3> QED
      BY <1>10, <2>2, <3>2
  <2>5. k \in DOMAIN did
    BY <1>1, <1>2, <2>3, <2>4
  <2>6. did[k].does = "see" /\ did[k].call = m
    BY <1>3, <2>1, <2>5
  <2> QED
    BY <2>5, <2>6 DEF CallsAre, Unfinished
<1>11. DOMAIN calls \subseteq DOMAIN T
  <2> SUFFICES ASSUME NEW i \in DOMAIN calls PROVE i \in DOMAIN T
    OBVIOUS
  <2>1. PICK k \in DOMAIN did : did[k].does = "ask" /\ did[k].call = i
    BY DEF CallsAre
  <2>2. k \in DOMAIN d /\ d[k].does = "ask" /\ d[k].call = i
    BY <1>2, <1>3, <2>1
  <2> QED
    BY <2>2 DEF Leads, ToldBy
<1>12. ASSUME NEW i \in DOMAIN calls, Unfinished(i), i # c
       PROVE  T[c] < T[i]
  <2>1. i \in DOMAIN T
    BY <1>11
  <2>2. ~(T[i] < T[c])
    BY <1>10, <1>12, <2>1
  <2> QED
    BY <1>5, <1>12, <2>1, <2>2, TurnsDiffer
<1>13. d[n] = Sees(c, journal[T[c]].what)
  <2>1. d[n] = Step("see", c, d[n].of)
    BY <1>2, <1>4, HistoryIs DEF Leads
  <2> QED
    BY <1>5, <2>1 DEF Sees
<1> HIDE DEF c
<1> QED
  BY <1>5, <1>7, <1>8, <1>9, <1>10, <1>11, <1>12, <1>13

\* So it is never stuck: c can be handed over.
LEMMA NotStuck ==
  ASSUME TypeOK, CallsAre, NodeIs, NEW a, NEW d, NEW T, Leads(a, d, T), Lock(d, T),
         node = "waiting", NEW i \in DOMAIN calls \cap DOMAIN T, Unfinished(i)
  PROVE  ~Stuck
<1>1. Len(did) < Len(d) /\ EndsIn(did, "wait")
  BY MoreToDo DEF NodeIs
<1>2. PICK c \in DOMAIN calls \cap DOMAIN T :
           /\ calls[c].read /\ Unfinished(c)
           /\ \A m \in DOMAIN T : T[m] < T[c] => m \in DOMAIN calls /\ ~Unfinished(m)
  BY <1>1, NextSee
<1>3. /\ calls[c].turn = T[c] /\ calls[c].state \in {"open", "written"}
      /\ T[c] # 0 /\ TurnOf(c).by = a
  <2>1. calls[c].state \in {"open", "written", "over", "expired"}
    BY CallIs
  <2> QED
    BY <1>2, <2>1 DEF Lock, Unfinished, Leads, TurnOf
<1>4. ASSUME calls[c].state = "open"
      PROVE  Open(c) /\ Due(c)
  <2>1. Open(c)
    BY <1>2, <1>4 DEF Open
  <2>2. ~Blocked(c)
    <3> SUFFICES ASSUME NEW k \in DOMAIN calls, Served(k), calls[k].state = "open",
                        TurnOf(k).by = a, calls[k].turn < T[c]
                 PROVE  FALSE
      BY <1>3 DEF Blocked, Order
    <3>1. k \in DOMAIN T
      BY DEF SameCode, Leads
    <3>2. calls[k].turn = T[k]
      BY <3>1 DEF Lock
    <3>3. ~Unfinished(k)
      BY <1>2, <3>1, <3>2
    <3> QED
      BY <3>3 DEF Unfinished
  <2>3. InTime(c)
    <3>1. Recorded(TurnOf(c).by) = T
      BY <1>3 DEF Leads
    <3>2. ASSUME NEW n \in DOMAIN T, T[n] < calls[c].turn
          PROVE  \E k \in DOMAIN calls : calls[k].turn = T[n]
      <4>1. n \in DOMAIN calls
        BY <1>2, <1>3, <3>2
      <4> QED
        BY <4>1 DEF Lock
    <3> QED
      BY <3>1, <3>2 DEF InTime
  <2> QED
    BY <2>1, <2>2, <2>3 DEF Due
<1> QED
  BY <1>3, <1>4 DEF Stuck

(***************************************************************************)
(* The lock is kept by every step.                                         *)
(***************************************************************************)

LockCall(i, T) ==
  /\ calls[i].turn = T[i] /\ calls[i].state # "expired"
  /\ calls[i].state = "written" => journal[calls[i].told].what = journal[T[i]].what
  /\ calls[i].state # "open" =>
       /\ \A m \in DOMAIN T : T[m] < T[i] => m \in DOMAIN calls
       /\ \A j \in DOMAIN calls \cap DOMAIN T :
            /\ calls[j].state = "open" => T[i] < T[j]
            /\ Live /\ calls[j].state # "open" /\ T[i] < T[j] => calls[i].told < calls[j].told

LEMMA LockParts ==
  ASSUME NEW d, NEW T
  PROVE  /\ Lock(d, T) <=> Agree(did, d) /\ \A i \in DOMAIN calls \cap DOMAIN T : LockCall(i, T)
         /\ Lock(d, T)' <=> (Agree(did, d) /\ \A i \in DOMAIN calls \cap DOMAIN T : LockCall(i, T))'
<1>1. Lock(d, T) <=> Agree(did, d) /\ \A i \in DOMAIN calls \cap DOMAIN T : LockCall(i, T)
  BY DEF Lock, LockCall
<1>2. Lock(d, T)' <=> (Agree(did, d) /\ \A i \in DOMAIN calls \cap DOMAIN T : LockCall(i, T))'
  BY DEF Lock, LockCall
<1> QED
  BY <1>1, <1>2

\* What an attempt was told, the journal holds.
LEMMA ToldIs ==
  ASSUME TypeOK, CallsAre, NodeIs, Own, NEW i \in DOMAIN calls
  PROVE  /\ calls[i].state = "written" => calls[i].told \in DOMAIN journal
         /\ Live /\ calls[i].state = "over" => calls[i].told \in DOMAIN journal
<1>1. node # "down"
  BY EmptyIs DEF NodeIs
<1>2. calls[i].state = "written" => Live
  BY DEF CallsAre
<1>3. Live /\ calls[i].state \in {"written", "over"} => calls[i].told \in DOMAIN journal
  BY <1>1 DEF Own, Outcomes
<1> QED
  BY <1>2, <1>3

\* A turn that is due comes back where it came back.
LEMMA DueIs ==
  ASSUME TypeOK, NEW a, NEW d, NEW T, Leads(a, d, T), Lock(d, T),
         NEW i \in DOMAIN calls \cap DOMAIN T, Due(i)
  PROVE  /\ \A m \in DOMAIN T : T[m] < T[i] => m \in DOMAIN calls
         /\ \A j \in DOMAIN calls \cap DOMAIN T :
              j # i /\ calls[j].state = "open" => T[i] < T[j]
<1>1. calls[i].turn = T[i] /\ TurnOf(i).by = a /\ code[a] = mine /\ Recorded(a) = T
  BY DEF Lock, Leads, TurnOf
<1>2. ASSUME NEW m \in DOMAIN T, T[m] < T[i]
      PROVE  m \in DOMAIN calls
  <2>1. PICK k \in DOMAIN calls : calls[k].turn = T[m]
    BY <1>1, <1>2 DEF Due, InTime, SameCode
  <2>2. Served(k) /\ SameCode(k)
    BY <2>1 DEF Leads, Served, SameCode, TurnOf
  <2>3. k \in DOMAIN T /\ calls[k].turn = T[k]
    BY <2>2 DEF Leads, Lock
  <2>4. k = m
    BY <2>1, <2>3, TurnsDiffer
  <2> QED
    BY <2>4
<1>3. ASSUME NEW j \in DOMAIN calls \cap DOMAIN T, j # i, calls[j].state = "open"
      PROVE  T[i] < T[j]
  <2>1. calls[j].turn = T[j] /\ Served(j) /\ TurnOf(j).by = a
    BY DEF Lock, Leads, TurnOf, Served
  <2>2. ~(T[j] < T[i])
    BY <1>1, <1>3, <2>1 DEF Due, Blocked, Order
  <2> QED
    BY <1>3, <2>2, TurnsDiffer
<1> QED
  BY <1>2, <1>3

LEMMA LockStays ==
  ASSUME TypeOK, CallsAre, NodeIs, Own, OldEntries, NEW a, NEW d, NEW T, Leads(a, d, T), Lock(d, T),
         DOMAIN calls' = DOMAIN calls, replayed' = replayed,
         \A k \in DOMAIN calls \cap DOMAIN T :
           /\ calls'[k].turn = calls[k].turn /\ calls'[k].state = calls[k].state
           /\ calls'[k].told = calls[k].told,
         Agree(did', d)
  PROVE  Lock(d, T)'
<1>1. ASSUME NEW k \in DOMAIN calls' \cap DOMAIN T
      PROVE  LockCall(k, T)'
  <2>1. k \in DOMAIN calls /\ LockCall(k, T)
    BY <1>1, LockParts
  <2>2. calls[k].state = "written" =>
          journal'[calls[k].told] = journal[calls[k].told] /\ journal'[T[k]] = journal[T[k]]
    BY <2>1, ToldIs DEF OldEntries, Leads
  <2> QED
    BY <2>1, <2>2 DEF LockCall, Live
<1> QED
  BY <1>1, LockParts

\* What code that decides as before decides, a history it agrees with has next.
LEMMA LockDecides ==
  ASSUME TypeOK, NodeIs, NEW a, NEW d, NEW T, Leads(a, d, T), Agree(did, d),
         NEW m \in Steps, Decides(m)
  PROVE  /\ Agree(Append(did, m), d)
         /\ Len(did) < Len(d) => d[Len(did) + 1] = m
         /\ Len(did) = Len(d) => did = d /\ plan[d] = m
<1>1. did \in Histories /\ d \in Histories
  BY DEF TypeOK, Leads
<1>2. node = "deciding" /\ ~EndsIn(did, "wait")
  BY DEF NodeIs, Decides
<1>3. Len(did) < Len(d) => did \in DOMAIN plan /\ plan[did] = d[Len(did) + 1]
  BY <1>1, <1>2, NextStep DEF Leads
<1>4. Len(did) < Len(d) => d[Len(did) + 1] = m
  BY <1>3 DEF Decides
<1>5. Len(did) = Len(d) => did = d
  BY <1>1, SameHistory
<1>6. Len(did) = Len(d) => plan[d] = m
  BY <1>5 DEF Decides, Leads
<1> QED
  BY <1>1, <1>4, <1>5, <1>6, AgreeStep

\* Told in its turn: what was asked and is written down, or seen, in the order of T.
LEMMA LockAsk ==
  ASSUME TypeOK, CallsAre, NodeIs, Own, OldEntries, NEW a, NEW d, NEW T, Leads(a, d, T), Lock(d, T),
         NEW q \in Questions, NEW r \in Nat, NEW t \in Nat, AskStep(q, r, t),
         Len(calls) + 1 \in DOMAIN T => t = T[Len(calls) + 1]
  PROVE  Lock(d, T)'
<1> DEFINE n == Len(calls) + 1
<1>1. Asks(q) \in Steps /\ Decides(Asks(q)) /\ did' = Append(did, Asks(q)) /\ Agree(did, d)
  BY StepTypes DEF AskStep, Lock
<1>2. Agree(did', d)
  BY <1>1, LockDecides
<1>3. /\ DOMAIN calls' = DOMAIN calls \cup {n} /\ n \notin DOMAIN calls
      /\ \A k \in DOMAIN calls : calls'[k] = calls[k]
      /\ calls'[n].turn = t /\ calls'[n].state = "open"
  BY CallAsked DEF AskStep
<1>4. replayed' = replayed
  BY DEF AskStep
<1>5. n \in DOMAIN T => t = T[n]
  OBVIOUS
<1> HIDE DEF n
<1>6. ASSUME NEW k \in DOMAIN calls \cap DOMAIN T
      PROVE  LockCall(k, T)'
  <2>1. LockCall(k, T)
    BY LockParts
  <2>2. calls[k].state = "written" =>
          journal'[calls[k].told] = journal[calls[k].told] /\ journal'[T[k]] = journal[T[k]]
    BY ToldIs DEF OldEntries, Leads
  <2>3. /\ calls'[k].turn = T[k] /\ calls'[k].state # "expired"
        /\ calls'[k].state = "written" => journal'[calls'[k].told].what = journal'[T[k]].what
    BY <1>3, <2>1, <2>2 DEF LockCall
  <2>4. ASSUME calls'[k].state # "open"
        PROVE  /\ \A m \in DOMAIN T : T[m] < T[k] => m \in DOMAIN calls'
               /\ \A j \in DOMAIN calls' \cap DOMAIN T :
                    /\ calls'[j].state = "open" => T[k] < T[j]
                    /\ Live /\ calls'[j].state # "open" /\ T[k] < T[j] =>
                         calls'[k].told < calls'[j].told
    <3>1. /\ calls[k].state # "open" /\ calls'[k].told = calls[k].told
          /\ \A m \in DOMAIN T : T[m] < T[k] => m \in DOMAIN calls
      BY <1>3, <2>1, <2>4 DEF LockCall
    <3>2. ASSUME NEW j \in DOMAIN calls \cap DOMAIN T
          PROVE  /\ calls'[j].state = "open" => T[k] < T[j]
                 /\ Live /\ calls'[j].state # "open" /\ T[k] < T[j] =>
                      calls'[k].told < calls'[j].told
      BY <1>3, <2>1, <3>1 DEF LockCall
    <3>3. ASSUME n \in DOMAIN T
          PROVE  calls'[n].state = "open" /\ T[k] < T[n]
      <4>1. ~(T[n] < T[k]) /\ n # k
        BY <1>3, <3>1, <3>3
      <4>2. k \in DOMAIN T
        OBVIOUS
      <4> QED
        BY <1>3, <3>3, <4>1, <4>2, TurnsDiffer
    <3> QED
      BY <1>3, <3>1, <3>2, <3>3
  <2> QED
    BY <1>4, <2>3, <2>4 DEF LockCall, Live
<1>7. ASSUME NEW k \in DOMAIN T, k = n
      PROVE  LockCall(k, T)'
  BY <1>3, <1>5, <1>7 DEF LockCall
<1>8. \A k \in DOMAIN calls' \cap DOMAIN T : LockCall(k, T)'
  BY <1>3, <1>6, <1>7
<1> QED
  BY <1>2, <1>8, LockParts

LEMMA LockSee ==
  ASSUME TypeOK, JournalIs, CallsAre, NodeIs, Own, KeptIs, Replaying, OldEntries,
         NEW a, NEW d, NEW T, Leads(a, d, T), Lock(d, T),
         NEW i \in DOMAIN calls, NEW what \in Answers \cup {GaveUp}, SeeStep(i, what)
  PROVE  Lock(d, T)'
<1>a. Live \/ replayed
  BY DEF Live
<1>1. /\ EndsIn(did, "wait") /\ node = "waiting" /\ did' = Append(did, Sees(i, what))
      /\ replayed' = replayed /\ Sees(i, what) \in Steps /\ did \in Histories /\ d \in Histories
      /\ Agree(did, d)
  <2>1. i \in Nat
    BY CallIs
  <2> QED
    BY <2>1, StepTypes DEF SeeStep, NodeIs, run, Leads, Lock, TypeOK
<1>2. i \in DOMAIN T => calls[i].turn = T[i] /\ TurnOf(i) = journal[T[i]]
  BY DEF Lock, TurnOf
<1>3. Len(did) < Len(d) => d[Len(did) + 1] = Sees(i, what)
  <2> SUFFICES ASSUME Len(did) < Len(d)
               PROVE  d[Len(did) + 1] = Sees(i, what)
    OBVIOUS
  <2>1. PICK c \in DOMAIN calls \cap DOMAIN T :
           /\ d[Len(did) + 1] = Sees(c, journal[T[c]].what)
           /\ calls[c].read /\ Unfinished(c)
           /\ DOMAIN calls \subseteq DOMAIN T
           /\ \A j \in DOMAIN calls : Unfinished(j) /\ j # c => T[c] < T[j]
    BY <1>1, NextSee
  <2>2. LockCall(i, T) /\ LockCall(c, T) /\ i \in DOMAIN T
    BY <2>1, LockParts
  <2>3. calls[c].state \in {"open", "written"}
    BY <2>1, <2>2, CallIs DEF Unfinished, LockCall
  <2>4. T[i] \in Nat /\ T[c] \in Nat
    BY <2>1, <2>2 DEF Leads
  <2>5. CASE Live
    <3>1. /\ calls[i].state = "written" /\ what = journal[calls[i].told].what
          /\ \A k \in DOMAIN calls : calls[k].state = "written" => calls[i].told <= calls[k].told
      BY <2>5 DEF SeeStep
    <3>2. what = journal[T[i]].what
      BY <2>2, <3>1 DEF LockCall
    <3>3. i = c
      <4> SUFFICES ASSUME i # c PROVE FALSE
        OBVIOUS
      <4>1. T[c] < T[i]
        BY <2>1, <3>1 DEF Unfinished
      <4>2. calls[c].state # "open"
        <5> SUFFICES ASSUME calls[c].state = "open" PROVE FALSE
          OBVIOUS
        <5>1. T[i] < T[c]
          BY <2>1, <2>2, <3>1 DEF LockCall
        <5> QED
          BY <2>4, <4>1, <5>1
      <4>3. calls[c].told < calls[i].told
        BY <2>2, <2>5, <3>1, <4>1, <4>2 DEF LockCall
      <4>4. calls[i].told <= calls[c].told
        BY <2>3, <3>1, <4>2
      <4>5. calls[c].told \in Nat /\ calls[i].told \in Nat
        BY <2>1, CallIs
      <4> QED
        BY <4>3, <4>4, <4>5
    <3> QED
      BY <2>1, <3>2, <3>3
  <2>6. CASE replayed
    <3>1. calls[i].state = "open" /\ what = journal[T[i]].what /\ Due(i)
      BY <1>2, <2>2, <2>6 DEF SeeStep
    <3>2. i = c
      <4> SUFFICES ASSUME i # c PROVE FALSE
        OBVIOUS
      <4>1. T[c] < T[i]
        BY <2>1, <3>1 DEF Unfinished
      <4>2. calls[c].state = "open"
        BY <2>3, <2>6 DEF CallsAre, Live
      <4>3. i \in DOMAIN calls \cap DOMAIN T /\ c # i
        BY <2>2
      <4>4. T[i] < T[c]
        BY <2>1, <3>1, <4>2, <4>3, DueIs
      <4> QED
        BY <2>4, <4>1, <4>4
    <3> QED
      BY <2>1, <3>1, <3>2
  <2> QED
    BY <1>a, <2>5, <2>6
<1>4. Agree(did', d)
  BY <1>1, <1>3, AgreeStep
<1>5. /\ DOMAIN calls' = DOMAIN calls
      /\ \A k \in DOMAIN calls :
              /\ calls'[k].turn = calls[k].turn /\ calls'[k].told = calls[k].told
              /\ calls'[k].state = IF k = i THEN "over" ELSE calls[k].state
  BY SeeCalls
<1>6. ASSUME NEW k \in DOMAIN calls' \cap DOMAIN T
      PROVE  LockCall(k, T)'
  <2>1. k \in DOMAIN calls /\ LockCall(k, T) /\ k \in DOMAIN T
    BY <1>5, <1>6, LockParts
  <2>2. calls[k].state = "written" =>
          journal'[calls[k].told] = journal[calls[k].told] /\ journal'[T[k]] = journal[T[k]]
    BY <2>1, ToldIs DEF OldEntries, Leads
  <2>3. /\ calls'[k].turn = T[k] /\ calls'[k].state # "expired"
        /\ calls'[k].state = "written" => journal'[calls'[k].told].what = journal'[T[k]].what
    BY <1>5, <2>1, <2>2 DEF LockCall
  <2>4. ASSUME calls'[k].state # "open"
        PROVE  /\ \A m \in DOMAIN T : T[m] < T[k] => m \in DOMAIN calls'
               /\ \A j \in DOMAIN calls' \cap DOMAIN T :
                    /\ calls'[j].state = "open" => T[k] < T[j]
                    /\ Live /\ calls'[j].state # "open" /\ T[k] < T[j] =>
                         calls'[k].told < calls'[j].told
    <3>1. CASE calls[k].state # "open"
      <4>1. /\ \A m \in DOMAIN T : T[m] < T[k] => m \in DOMAIN calls
            /\ \A j \in DOMAIN calls \cap DOMAIN T :
                 /\ calls[j].state = "open" => T[k] < T[j]
                 /\ Live /\ calls[j].state # "open" /\ T[k] < T[j] =>
                      calls[k].told < calls[j].told
        BY <2>1, <3>1 DEF LockCall
      <4>2. \A j \in DOMAIN calls : calls'[j].state = "open" => calls[j].state = "open"
        BY <1>5
      <4>3. Live => calls[i].state # "open"
        BY DEF SeeStep
      <4>4. \A j \in DOMAIN calls : Live /\ calls'[j].state # "open" => calls[j].state # "open"
        BY <1>5, <4>3
      <4> QED
        BY <1>5, <2>1, <4>1, <4>2, <4>4
    <3>2. CASE calls[k].state = "open"
      <4>1. k = i
        BY <1>5, <2>1, <2>4, <3>2
      <4>2. replayed
        BY <1>a, <3>2, <4>1 DEF SeeStep
      <4>3. Due(i)
        BY <4>2 DEF SeeStep
      <4>4. /\ \A m \in DOMAIN T : T[m] < T[i] => m \in DOMAIN calls
            /\ \A j \in DOMAIN calls \cap DOMAIN T :
                 j # i /\ calls[j].state = "open" => T[i] < T[j]
        BY <2>1, <4>1, <4>3, DueIs
      <4> QED
        BY <1>5, <4>1, <4>2, <4>4 DEF Live
    <3> QED
      BY <3>1, <3>2
  <2> QED
    BY <1>1, <2>3, <2>4 DEF LockCall, Live
<1> QED
  BY <1>4, <1>6, LockParts

LEMMA LockRecord ==
  ASSUME TypeOK, JournalIs, CallsAre, NodeIs, Own, Guided, Replaying, OldEntries,
         NEW a, NEW d, NEW T, Leads(a, d, T), Lock(d, T),
         NEW i \in DOMAIN calls, NEW what \in Answers \cup {GaveUp}, RecordStep(i, what)
  PROVE  Lock(d, T)'
<1> DEFINE n == Len(journal) + 1
<1>1. /\ Live /\ journal' = Append(journal, Response(i, what)) /\ did' = did
      /\ replayed' = replayed /\ Agree(did, d)
  BY DEF RecordStep, aside, Lock
<1>2. /\ DOMAIN calls' = DOMAIN calls
      /\ \A k \in DOMAIN calls :
              /\ calls'[k].turn = calls[k].turn
              /\ calls'[k].told = IF k = i THEN n ELSE calls[k].told
              /\ calls'[k].state = IF k = i THEN "written" ELSE calls[k].state
  BY RecordCalls
<1>3. CASE i \notin DOMAIN T
  <2>1. Agree(did', d)
    BY <1>1
  <2> QED
    BY <1>1, <1>2, <1>3, <2>1, LockStays
<1>4. CASE i \in DOMAIN T
  <2>1. LockCall(i, T) /\ calls[i].turn = T[i] /\ TurnOf(i) = journal[T[i]] /\ T[i] \in DOMAIN journal
    BY <1>4, LockParts DEF LockCall, TurnOf, Leads
  <2>2. what = journal[T[i]].what /\ Due(i) /\ calls[i].state = "open"
    <3>1. Served(i) /\ SameCode(i)
      BY <1>4, <2>1 DEF Leads, Served, SameCode
    <3> QED
      BY <2>1, <3>1 DEF RecordStep
  <2>3. /\ \A m \in DOMAIN T : T[m] < T[i] => m \in DOMAIN calls
        /\ \A j \in DOMAIN calls \cap DOMAIN T : j # i /\ calls[j].state = "open" => T[i] < T[j]
    BY <1>4, <2>2, DueIs
  <2>4. journal'[n].what = journal'[T[i]].what
    <3>1. Response(i, what) \in Entries
      BY RecordsIs
    <3>2. journal'[n] = Response(i, what)
      BY <1>1, <3>1, Entered
    <3>3. journal'[n].what = what
      BY <3>2 DEF Response
    <3>4. journal'[T[i]] = journal[T[i]]
      BY <2>1 DEF OldEntries
    <3> QED
      BY <2>2, <3>3, <3>4
  <2>5. \A m \in DOMAIN T : T[m] \in Nat
    BY DEF Leads
  <2>6. Len(journal) \in Nat /\ DOMAIN journal = 1 .. Len(journal)
    BY StateIs
  <2>7. ASSUME NEW k \in DOMAIN calls' \cap DOMAIN T, k = i
        PROVE  LockCall(k, T)'
    <3>1. ASSUME NEW j \in DOMAIN calls \cap DOMAIN T
          PROVE  /\ calls'[j].state = "open" => T[i] < T[j]
                 /\ calls'[j].state # "open" /\ T[i] < T[j] => calls'[i].told < calls'[j].told
      <4>1. calls'[j].state = "open" => T[i] < T[j]
        BY <1>2, <2>3
      <4>2. ASSUME calls'[j].state # "open", T[i] < T[j]
            PROVE  FALSE
        <5>1. j # i /\ calls[j].state # "open" /\ LockCall(j, T)
          BY <1>2, <1>4, <2>5, <4>2, LockParts
        <5>2. T[j] < T[i]
          BY <1>4, <2>2, <5>1 DEF LockCall
        <5> QED
          BY <1>4, <2>5, <4>2, <5>2
      <4> QED
        BY <4>1, <4>2
    <3> QED
      BY <1>2, <2>1, <2>3, <2>4, <2>7, <3>1 DEF LockCall
  <2>8. ASSUME NEW k \in DOMAIN calls' \cap DOMAIN T, k # i
        PROVE  LockCall(k, T)'
    <3>1. k \in DOMAIN calls /\ LockCall(k, T)
      BY <1>2, <2>8, LockParts
    <3>2. calls[k].state = "written" =>
            journal'[calls[k].told] = journal[calls[k].told] /\ journal'[T[k]] = journal[T[k]]
      BY <2>8, <3>1, ToldIs DEF OldEntries, Leads
    <3>3. /\ calls'[k].turn = T[k] /\ calls'[k].state # "expired"
          /\ calls'[k].state = "written" => journal'[calls'[k].told].what = journal'[T[k]].what
      BY <1>2, <2>8, <3>1, <3>2 DEF LockCall
    <3>4. ASSUME calls'[k].state # "open"
          PROVE  /\ \A m \in DOMAIN T : T[m] < T[k] => m \in DOMAIN calls'
                 /\ \A j \in DOMAIN calls' \cap DOMAIN T :
                      /\ calls'[j].state = "open" => T[k] < T[j]
                      /\ calls'[j].state # "open" /\ T[k] < T[j] => calls'[k].told < calls'[j].told
      <4>1. /\ calls[k].state # "open" /\ calls'[k].told = calls[k].told
            /\ calls[k].state \in {"written", "over"}
            /\ \A m \in DOMAIN T : T[m] < T[k] => m \in DOMAIN calls
            /\ \A j \in DOMAIN calls \cap DOMAIN T :
                 /\ calls[j].state = "open" => T[k] < T[j]
                 /\ calls[j].state # "open" /\ T[k] < T[j] => calls[k].told < calls[j].told
        BY <1>1, <1>2, <2>8, <3>1, <3>4, CallIs DEF LockCall
      <4>2. calls[k].told < n
        BY <1>1, <2>6, <3>1, <4>1, ToldIs
      <4> QED
        BY <1>2, <3>1, <4>1, <4>2
    <3> QED
      BY <1>1, <3>3, <3>4 DEF LockCall, Live
  <2>9. Agree(did', d)
    BY <1>1 DEF Lock
  <2> QED
    BY <2>7, <2>8, <2>9, LockParts
<1> QED
  BY <1>3, <1>4

\* A turn of theirs is never what a wait is given up for.
LEMMA NeverExpires ==
  ASSUME TypeOK, CallsAre, NodeIs, NEW a, NEW d, NEW T, Leads(a, d, T), Lock(d, T),
         NEW i \in DOMAIN calls, Expires(i)
  PROVE  i \notin DOMAIN T
<1> SUFFICES ASSUME i \in DOMAIN T PROVE FALSE
  OBVIOUS
<1>1. calls[i].turn = T[i] /\ Served(i) /\ SameCode(i)
  BY DEF Lock, Leads, Served, SameCode, TurnOf
<1>2. node = "waiting" /\ Unfinished(i) /\ Stuck
  BY <1>1 DEF Expires, Open, Unfinished
<1> QED
  BY <1>2, NotStuck

LEMMA LockNext ==
  ASSUME TypeOK, JournalIs, CallsAre, NodeIs, Own, Guided, KeptIs, Replaying, OldEntries, AStep,
         NEW a, NEW d, NEW T, Leads(a, d, T), Lock(d, T),
         \A q \in Questions, r, t \in Nat :
           AskStep(q, r, t) /\ Len(calls) + 1 \in DOMAIN T => t = T[Len(calls) + 1]
  PROVE  Lock(d, T)'
<1>a. Agree(did, d)
  BY DEF Lock
<1>1. ASSUME NEW q \in Questions, NEW r \in Nat, NEW t \in Nat, AskStep(q, r, t)
      PROVE  Lock(d, T)'
  <2>1. Len(calls) + 1 \in DOMAIN T => t = T[Len(calls) + 1]
    BY <1>1
  <2> QED
    BY <1>1, <2>1, LockAsk
<1>2. ASSUME DOMAIN calls' = DOMAIN calls, replayed' = replayed, did' = did,
             \A k \in DOMAIN calls \cap DOMAIN T :
               /\ calls'[k].turn = calls[k].turn /\ calls'[k].state = calls[k].state
               /\ calls'[k].told = calls[k].told
      PROVE  Lock(d, T)'
  <2>1. Agree(did', d)
    BY <1>a, <1>2
  <2> QED
    BY <1>2, <2>1, LockStays
<1>3. ASSUME NEW q \in Questions, DivergeStep(q)
      PROVE  Lock(d, T)'
  BY <1>2, <1>3 DEF DivergeStep, run
<1>4. ASSUME NEW i \in DOMAIN calls \cup {0}, Waits(i)
      PROVE  Lock(d, T)'
  <2>1. i \in Nat
    BY StateIs
  <2>2. WaitsOn(i) \in Steps /\ Decides(WaitsOn(i)) /\ did' = Append(did, WaitsOn(i))
        /\ replayed' = replayed
    BY <1>4, <2>1, StepTypes DEF Waits, Does, run
  <2>3. Agree(did', d)
    BY <1>a, <2>2, LockDecides
  <2>4. /\ DOMAIN calls' = DOMAIN calls
        /\ \A k \in DOMAIN calls :
              /\ calls'[k].turn = calls[k].turn /\ calls'[k].state = calls[k].state
              /\ calls'[k].told = calls[k].told
    BY <1>4, WaitCalls
  <2> QED
    BY <2>2, <2>3, <2>4, LockStays
<1>5. CASE ParkStep
  BY <1>2, <1>5 DEF ParkStep, Stage, Live
<1>6. CASE WriteStep
  <2>1. /\ did' = Append(did, Writes) /\ calls' = calls /\ replayed' = replayed /\ Writes \in Steps
        /\ did \in Histories /\ d \in Histories
    BY <1>6, StepTypes DEF WriteStep, TypeOK, Leads
  <2>2. Len(did) < Len(d) => d[Len(did) + 1] = Writes
    <3>1. CASE replayed
      BY <1>a, <1>6, <2>1, <3>1, LockDecides DEF WriteStep
    <3>2. CASE Live
      <4>1. plan[did] = Writes /\ ~EndsIn(did, "wait")
        BY <1>6, <3>2 DEF WriteStep, NodeIs
      <4>2. Len(did) < Len(d) => plan[did] = d[Len(did) + 1]
        BY <1>a, <2>1, <4>1, NextStep DEF Leads
      <4> QED
        BY <4>1, <4>2
    <3> QED
      BY <3>1, <3>2 DEF Live
  <2>3. Agree(did', d)
    BY <1>a, <2>1, <2>2, AgreeStep
  <2> QED
    BY <2>1, <2>3, LockStays
<1>7. CASE Return
  BY <1>2, <1>7 DEF Return
<1>8. CASE FreshStep
  <2>1. calls' = <<>> /\ did' = <<>>
    BY <1>8 DEF FreshStep
  <2>2. DOMAIN calls' = {} /\ DOMAIN did' = {}
    BY <2>1, EmptyIs
  <2>3. Agree(did', d)
    BY <2>2 DEF Agree
  <2> QED
    BY <2>2, <2>3, LockParts
<1>9. ASSUME NEW i \in DOMAIN calls, NEW what \in Answers \cup {GaveUp}, SeeStep(i, what)
      PROVE  Lock(d, T)'
  BY <1>9, LockSee
<1>10. ASSUME NEW i \in DOMAIN calls, NEW what \in Answers \cup {GaveUp}, RecordStep(i, what)
       PROVE  Lock(d, T)'
  BY <1>10, LockRecord
<1>11. ASSUME NEW i \in DOMAIN calls, AgainStep(i)
       PROVE  Lock(d, T)'
  <2>1. i \notin DOMAIN T
    BY <1>11, NeverExpires DEF AgainStep
  <2>2. replayed' = replayed /\ did' = did
    BY <1>11 DEF AgainStep, Expires, aside
  <2>3. /\ DOMAIN calls' = DOMAIN calls
        /\ \A k \in DOMAIN calls :
              /\ k # i => calls'[k].turn = calls[k].turn
              /\ calls'[k].state = calls[k].state /\ calls'[k].told = calls[k].told
    BY <1>11, CallAgain DEF AgainStep
  <2> QED
    BY <1>2, <2>1, <2>2, <2>3
<1>12. ASSUME NEW i \in DOMAIN calls, HaltStep(i)
       PROVE  Lock(d, T)'
  <2>1. i \notin DOMAIN T
    BY <1>12, NeverExpires DEF HaltStep
  <2>2. replayed' = replayed /\ did' = did
    BY <1>12 DEF HaltStep, Expires, aside
  <2>3. /\ DOMAIN calls' = DOMAIN calls
        /\ \A k \in DOMAIN calls :
              /\ calls'[k].turn = calls[k].turn /\ calls'[k].told = calls[k].told
              /\ k # i => calls'[k].state = calls[k].state
    BY <1>12, HaltCalls
  <2> QED
    BY <1>2, <2>1, <2>2, <2>3
<1> QED
  BY <1>1, <1>3, <1>4, <1>5, <1>6, <1>7, <1>8, <1>9, <1>10, <1>11, <1>12 DEF AStep

(***************************************************************************)
(* Whom an attempt follows.                                                *)
(***************************************************************************)

LEMMA PinnedGuides ==
  ASSUME TypeOK, NEW b \in 1 .. me - 1, Len(Pinned(b)) # 0, code[b] = mine
  PROVE  /\ LastSend(b) \in DOMAIN journal /\ Guides(LastSend(b)) /\ journal[LastSend(b)].by = b
<1>1. LastSend(b) # 0
  BY NothingPinned
<1>2. Sends(journal, claims, LastSend(b)) /\ journal[LastSend(b)].by = b
  BY <1>1, LastSendIs
<1>3. b < me
  BY StateIs
<1> QED
  BY <1>2, <1>3, SendsIs DEF Guides

LEMMA GuidePinned ==
  ASSUME TypeOK, NEW g \in DOMAIN journal, TheGuide(g)
  PROVE  LastSend(journal[g].by) = g /\ Pinned(journal[g].by) = TurnsBefore(journal, journal[g].by, g)
<1> DEFINE a == journal[g].by
           s == LastSend(a)
<1>1. Sends(journal, claims, g) /\ a < me /\ code[a] = mine
  BY DEF TheGuide, Guides
<1>2. s \in Nat /\ g <= s /\ s # 0
  BY <1>1, LastSendIs
<1>3. Sends(journal, claims, s) /\ journal[s].by = a
  BY <1>2, LastSendIs
<1>4. s \in DOMAIN journal
  BY <1>3, SendsIs
<1>5. Guides(s)
  BY <1>1, <1>3 DEF Guides
<1>6. s <= g
  BY <1>4, <1>5 DEF TheGuide
<1>7. g \in Nat
  BY StateIs
<1>8. s = g
  BY <1>2, <1>6, <1>7
<1> HIDE DEF s
<1> QED
  BY <1>8, PinnedIs DEF s

LEMMA GuideLeads ==
  ASSUME TypeOK, JournalIs, StagedAre, Own, Guided, Live, NEW g \in DOMAIN journal, TheGuide(g),
         NEW d, d = journal[g].effect.from,
         NEW T, T = TurnsBefore(journal, journal[g].by, g)
  PROVE  /\ Leads(journal[g].by, d, T) /\ Lock(d, T)
         /\ asking => Len(calls) > Len(T)
<1> DEFINE a == journal[g].by
<1>1. Guides(g) /\ g \in Stagings(journal) /\ code[a] = mine
  BY GuideIs DEF TheGuide
<1>2. /\ d \in Histories /\ Sound(d) /\ ~EndsIn(d, "wait") /\ Follows(plan, d) /\ d \in DOMAIN plan
      /\ ToldBy(journal, T, d)
  BY <1>1, GuideIs
<1>3. Recorded(a) = T
  BY GuidePinned DEF Recorded, Live
<1>4. Len(T) \in Nat /\ DOMAIN T = 1 .. Len(T)
  BY TurnsAre DEF TypeOK
<1>5. \A i \in DOMAIN T : T[i] \in DOMAIN journal /\ journal[T[i]].by = a
  <2>1. \A i \in DOMAIN T :
           /\ T[i] \in DOMAIN journal /\ journal[T[i]].kind = "response"
           /\ journal[T[i]].of \in AskedBefore(journal, a, g)
    BY TurnsAre DEF TypeOK
  <2> QED
    BY <2>1 DEF JournalIs, AskedBefore
<1>6. \A i \in DOMAIN T : T[i] \in Nat /\ T[i] # 0
  BY <1>5, StateIs
<1>7. /\ Lock(d, T) /\ (asking => Len(calls) > Len(T))
      /\ \A k \in DOMAIN calls : Served(k) /\ SameCode(k) => k \in DOMAIN T
  BY DEF Guided
<1>8. Leads(a, d, T)
  BY <1>1, <1>2, <1>3, <1>4, <1>5, <1>6, <1>7 DEF Leads
<1> QED
  BY <1>7, <1>8

LEMMA KeptLeads ==
  ASSUME TypeOK, JournalIs, CallsAre, KeptIs, Replaying, replayed,
         NEW d, d = kept.did, NEW T, T = Kept
  PROVE  Leads(me, d, T) /\ Lock(d, T)
<1>1. /\ kept.by = me /\ Sound(d) /\ Follows(plan, d) /\ d \in DOMAIN plan
      /\ ~EndsIn(d, "wait") /\ ToldBy(journal, T, d)
  BY DEF KeptIs
<1>2. d \in Histories
  BY DEF TypeOK
<1>3. /\ Len(T) \in Nat /\ DOMAIN T = 1 .. Len(T)
      /\ \A i \in DOMAIN T :
           /\ T[i] \in DOMAIN journal /\ journal[T[i]].kind = "response"
           /\ journal[T[i]].of \in AskedBefore(journal, me, Len(journal) + 1)
  BY <1>1, KeptTurns, TurnsAre DEF TypeOK
<1>4. \A i \in DOMAIN T : T[i] \in DOMAIN journal /\ journal[T[i]].by = me
  BY <1>3 DEF JournalIs, AskedBefore
<1>5. \A i \in DOMAIN T : T[i] \in Nat /\ T[i] # 0
  BY <1>4, StateIs
<1>6. code[me] = mine /\ Recorded(me) = T
  BY DEF mine, Recorded
<1>7. Lock(d, T) /\ \A k \in DOMAIN calls : k \in DOMAIN T
  BY DEF Replaying
<1> QED
  BY <1>1, <1>2, <1>3, <1>4, <1>5, <1>6, <1>7 DEF Leads

\* A replay's next question is the one the attempt that retired asked there.
LEMMA ReplayAsks ==
  ASSUME TypeOK, JournalIs, CallsAre, NodeIs, KeptIs, Replaying, replayed,
         NEW m \in Steps, Decides(m), NEW d, d = kept.did, NEW T, T = Kept
  PROVE  /\ m.does # "return" => Len(did) < Len(d) /\ d[Len(did) + 1] = m
         /\ Len(did) < Len(d) => d[Len(did) + 1] = m
         /\ \A q : m = Asks(q) => NextKept(q) /\ Len(calls) + 1 \in DOMAIN T
<1>1. Leads(me, d, T) /\ Agree(did, d) /\ plan[d] = Returns
  BY KeptLeads DEF Lock, KeptIs
<1>2. /\ Len(did) < Len(d) => d[Len(did) + 1] = m
      /\ Len(did) = Len(d) => plan[d] = m
  BY <1>1, LockDecides
<1>3. Len(did) \in Nat /\ Len(d) \in Nat /\ DOMAIN d = 1 .. Len(d) /\ Len(did) <= Len(d)
  BY <1>1, StateIs, HistoryIs DEF Leads, Replaying
<1>4. m.does # "return" => Len(did) < Len(d)
  BY <1>1, <1>2, <1>3 DEF Returns, Step
<1>5. ASSUME NEW q, m = Asks(q)
      PROVE  NextKept(q) /\ Len(calls) + 1 \in DOMAIN T
  <2>1. m.does = "ask" /\ m.call = Len(calls) + 1 /\ m.of = q
    BY <1>5 DEF Asks, Step
  <2>2. Len(did) + 1 \in DOMAIN d /\ d[Len(did) + 1] = m
    BY <1>2, <1>3, <1>4, <2>1
  <2>3. Len(calls) + 1 \in DOMAIN T /\ journal[journal[T[Len(calls) + 1]].of].question = q
    BY <1>1, <2>1, <2>2 DEF Leads, ToldBy
  <2>4. Len(calls) + 1 <= Len(T)
    BY <1>1, <2>3 DEF Leads
  <2> QED
    BY <2>3, <2>4 DEF NextKept, QuestionOf
<1> QED
  BY <1>2, <1>4, <1>5

\* A live attempt's next question is served the turn its guide was told there, while
\* the guide was told one; and no turn of code that was this before or after that.
LEMMA AskTurn ==
  ASSUME TypeOK, JournalIs, CodeIs, StagedAre, CallsAre, NodeIs, Own, Guided, Live,
         NEW g \in DOMAIN journal, TheGuide(g), NEW d, d = journal[g].effect.from,
         NEW T, T = TurnsBefore(journal, journal[g].by, g),
         NEW q \in Questions, Decides(Asks(q)), Len(calls) + 1 \in DOMAIN T
  PROVE  Take(q) = T[Len(calls) + 1] /\ Take(q) # 0 /\ ~asking
<1> DEFINE n == Len(calls) + 1
           a == journal[g].by
<1>1. /\ Leads(a, d, T) /\ Lock(d, T) /\ (asking => Len(calls) > Len(T)) /\ Agree(did, d)
  BY GuideLeads DEF Lock
<1>2. /\ d \in Histories /\ Len(d) \in Nat /\ DOMAIN d = 1 .. Len(d)
      /\ Len(T) \in Nat /\ DOMAIN T = 1 .. Len(T)
      /\ Len(did) \in Nat /\ DOMAIN did = 1 .. Len(did)
      /\ Len(calls) \in Nat /\ DOMAIN calls = 1 .. Len(calls)
  BY <1>1, StateIs, HistoryIs DEF Leads
<1>3. n \in Nat /\ n <= Len(T) /\ n \notin DOMAIN calls /\ \A i \in DOMAIN calls : i \in DOMAIN T
  BY <1>2
<1>4. ~asking
  BY <1>1, <1>2, <1>3
<1>5. Len(did) < Len(d)
  BY <1>1, <1>3, MoreToAsk
<1>6. Asks(q) \in Steps
  BY StepTypes
<1>7. Len(did) + 1 \in DOMAIN d /\ d[Len(did) + 1] = Asks(q)
  BY <1>1, <1>2, <1>5, <1>6, LockDecides
<1>16. \A k \in DOMAIN d : d[k].does = "ask" => QuestionOf(T[d[k].call]) = d[k].of
  <2>1. ToldBy(journal, T, d)
    BY <1>1 DEF Leads
  <2> QED
    BY <2>1 DEF ToldBy, QuestionOf
<1>8. QuestionOf(T[n]) = q
  <2>1. d[Len(did) + 1].does = "ask" /\ d[Len(did) + 1].call = n /\ d[Len(did) + 1].of = q
    BY <1>7 DEF Asks, Step
  <2> QED
    BY <1>7, <1>16, <2>1
<1>9. ASSUME NEW i \in 1 .. Len(calls)
      PROVE  QuestionOf(T[i]) = calls[i].question
  <2>1. PICK k \in DOMAIN did : did[k].does = "ask" /\ did[k].call = i
    BY <1>2 DEF CallsAre
  <2>2. k \in DOMAIN d /\ d[k] = did[k]
    BY <1>1, <1>2, <1>5 DEF Agree
  <2>3. did[k].of = calls[i].question
    BY <2>1 DEF CallsAre
  <2> QED
    BY <1>16, <2>1, <2>2, <2>3
<1>10. a \in 1 .. me - 1 /\ code[a] = mine
  BY GuideIs DEF TheGuide
<1>11. Pinned(a) = T
  BY GuidePinned
<1>12. a \in Matching(q)
  <2>1. Len(T) > Len(calls)
    BY <1>2, <1>3
  <2> QED
    BY <1>8, <1>9, <1>10, <1>11, <2>1 DEF Matching
<1>13. ASSUME NEW b \in Matching(q)
       PROVE  b <= a
  <2>1. b \in 1 .. me - 1 /\ Len(Pinned(b)) > Len(calls)
    BY DEF Matching
  <2>2. /\ me \in Nat /\ a \in Nat /\ b \in Nat /\ DOMAIN code = 1 .. me /\ mine = code[me]
        /\ a \in DOMAIN code /\ b \in DOMAIN code /\ me \in DOMAIN code
        /\ code[a] \in Nat /\ code[b] \in Nat /\ code[me] \in Nat
    <3>1. /\ me \in Nat /\ DOMAIN code = 1 .. me /\ mine = code[me] /\ me >= 1
          /\ \A x \in DOMAIN code : code[x] \in Nat
      BY StateIs DEF mine
    <3> QED
      BY <1>10, <2>1, <3>1
  <2>3. Len(Pinned(b)) # 0
    BY <1>2, <2>1
  <2> SUFFICES ASSUME a < b PROVE FALSE
    BY <2>2
  <2>4. a <= b /\ b <= me
    BY <2>1, <2>2
  <2>5. code[a] <= code[b] /\ code[b] <= code[me]
    BY <2>2, <2>4 DEF CodeIs
  <2>6. code[b] = mine
    BY <1>10, <2>2, <2>5
  <2>7. LastSend(b) \in DOMAIN journal /\ Guides(LastSend(b)) /\ journal[LastSend(b)].by = b
    BY <2>1, <2>3, <2>6, PinnedGuides
  <2>8. LastSend(b) <= g
    BY <2>7 DEF TheGuide
  <2>9. LastSend(b) # g
    BY <2>2, <2>7
  <2>10. LastSend(b) < g
    BY <2>7, <2>8, <2>9, StateIs
  <2>11. b <= a
    BY <2>7, <2>10 DEF JournalIs
  <2> QED
    BY <2>2, <2>11
<1>14. Max(Matching(q)) = a
  <2>1. Matching(q) \in SUBSET Nat
    BY StateIs DEF Matching
  <2> QED
    BY <1>12, <1>13, <2>1, MaxOnly
<1>15. Take(q) = T[n]
  BY <1>4, <1>11, <1>12, <1>14 DEF Take
<1> QED
  BY <1>1, <1>4, <1>15 DEF Leads

LEMMA TakenTurn ==
  ASSUME TypeOK, JournalIs, CodeIs, StagedAre, Chain, Own, Guided, Live,
         NEW q, Take(q) # 0
  PROVE  /\ Take(q) \in DOMAIN journal /\ journal[Take(q)].kind = "response"
         /\ journal[Take(q)].by \in 1 .. me - 1
         /\ code[journal[Take(q)].by] = mine =>
              \E g \in DOMAIN journal :
                TheGuide(g) /\ Len(calls) + 1 \in DOMAIN TurnsBefore(journal, journal[g].by, g)
<1> DEFINE n == Len(calls) + 1
           t == Take(q)
<1>1. PICK b \in 1 .. me - 1 :
           /\ b \in Matching(q) /\ n \in DOMAIN Pinned(b)
           /\ t \in DOMAIN journal /\ journal[t].kind = "response" /\ journal[journal[t].of].by = b
  BY TakeIs
<1>2. journal[t].by = b
  BY <1>1 DEF JournalIs
<1> HIDE DEF t
<1>3. ASSUME code[b] = mine
      PROVE  \E g \in DOMAIN journal : TheGuide(g) /\ n \in DOMAIN TurnsBefore(journal, journal[g].by, g)
  <2> DEFINE p == LastSend(b)
  <2>1. Len(Pinned(b)) # 0
    <3>1. Len(Pinned(b)) > Len(calls)
      BY <1>1 DEF Matching
    <3> QED
      BY <3>1, StateIs
  <2>2. p \in DOMAIN journal /\ Guides(p) /\ journal[p].by = b
    BY <1>3, <2>1, PinnedGuides
  <2>3. PICK g \in DOMAIN journal : TheGuide(g) /\ p <= g
    BY <2>2, GuideExists
  <2>4. /\ Guides(g) /\ Sends(journal, claims, g) /\ Sends(journal, claims, p)
    BY <2>2, <2>3 DEF TheGuide, Guides
  <2> DEFINE d == journal[g].effect.from
             h == journal[p].effect.from
  <2>5. /\ journal[p].effect.code = mine /\ journal[g].effect.code = mine
        /\ h \in Histories /\ Sound(h) /\ ToldBy(journal, TurnsBefore(journal, b, p), h)
        /\ d \in Histories /\ ToldBy(journal, TurnsBefore(journal, journal[g].by, g), d)
    BY <2>2, <2>4, GuideIs
  <2>6. Agree(h, d) /\ Len(h) <= Len(d)
    BY <2>2, <2>3, <2>4, <2>5 DEF Chain
  <2> HIDE DEF d, h
  <2>7. n \in DOMAIN TurnsBefore(journal, b, p)
    BY <1>1, PinnedIs
  <2> HIDE DEF p, n
  <2>8. PICK k \in DOMAIN h : h[k].does = "see" /\ h[k].call = n
    BY <2>5, <2>7 DEF ToldBy
  <2>9. PICK j \in 1 .. k - 1 : h[j].does = "ask" /\ h[j].call = n
    BY <2>5, <2>8 DEF Sound, SoundAt
  <2>10. j \in DOMAIN h /\ j \in DOMAIN d
    <3>1. Len(h) \in Nat /\ DOMAIN h = 1 .. Len(h) /\ Len(d) \in Nat /\ DOMAIN d = 1 .. Len(d)
      BY <2>5, HistoryIs
    <3> QED
      BY <2>6, <2>8, <2>9, <3>1
  <2>11. d[j].does = "ask" /\ d[j].call = n
    BY <2>6, <2>9, <2>10 DEF Agree
  <2>12. n \in DOMAIN TurnsBefore(journal, journal[g].by, g)
    BY <2>5, <2>10, <2>11 DEF ToldBy
  <2> QED
    BY <2>3, <2>12
<1> QED
  BY <1>1, <1>2, <1>3 DEF t

(***************************************************************************)
(* Whom an attempt follows stays with it.                                  *)
(***************************************************************************)

\* An attempt's guide was sent before it began.
LEMMA GuidesStay ==
  ASSUME TypeOK, JournalIs, CodeIs, ClaimsAre, NodeIs, Own, Keeps, Same
  PROVE  /\ \A o \in DOMAIN journal : Guides(o) => o \in DOMAIN journal' /\ Guides(o)'
         /\ \A o \in DOMAIN journal' : Guides(o)' => o \in DOMAIN journal /\ Guides(o)
         /\ \A o \in DOMAIN journal : TheGuide(o) => TheGuide(o)'
         /\ \A o \in DOMAIN journal' : TheGuide(o)' => o \in DOMAIN journal /\ TheGuide(o)
<1>1. /\ me' = me /\ mine' = mine /\ \A a \in DOMAIN code : code'[a] = code[a]
      /\ me \in Nat
  BY CodeGrows, StateIs
<1>2. /\ \A o \in DOMAIN journal : Sends(journal, claims, o) =>
           o \in DOMAIN journal' /\ journal'[o] = journal[o] /\ Sends(journal', claims', o)
      /\ \A o \in DOMAIN journal' : Sends(journal', claims', o) =>
           /\ o \in Stagings(journal) /\ journal'[o] = journal[o]
           /\ Sends(journal, claims, o) \/ journal[o].by = me
  BY SendsNext
<1>3. \A o \in DOMAIN journal : journal[o].by \in DOMAIN code
  BY DEF JournalIs
<1>4. ASSUME NEW o \in DOMAIN journal, Guides(o)
      PROVE  o \in DOMAIN journal' /\ Guides(o)'
  BY <1>1, <1>2, <1>3, <1>4 DEF Guides
<1>5. ASSUME NEW o \in DOMAIN journal', Guides(o)'
      PROVE  o \in DOMAIN journal /\ Guides(o)
  <2>1. /\ Sends(journal', claims', o) /\ journal'[o].by < me' /\ code'[journal'[o].by] = mine'
    BY <1>5 DEF Guides
  <2>2. o \in DOMAIN journal /\ journal'[o] = journal[o]
    BY <1>2, <2>1 DEF Stagings
  <2>3. journal[o].by # me
    BY <1>1, <2>1, <2>2
  <2>4. Sends(journal, claims, o)
    BY <1>2, <2>1, <2>3
  <2> QED
    BY <1>1, <1>3, <2>1, <2>2, <2>4 DEF Guides
<1>6. ASSUME NEW o \in DOMAIN journal, TheGuide(o)
      PROVE  TheGuide(o)'
  BY <1>4, <1>5, <1>6 DEF TheGuide
<1>7. ASSUME NEW o \in DOMAIN journal', TheGuide(o)'
      PROVE  o \in DOMAIN journal /\ TheGuide(o)
  BY <1>4, <1>5, <1>7 DEF TheGuide
<1> QED
  BY <1>4, <1>5, <1>6, <1>7

\* Calls a step adds no turn to are of code as they were.
LEMMA ServedAsBefore ==
  ASSUME TypeOK, JournalIs, CodeIs, Guided, Live, Same, OldEntries, CodeIs, ClaimsAre, NodeIs,
  Own, Keeps,
         NEW k \in DOMAIN calls, calls'[k].turn \in {calls[k].turn, 0}
  PROVE  /\ Served(k)' => /\ Served(k) /\ (SameCode(k)' <=> SameCode(k))
                          /\ calls'[k].turn \in DOMAIN journal'
                          /\ TurnOf(k)' = TurnOf(k)
                          /\ TurnOf(k).kind = "response" /\ TurnOf(k).by \in 1 .. me - 1
<1> SUFFICES ASSUME Served(k)' PROVE /\ Served(k) /\ (SameCode(k)' <=> SameCode(k))
                                    /\ calls'[k].turn \in DOMAIN journal'
                                    /\ TurnOf(k)' = TurnOf(k)
                                    /\ TurnOf(k).kind = "response" /\ TurnOf(k).by \in 1 .. me - 1
  OBVIOUS
<1>1. calls'[k].turn = calls[k].turn /\ Served(k)
  BY DEF Served
<1>2. /\ calls[k].turn \in DOMAIN journal /\ TurnOf(k).kind = "response"
      /\ TurnOf(k).by \in 1 .. me - 1
  BY <1>1 DEF Guided
<1>3. calls'[k].turn \in DOMAIN journal' /\ TurnOf(k)' = TurnOf(k)
  BY <1>1, <1>2 DEF OldEntries, TurnOf
<1>4. mine' = mine /\ \A a \in DOMAIN code : code'[a] = code[a]
  BY CodeGrows
<1>5. TurnOf(k).by \in DOMAIN code
  BY <1>2, StateIs
<1>6. SameCode(k)' <=> SameCode(k)
  BY <1>3, <1>4, <1>5 DEF SameCode
<1> QED
  BY <1>1, <1>2, <1>3, <1>6

\* What a step does to the turns of an attempt's calls.
AsksNow(q) ==
  /\ Decides(Asks(q))
  /\ DOMAIN calls' = DOMAIN calls \cup {Len(calls) + 1} /\ Len(calls') = Len(calls) + 1
  /\ asking' = (asking \/ Take(q) = 0)
  /\ \A k \in DOMAIN calls : calls'[k].turn = calls[k].turn
  /\ calls'[Len(calls) + 1].turn = Take(q)
NoneAsked ==
  /\ DOMAIN calls' = DOMAIN calls /\ Len(calls') = Len(calls) /\ asking' = asking
  /\ \A k \in DOMAIN calls : calls'[k].turn \in {calls[k].turn, 0}

LEMMA TurnsChange ==
  ASSUME TypeOK, AStep, Live, ~FreshStep
  PROVE  replayed' = replayed /\ (NoneAsked \/ \E q \in Questions : AsksNow(q))
<1> DEFINE Goal == replayed' = replayed /\ (NoneAsked \/ \E q \in Questions : AsksNow(q))
<1>1. ASSUME NEW q \in Questions, NEW r \in Nat, NEW t \in Nat, AskStep(q, r, t)
      PROVE  Goal
  <2>1. /\ t = Take(q) /\ asking' = (asking \/ t = 0) /\ replayed' = replayed /\ Decides(Asks(q))
        /\ calls' = Append(calls, Call(q, r, t))
    BY <1>1 DEF AskStep
  <2>2. AsksNow(q)
    BY <2>1, CallAsked DEF AsksNow
  <2> QED
    BY <2>1, <2>2
<1>2. ASSUME calls' = calls, asking' = asking, replayed' = replayed
      PROVE  Goal
  BY <1>2 DEF NoneAsked
<1>3. ASSUME NEW q \in Questions, DivergeStep(q) PROVE Goal
  BY <1>2, <1>3 DEF DivergeStep, run
<1>4. ASSUME NEW i \in DOMAIN calls \cup {0}, Waits(i) PROVE Goal
  <2>1. replayed' = replayed /\ asking' = asking
    BY <1>4 DEF Waits, run
  <2> QED
    BY <1>4, <2>1, WaitCalls DEF NoneAsked
<1>5. CASE ParkStep
  BY <1>2, <1>5 DEF ParkStep, Stage
<1>6. CASE WriteStep
  BY <1>2, <1>6 DEF WriteStep
<1>7. CASE Return
  BY <1>2, <1>7 DEF Return
<1>8. ASSUME NEW i \in DOMAIN calls, NEW what \in Answers \cup {GaveUp}, SeeStep(i, what) PROVE Goal
  <2>1. replayed' = replayed /\ asking' = asking
    BY <1>8 DEF SeeStep, run
  <2> QED
    BY <1>8, <2>1, SeeCalls DEF NoneAsked
<1>9. ASSUME NEW i \in DOMAIN calls, NEW what \in Answers \cup {GaveUp}, RecordStep(i, what) PROVE Goal
  <2>1. replayed' = replayed /\ asking' = asking
    BY <1>9 DEF RecordStep, aside
  <2> QED
    BY <1>9, <2>1, RecordCalls DEF NoneAsked
<1>10. ASSUME NEW i \in DOMAIN calls, AgainStep(i) PROVE Goal
  <2>1. replayed' = replayed /\ asking' = asking
    BY <1>10 DEF AgainStep, Expires, aside
  <2>2. /\ DOMAIN calls' = DOMAIN calls /\ Len(calls') = Len(calls)
        /\ \A k \in DOMAIN calls : calls'[k].turn = IF k = i THEN 0 ELSE calls[k].turn
    BY <1>10, CallAgain DEF AgainStep
  <2> QED
    BY <2>1, <2>2 DEF NoneAsked
<1>11. ASSUME NEW i \in DOMAIN calls, HaltStep(i) PROVE Goal
  <2>1. replayed' = replayed /\ asking' = asking
    BY <1>11 DEF HaltStep, Expires, aside
  <2> QED
    BY <1>11, <2>1, HaltCalls DEF NoneAsked
<1> QED
  BY <1>1, <1>3, <1>4, <1>5, <1>6, <1>7, <1>8, <1>9, <1>10, <1>11 DEF AStep

LEMMA GuidanceNext ==
  ASSUME TypeOK, JournalIs, CodeIs, StagedAre, ClaimsAre, Chain, CallsAre, NodeIs, Own,
  Guided, KeptIs,
         Replaying, AStep, Keeps, Same, Live, ~FreshStep
  PROVE  Guided'
<1> DEFINE n == Len(calls) + 1
<1>1. replayed' = replayed /\ (NoneAsked \/ \E q \in Questions : AsksNow(q))
  BY TurnsChange
<1>2. /\ \A k \in DOMAIN calls : k \in DOMAIN calls' /\ calls'[k].turn \in {calls[k].turn, 0}
      /\ \A k \in DOMAIN calls' : k \in DOMAIN calls \/
           (k = n /\ \E q \in Questions : AsksNow(q) /\ calls'[k].turn = Take(q))
      /\ Len(calls') \in Nat /\ Len(calls) \in Nat /\ Len(calls') >= Len(calls)
  <2>1. Len(calls) \in Nat
    BY StateIs
  <2>2. CASE NoneAsked
    BY <2>1, <2>2 DEF NoneAsked
  <2>3. ASSUME NEW q \in Questions, AsksNow(q)
        PROVE  /\ \A k \in DOMAIN calls : k \in DOMAIN calls' /\ calls'[k].turn \in {calls[k].turn, 0}
               /\ \A k \in DOMAIN calls' : k \in DOMAIN calls \/ (k = n /\ calls'[k].turn = Take(q))
               /\ Len(calls') \in Nat /\ Len(calls') >= Len(calls)
    BY <2>1, <2>3 DEF AsksNow
  <2> QED
    BY <1>1, <2>1, <2>2, <2>3
<1> HIDE DEF n
<1>3. OldEntries
  BY EntriesStay DEF OldEntries, Keeps
<1>4. \A k \in DOMAIN calls :
        Served(k)' => /\ Served(k) /\ (SameCode(k)' <=> SameCode(k))
                      /\ calls'[k].turn \in DOMAIN journal' /\ TurnOf(k)' = TurnOf(k)
                      /\ TurnOf(k).kind = "response" /\ TurnOf(k).by \in 1 .. me - 1
  BY <1>2, <1>3, ServedAsBefore
<1>5. me' = me /\ mine' = mine /\ \A a \in DOMAIN code : code'[a] = code[a]
  BY CodeGrows
\* A call just asked.
<1>6. ASSUME NEW k \in DOMAIN calls', k \notin DOMAIN calls, Served(k)'
      PROVE  /\ calls'[k].turn \in DOMAIN journal' /\ TurnOf(k)'.kind = "response"
             /\ TurnOf(k)'.by \in 1 .. me' - 1
             /\ SameCode(k)' => \E g \in DOMAIN journal :
                  TheGuide(g) /\ k \in DOMAIN TurnsBefore(journal, journal[g].by, g)
  <2>1. PICK q \in Questions : AsksNow(q) /\ calls'[k].turn = Take(q)
    BY <1>2, <1>6
  <2>2. k = n
    BY <1>2, <1>6
  <2>3. Take(q) # 0
    BY <1>6, <2>1 DEF Served
  <2>4. /\ Take(q) \in DOMAIN journal /\ journal[Take(q)].kind = "response"
        /\ journal[Take(q)].by \in 1 .. me - 1
        /\ code[journal[Take(q)].by] = mine =>
              \E g \in DOMAIN journal :
                TheGuide(g) /\ n \in DOMAIN TurnsBefore(journal, journal[g].by, g)
    BY <2>3, TakenTurn DEF n
  <2>5. calls'[k].turn \in DOMAIN journal' /\ TurnOf(k)' = journal[Take(q)]
    BY <1>3, <2>1, <2>4 DEF OldEntries, TurnOf
  <2>6. journal[Take(q)].by \in DOMAIN code
    BY <2>4, StateIs
  <2>7. SameCode(k)' => code[journal[Take(q)].by] = mine
    BY <1>5, <2>5, <2>6 DEF SameCode
  <2> QED
    BY <1>5, <2>2, <2>4, <2>5, <2>7
<1>7. ASSUME NEW o \in DOMAIN journal', TheGuide(o)', NEW d, d = journal'[o].effect.from,
             NEW T, T = TurnsBefore(journal', journal'[o].by, o)
      PROVE  /\ Lock(d, T)'
             /\ asking' => Len(calls') > Len(T)
             /\ \A i \in DOMAIN calls' : Served(i)' /\ SameCode(i)' => i \in DOMAIN T
  <2>1. o \in DOMAIN journal /\ TheGuide(o)
    BY <1>7, GuidesStay
  <2>2. o \in Stagings(journal)
    BY <2>1, SendsIs DEF TheGuide, Guides, Stagings
  <2>3. d = journal[o].effect.from /\ T = TurnsBefore(journal, journal[o].by, o)
    BY <1>7, <2>2, StagedStay DEF Keeps
  <2>4. Leads(journal[o].by, d, T) /\ Lock(d, T) /\ (asking => Len(calls) > Len(T))
    BY <2>1, <2>3, GuideLeads
  <2>5. ASSUME NEW q \in Questions, NEW r \in Nat, NEW t \in Nat,
               AskStep(q, r, t), Len(calls) + 1 \in DOMAIN T
        PROVE  t = T[Len(calls) + 1]
    <3>1. t = Take(q) /\ Decides(Asks(q))
      BY <2>5 DEF AskStep
    <3> QED
      BY <2>1, <2>3, <2>5, <3>1, AskTurn
  <2>6. Lock(d, T)'
    BY <1>3, <2>4, <2>5, LockNext
  <2>7. Len(T) \in Nat /\ DOMAIN T = 1 .. Len(T)
    BY <2>4 DEF Leads
  <2>8. ASSUME asking'
        PROVE  Len(calls') > Len(T)
    <3>1. CASE asking
      BY <1>2, <2>4, <2>7, <3>1
    <3>2. CASE ~asking
      <4>1. PICK q \in Questions : AsksNow(q) /\ Take(q) = 0
        BY <1>1, <2>8, <3>2 DEF NoneAsked, AsksNow
      <4>2. Decides(Asks(q)) /\ Len(calls') = Len(calls) + 1
        BY <4>1 DEF AsksNow
      <4>3. Len(calls) + 1 \notin DOMAIN T
        BY <2>1, <2>3, <4>1, <4>2, AskTurn
      <4> QED
        BY <1>2, <2>7, <4>2, <4>3
    <3> QED
      BY <3>1, <3>2
  <2>9. ASSUME NEW i \in DOMAIN calls', Served(i)', SameCode(i)'
        PROVE  i \in DOMAIN T
    <3>1. CASE i \in DOMAIN calls
      <4>1. Served(i) /\ SameCode(i)
        BY <1>4, <2>9, <3>1
      <4> QED
        BY <2>4, <3>1, <4>1 DEF Leads
    <3>2. CASE i \notin DOMAIN calls
      <4>1. PICK g \in DOMAIN journal :
               TheGuide(g) /\ i \in DOMAIN TurnsBefore(journal, journal[g].by, g)
        BY <1>6, <2>9, <3>2
      <4>2. g <= o /\ o <= g /\ g \in Nat /\ o \in Nat
        BY <2>1, <4>1, StateIs DEF TheGuide
      <4>3. g = o
        BY <4>2
      <4> QED
        BY <2>3, <4>1, <4>3
    <3> QED
      BY <3>1, <3>2
  <2> QED
    BY <2>6, <2>8, <2>9
<1>8. ASSUME \A o \in DOMAIN journal' : ~Guides(o)'
      PROVE  \A i \in DOMAIN calls' : Served(i)' => ~SameCode(i)'
  <2>1. \A o \in DOMAIN journal : ~Guides(o)
    BY <1>8, GuidesStay
  <2>2. \A i \in DOMAIN calls : Served(i) => ~SameCode(i)
    BY <2>1 DEF Guided
  <2> QED
    BY <1>4, <1>6, <2>1, <2>2 DEF TheGuide
<1>9. ASSUME NEW i \in DOMAIN calls', Served(i)'
      PROVE  /\ calls'[i].turn \in DOMAIN journal' /\ TurnOf(i)'.kind = "response"
             /\ TurnOf(i)'.by \in 1 .. me' - 1
  BY <1>4, <1>5, <1>6, <1>9
<1> QED
  BY <1>7, <1>8, <1>9 DEF Guided

LEMMA GuidedNext ==
  ASSUME TypeOK, JournalIs, CodeIs, StagedAre, ClaimsAre, Chain, CallsAre, NodeIs, Own,
  Guided, KeptIs,
         Replaying, AStep, Keeps
  PROVE  Guided'
<1>1. CASE calls' = <<>> /\ did' = <<>> /\ ~asking'
  <2>1. DOMAIN calls' = {} /\ DOMAIN did' = {}
    BY <1>1, EmptyIs
  <2>2. ASSUME NEW d, NEW T
        PROVE  Lock(d, T)'
    <3>1. Agree(did', d)
      BY <2>1 DEF Agree
    <3> QED
      BY <2>1, <3>1, LockParts
  <2> QED
    BY <1>1, <2>1, <2>2 DEF Guided
<1>2. CASE FreshStep
  BY <1>1, <1>2 DEF FreshStep
<1>3. CASE Renews
  BY <1>1, <1>3 DEF Renews, Resume, Fresh
<1>4. CASE replayed
  <2>1. CASE replayed'
    BY <2>1 DEF Guided, Live
  <2>2. CASE ~replayed'
    <3>1. replayed' = replayed \/ FreshStep
      BY DEF AStep, AskStep, DivergeStep, Waits, ParkStep, Stage, WriteStep, Return, SeeStep,
             RecordStep, AgainStep, HaltStep, Expires, aside, run
    <3> QED
      BY <1>2, <1>4, <2>2, <3>1
  <2> QED
    BY <2>1, <2>2
<1>5. CASE Live /\ ~FreshStep /\ Same
  BY <1>5, GuidanceNext
<1> QED
  BY <1>2, <1>3, <1>4, <1>5 DEF Keeps, Live

(***************************************************************************)
(* What was kept, and its replay.                                          *)
(***************************************************************************)

LEMMA KeptNow ==
  ASSUME TypeOK, journal' = journal
  PROVE  Kept' = TurnsBefore(journal, kept'.by, Len(journal) + 1)
<1>1. \A r : OutcomesIn(journal, r) = Outcomes(r)'
  BY DEF OutcomesIn, Outcomes
<1>2. \A r \in DOMAIN journal : r < Len(journal) + 1
  BY StateIs
<1>3. \A a : Asked(a)' = AskedBefore(journal, a, Len(journal) + 1)
  BY <1>1, <1>2 DEF Asked, AskedBefore
<1>4. Kept' = [i \in 1 .. Cardinality(Asked(kept.by)') |-> Newest(Outcomes(Nth(Asked(kept.by), i))')]
  BY DEF Kept, Turns, Outcome
<1>5. Asked(kept.by)' = AskedBefore(journal, kept'.by, Len(journal) + 1)
  BY <1>1, <1>2 DEF Asked, AskedBefore
<1> QED
  BY <1>1, <1>4, <1>5 DEF TurnsBefore

\* A step that leaves the record of what retired, while it only decides more.
LEMMA KeptStays ==
  ASSUME TypeOK, KeptIs, node = "returned" \/ replayed, UNCHANGED <<journal, code, kept>>,
         MoreOf(plan, plan')
  PROVE  KeptIs' /\ Kept' = Kept
<1>1. Kept' = Kept
  BY KeptNow, KeptTurns
<1>2. /\ kept.by = me /\ Sound(kept.did) /\ Follows(plan, kept.did)
      /\ kept.did \in DOMAIN plan /\ plan[kept.did] = Returns
      /\ ~EndsIn(kept.did, "wait") /\ ToldBy(journal, Kept, kept.did)
  BY DEF KeptIs
<1>3. Follows(plan', kept.did) /\ kept.did \in DOMAIN plan' /\ plan'[kept.did] = Returns
  BY <1>2, FollowsMore DEF MoreOf
<1>4. me' = me /\ kept' = kept /\ journal' = journal /\ Returns' = Returns
  BY DEF me, Returns
<1> QED
  BY <1>1, <1>2, <1>3, <1>4 DEF KeptIs

LEMMA KeptByReturn ==
  ASSUME TypeOK, JournalIs, CallsAre, NodeIs, Own, Live, Return
  PROVE  KeptIs'
<1>1. /\ Decides(Returns) /\ node = "deciding" /\ MayWrite /\ journal' = journal /\ code' = code
      /\ kept' = [by |-> me, did |-> did]
  BY DEF Return, Live, MayWrite, Decides
<1>2. /\ Sound(did) /\ ~EndsIn(did, "wait") /\ Follows(plan', did)
      /\ did \in DOMAIN plan' /\ plan'[did] = Returns
  <2>1. Returns \in Steps /\ Returns.does # "see"
    BY StepTypes DEF Returns, Step
  <2> QED
    BY <1>1, <2>1, Decided
<1>3. ToldBy(journal, TurnsBefore(journal, me, Len(journal) + 1), did)
  BY <1>1, ToldNow
<1>4. kept'.by = me /\ kept'.did = did
  BY <1>1
<1>5. Kept' = TurnsBefore(journal, me, Len(journal) + 1)
  BY <1>1, <1>4, KeptNow
<1>6. me' = me /\ Returns' = Returns
  BY <1>1 DEF me, Returns
<1> QED
  BY <1>1, <1>2, <1>3, <1>4, <1>5, <1>6 DEF KeptIs

LEMMA ReplayKeeps ==
  ASSUME TypeOK, AStep, replayed
  PROVE  UNCHANGED <<journal, code, kept, replayed>>
<1>1. ~Live
  BY DEF Live
<1>2. ASSUME NEW q \in Questions, NEW r, NEW t, AskStep(q, r, t)
      PROVE  UNCHANGED <<journal, code, kept, replayed>>
  BY <1>2 DEF AskStep
<1>3. ASSUME NEW q \in Questions, DivergeStep(q)
      PROVE  UNCHANGED <<journal, code, kept, replayed>>
  BY <1>3 DEF DivergeStep, run
<1>4. ASSUME NEW i, Waits(i)
      PROVE  UNCHANGED <<journal, code, kept, replayed>>
  BY <1>4 DEF Waits, run
<1>5. CASE WriteStep
  BY <1>5 DEF WriteStep
<1>6. CASE Return
  BY <1>6 DEF Return
<1>7. ASSUME NEW i, NEW what, SeeStep(i, what)
      PROVE  UNCHANGED <<journal, code, kept, replayed>>
  BY <1>7 DEF SeeStep, run
<1>8. ASSUME NEW i, HaltStep(i)
      PROVE  UNCHANGED <<journal, code, kept, replayed>>
  BY <1>8 DEF HaltStep, Expires, aside
<1> QED
  BY <1>1, <1>2, <1>3, <1>4, <1>5, <1>6, <1>7, <1>8
     DEF AStep, ParkStep, FreshStep, RecordStep, AgainStep

LEMMA KeptNext ==
  ASSUME TypeOK, JournalIs, CodeIs, CallsAre, NodeIs, Own, KeptIs, AStep, Keeps
  PROVE  KeptIs'
<1>1. CASE replayed
  <2>1. UNCHANGED <<journal, code, kept>>
    BY <1>1, ReplayKeeps
  <2>2. MoreOf(plan, plan')
    BY <1>1 DEF Keeps, Same, Renews, Resume, Live
  <2> QED
    BY <1>1, <2>1, <2>2, KeptStays
<1>2. CASE Live /\ Return
  BY <1>2, KeptByReturn
<1>3. CASE Replay
  <2>1. UNCHANGED <<journal, code, kept, plan>> /\ node = "returned"
    BY <1>3 DEF Replay
  <2>2. MoreOf(plan, plan')
    BY <2>1 DEF MoreOf
  <2> QED
    BY <2>1, <2>2, KeptStays
<1>4. CASE Live /\ ~Return /\ ~Replay
  <2>1. node' # "returned" /\ ~replayed'
    <3>1. ASSUME NEW q \in Questions, NEW r, NEW t, AskStep(q, r, t)
          PROVE  node' # "returned" /\ ~replayed'
      BY <1>4, <3>1 DEF AskStep, Decides, Live
    <3>2. ASSUME NEW q \in Questions, DivergeStep(q)
          PROVE  node' # "returned" /\ ~replayed'
      BY <1>4, <3>2 DEF DivergeStep, Live
    <3>3. ASSUME NEW i, Waits(i)
          PROVE  node' # "returned" /\ ~replayed'
      BY <1>4, <3>3 DEF Waits, run, Live
    <3>4. CASE ParkStep
      BY <1>4, <3>4 DEF ParkStep, Stage, Live
    <3>5. CASE WriteStep
      BY <1>4, <3>5 DEF WriteStep, Live
    <3>6. CASE FreshStep
      <4>1. replayed' = replayed
        BY <1>4, <3>6 DEF FreshStep, Resume
      <4>2. node' \in {"down", "deciding"}
        BY <1>4, <3>6 DEF FreshStep, Resume
      <4> QED
        BY <1>4, <4>1, <4>2 DEF Live
    <3>7. ASSUME NEW i, NEW what, SeeStep(i, what)
          PROVE  node' # "returned" /\ ~replayed'
      BY <1>4, <3>7 DEF SeeStep, run, Live
    <3>8. ASSUME NEW i, NEW what, RecordStep(i, what)
          PROVE  node' # "returned" /\ ~replayed'
      BY <1>4, <3>8 DEF RecordStep, aside, Live
    <3>9. ASSUME NEW i, AgainStep(i)
          PROVE  node' # "returned" /\ ~replayed'
      BY <1>4, <3>9 DEF AgainStep, Expires, aside, Open, Live
    <3>10. ASSUME NEW i, HaltStep(i)
          PROVE  node' # "returned" /\ ~replayed'
      BY <1>4, <3>10 DEF HaltStep, Expires, aside, Live
    <3> QED
      BY <1>4, <3>1, <3>2, <3>3, <3>4, <3>5, <3>6, <3>7, <3>8, <3>9, <3>10 DEF AStep
  <2> QED
    BY <2>1 DEF KeptIs
<1> QED
  BY <1>1, <1>2, <1>3, <1>4 DEF Live

LEMMA ReplayingNext ==
  ASSUME TypeOK, JournalIs, CodeIs, CallsAre, NodeIs, Own, Guided, KeptIs, Replaying, AStep, Keeps
  PROVE  Replaying'
<1>1. CASE Live
  <2>1. CASE Replay
    <3>1. node' = "deciding" /\ calls' = <<>> /\ did' = <<>> /\ kept' = kept
      BY <2>1 DEF Replay, Fresh
    <3>2. DOMAIN calls' = {} /\ DOMAIN did' = {} /\ Len(did') = 0
      BY <3>1, EmptyIs
    <3>3. 0 <= Len(kept.did)
      BY HistoryIs DEF TypeOK
    <3>4. ASSUME NEW d, NEW T
          PROVE  Lock(d, T)'
      <4>1. Agree(did', d)
        BY <3>2 DEF Agree
      <4> QED
        BY <3>2, <4>1, LockParts
    <3> QED
      BY <3>1, <3>2, <3>3, <3>4 DEF Replaying
  <2>2. CASE ~Replay
    <3>1. CASE FreshStep
      BY <1>1, <2>2, <3>1 DEF FreshStep, Resume, Replaying, Live
    <3>2. CASE ~FreshStep
      <4>1. replayed' = replayed
        BY <1>1, <3>2, TurnsChange
      <4> QED
        BY <1>1, <4>1 DEF Replaying, Live
    <3> QED
      BY <3>1, <3>2
  <2> QED
    BY <2>1, <2>2
<1>2. CASE replayed
  <2>1. PICK d, T : d = kept.did /\ T = Kept
    OBVIOUS
  <2>2. UNCHANGED <<journal, code, kept, replayed>> /\ ~Live
    BY <1>2, ReplayKeeps DEF Live
  <2>3. d = kept'.did /\ T = Kept'
    BY <2>1, <2>2, KeptNow, KeptTurns
  <2>4. /\ Leads(me, d, T) /\ Lock(d, T)
    BY <1>2, <2>1, KeptLeads
  <2>5. /\ node \in {"deciding", "waiting", "returned"} /\ Len(did) <= Len(d)
        /\ \A i \in DOMAIN calls : i \in DOMAIN T
        /\ node = "returned" => Len(did) = Len(d)
    BY <1>2, <2>1 DEF Replaying
  <2>6. d \in Histories /\ Len(d) \in Nat /\ DOMAIN d = 1 .. Len(d) /\ Len(did) \in Nat
        /\ did \in Histories
    BY <2>4, StateIs, HistoryIs DEF Leads, TypeOK
  <2>7. OldEntries
    BY <2>2 DEF OldEntries
  <2>8. ASSUME NEW q \in Questions, NEW r \in Nat, NEW t \in Nat, AskStep(q, r, t)
        PROVE  /\ Decides(Asks(q)) /\ NextKept(q) /\ t = T[Len(calls) + 1]
               /\ did' = Append(did, Asks(q)) /\ node' = node
               /\ DOMAIN calls' = DOMAIN calls \cup {Len(calls) + 1}
    <3>1. calls' = Append(calls, Call(q, r, t))
      BY <2>8 DEF AskStep
    <3>2. DOMAIN calls' = DOMAIN calls \cup {Len(calls) + 1}
      BY <3>1, CallAsked
    <3> QED
      BY <1>2, <2>1, <2>8, <3>2 DEF AskStep
  <2>9. Lock(d, T)'
    BY <2>4, <2>7, <2>8, LockNext
  <2>10. ASSUME NEW m \in Steps, Decides(m)
         PROVE  /\ m.does # "return" => Len(did) < Len(d)
                /\ Len(did) < Len(d) => d[Len(did) + 1] = m
                /\ \A q : m = Asks(q) => NextKept(q) /\ Len(calls) + 1 \in DOMAIN T
    BY <1>2, <2>1, <2>10, ReplayAsks
  <2>11. ASSUME NEW x \in Steps, did' = Append(did, x), Len(did) < Len(d)
         PROVE  Len(did') <= Len(d)
    BY <2>6, <2>11, Longer
  <2> DEFINE Goal == /\ node' \in {"deciding", "waiting", "returned"} /\ Len(did') <= Len(d)
                     /\ \A i \in DOMAIN calls' : i \in DOMAIN T
                     /\ node' = "returned" => Len(did') = Len(d)
  <2>12. ASSUME NEW q \in Questions, NEW r \in Nat, NEW t \in Nat, AskStep(q, r, t)
         PROVE  Goal
    <3>1. Asks(q) \in Steps /\ Decides(Asks(q)) /\ Asks(q).does # "return" /\ node = "deciding"
      BY <2>8, <2>12, StepTypes DEF Asks, Step, Decides
    <3>2. Len(did) < Len(d) /\ Len(calls) + 1 \in DOMAIN T
      BY <2>10, <3>1
    <3>3. Len(did') <= Len(d) /\ node' = "deciding"
      BY <2>8, <2>11, <2>12, <3>1, <3>2
    <3> QED
      BY <2>5, <2>8, <2>12, <3>2, <3>3
  <2>13. ASSUME NEW q \in Questions, DivergeStep(q)
         PROVE  Goal
    <3>1. Asks(q) \in Steps /\ Decides(Asks(q)) /\ ~NextKept(q)
      BY <2>13, StepTypes DEF DivergeStep
    <3> QED
      BY <2>10, <3>1
  <2>14. ASSUME NEW i \in DOMAIN calls \cup {0}, Waits(i)
         PROVE  Goal
    <3>1. i \in Nat
      BY StateIs
    <3>2. WaitsOn(i) \in Steps /\ Decides(WaitsOn(i)) /\ WaitsOn(i).does # "return"
          /\ did' = Append(did, WaitsOn(i)) /\ node' = "waiting"
      BY <2>14, <3>1, StepTypes DEF WaitsOn, Step, Waits, Does
    <3>3. Len(did') <= Len(d)
      BY <2>10, <2>11, <3>2
    <3>4. DOMAIN calls' = DOMAIN calls
      BY <2>14, WaitCalls
    <3> QED
      BY <2>5, <3>2, <3>3, <3>4
  <2>15. ASSUME WriteStep
         PROVE  Goal
    <3>1. Writes \in Steps /\ Decides(Writes) /\ Writes.does # "return"
          /\ did' = Append(did, Writes) /\ node' = "deciding" /\ calls' = calls
      BY <1>2, <2>15, StepTypes DEF Writes, Step, WriteStep
    <3>2. Len(did') <= Len(d)
      BY <2>10, <2>11, <3>1
    <3> QED
      BY <2>5, <3>1, <3>2
  <2>16. ASSUME Return
         PROVE  Goal
    <3>1. Returns \in Steps /\ Decides(Returns) /\ Returns.does = "return"
          /\ did' = did /\ node' = "returned" /\ calls' = calls
      BY <2>16, StepTypes DEF Returns, Step, Return
    <3>2. Len(did) = Len(d)
      <4> SUFFICES ASSUME Len(did) < Len(d) PROVE FALSE
        BY <2>5, <2>6
      <4>1. d[Len(did) + 1] = Returns /\ Len(did) + 1 \in DOMAIN d
        BY <2>6, <2>10, <3>1
      <4> QED
        BY <2>4, <3>1, <4>1 DEF Leads, Sound, SoundAt
    <3> QED
      BY <2>5, <2>6, <3>1, <3>2
  <2>17. ASSUME NEW i \in DOMAIN calls, NEW what \in Answers \cup {GaveUp}, SeeStep(i, what)
         PROVE  Goal
    <3>1. did' = Append(did, Sees(i, what)) /\ node' = "deciding" /\ calls[i].state = "open"
      BY <1>2, <2>17 DEF SeeStep
    <3>2. Sees(i, what) \in Steps
      BY CallIs, StepTypes
    <3>3. Len(did) < Len(d)
      BY <2>4, <2>5, <3>1, MoreToDo DEF Unfinished
    <3>4. Len(did') <= Len(d)
      BY <2>11, <3>1, <3>2, <3>3
    <3>5. DOMAIN calls' = DOMAIN calls
      BY <2>17, SeeCalls
    <3> QED
      BY <2>5, <3>1, <3>4, <3>5
  <2>18. ASSUME NEW i \in DOMAIN calls, HaltStep(i)
         PROVE  Goal
    BY <2>4, <2>5, <2>18, NeverExpires DEF HaltStep
  <2>19. Goal
    <3>1. /\ ~ParkStep /\ ~FreshStep
          /\ \A i, what : ~RecordStep(i, what) /\ ~AgainStep(i)
      BY <2>2 DEF ParkStep, FreshStep, RecordStep, AgainStep
    <3> HIDE DEF Goal
    <3> QED
      BY <2>12, <2>13, <2>14, <2>15, <2>16, <2>17, <2>18, <3>1 DEF AStep
  <2> QED
    BY <2>3, <2>9, <2>19 DEF Replaying
<1> QED
  BY <1>1, <1>2 DEF Live

\* A served node is halted only for a turn of code that is not its own.
LEMMA GoesOnNext ==
  ASSUME TypeOK, JournalIs, CodeIs, StagedAre, ClaimsAre, CallsAre, NodeIs, Own, Guided,
  AStep, Keeps
  PROVE  ServedNodeGoesOn'
<1>1. ASSUME NEW i \in DOMAIN calls, HaltStep(i), Live
      PROVE  ServedNodeGoesOn'
  <2>1. /\ Open(i) /\ Served(i) /\ Expires(i) /\ node = "waiting" /\ code' = code
        /\ DOMAIN calls' = DOMAIN calls
        /\ \A k \in DOMAIN calls :
              calls'[k].turn = calls[k].turn
              /\ calls'[k].state = IF k = i THEN "expired" ELSE calls[k].state
    BY <1>1, HaltCalls DEF HaltStep, Expires, Open, aside
  <2>2. \A k \in DOMAIN calls : calls'[k].state = "expired" => k = i
    BY <2>1 DEF CallsAre
  <2>3. ~SameCode(i)
    <3> SUFFICES ASSUME SameCode(i) PROVE FALSE
      OBVIOUS
    <3>1. PICK o \in DOMAIN journal : Guides(o)
      BY <1>1, <2>1 DEF Guided
    <3>2. PICK g \in DOMAIN journal : TheGuide(g)
      BY <3>1, GuideExists
    <3>3. PICK d, T : /\ d = journal[g].effect.from
                      /\ T = TurnsBefore(journal, journal[g].by, g)
      OBVIOUS
    <3>4. Leads(journal[g].by, d, T) /\ Lock(d, T)
      BY <1>1, <3>2, <3>3, GuideLeads
    <3>5. i \in DOMAIN T
      BY <2>1, <3>4 DEF Leads
    <3> QED
      BY <2>1, <3>4, <3>5, NeverExpires
  <2>4. SameCode(i)' => SameCode(i)
    <3>1. calls[i].turn \in DOMAIN journal /\ TurnOf(i).by \in DOMAIN code
      BY <1>1, <2>1, StateIs DEF Guided
    <3>2. OldEntries
      BY EntriesStay DEF OldEntries, Keeps
    <3>3. TurnOf(i)' = TurnOf(i)
      BY <2>1, <3>1, <3>2 DEF OldEntries, TurnOf
    <3>4. mine' = mine
      BY <2>1 DEF mine, me
    <3> QED
      BY <2>1, <3>3, <3>4 DEF SameCode
  <2> QED
    BY <2>1, <2>2, <2>3, <2>4 DEF ServedNodeGoesOn
<1>2. ASSUME ~(\E i \in DOMAIN calls : HaltStep(i))
      PROVE  node' # "halted"
  <2>1. ASSUME NEW q \in Questions, NEW r, NEW t, AskStep(q, r, t)
        PROVE  node' # "halted"
    BY <2>1 DEF AskStep, Decides
  <2>2. ASSUME NEW i, NEW what, RecordStep(i, what)
        PROVE  node' # "halted"
    BY <2>2 DEF RecordStep
  <2>3. ASSUME NEW i, AgainStep(i)
        PROVE  node' # "halted"
    BY <2>3 DEF AgainStep, Expires, Open
  <2>4. CASE ParkStep
    BY <2>4 DEF ParkStep, Stage, Live
  <2>5. CASE FreshStep
    BY <2>5 DEF FreshStep, Resume, Replay
  <2>6. ASSUME NEW q \in Questions, DivergeStep(q)
        PROVE  node' # "halted"
    BY <2>6 DEF DivergeStep
  <2>7. ASSUME NEW i, NEW what, SeeStep(i, what)
        PROVE  node' # "halted"
    BY <2>7 DEF SeeStep
  <2> QED
    BY <1>2, <2>1, <2>2, <2>3, <2>4, <2>5, <2>6, <2>7 DEF AStep, Waits, WriteStep, Return
<1>3. CASE ~Live /\ \E i \in DOMAIN calls : HaltStep(i)
  <2>1. replayed' = replayed
    BY <1>3 DEF HaltStep, Expires, aside
  <2> QED
    BY <1>3, <2>1 DEF ServedNodeGoesOn, Live
<1> QED
  BY <1>1, <1>2, <1>3 DEF ServedNodeGoesOn

(***************************************************************************)
(* The invariant holds, and what it says.                                  *)
(***************************************************************************)

LEMMA InvInit ==
  Init => IInv
<1> SUFFICES ASSUME Init PROVE IInv
  OBVIOUS
<1>1. /\ journal = <<>> /\ claims = <<>> /\ code = <<1>> /\ plan = <<>> /\ node = "deciding"
      /\ calls = <<>> /\ did = <<>> /\ wrote = 0 /\ asking = FALSE /\ replayed = FALSE
  BY DEF Init
<1>2. /\ DOMAIN journal = {} /\ DOMAIN claims = {} /\ DOMAIN calls = {} /\ DOMAIN did = {}
      /\ DOMAIN code = 1 .. 1 /\ me = 1 /\ mine = 1
  BY <1>1, EmptyIs DEF me, mine
<1>3. TypeOK
  BY TypeInit
<1>4. JournalIs /\ ClaimsAre /\ OneDecision
  BY <1>2 DEF JournalIs, ClaimsAre, OneDecision
<1>5. CodeIs
  BY <1>1, <1>2 DEF CodeIs
<1>6. StagedAre /\ Chain
  BY <1>2 DEF StagedAre, Chain, Stagings
<1>7. CallsAre
  BY <1>2 DEF CallsAre
<1>8. NodeIs
  <2>1. Sound(did) /\ Follows(plan, did)
    BY <1>2 DEF Sound, Follows
  <2>2. ~EndsIn(did, "wait")
    BY <1>1 DEF EndsIn
  <2> QED
    BY <1>1, <2>1, <2>2 DEF NodeIs
<1>9. Own
  BY <1>2 DEF Own, Stagings, WritesSent
<1>10. Guided
  BY <1>2 DEF Guided
<1>11. KeptIs /\ Replaying /\ ServedNodeGoesOn
  BY <1>1 DEF KeptIs, Replaying, ServedNodeGoesOn
<1> QED
  BY <1>3, <1>4, <1>5, <1>6, <1>7, <1>8, <1>9, <1>10, <1>11 DEF IInv

LEMMA InvNext ==
  ASSUME IInv, Next
  PROVE  IInv'
<1>1. /\ TypeOK /\ JournalIs /\ CodeIs /\ StagedAre /\ ClaimsAre /\ Chain
      /\ CallsAre /\ NodeIs /\ Own /\ Guided /\ KeptIs /\ Replaying
      /\ OneDecision /\ ServedNodeGoesOn
  BY DEF IInv
<1>2. [Next]_vars
  OBVIOUS
<1>3. Keeps
  BY <1>1, <1>2, StepKeeps DEF Keeps
<1>4. (Same \/ Renews) /\ (journal' = journal \/ \E x \in Entries : Adds(x))
      /\ (claims' = claims \/ Dispatch)
  BY <1>3 DEF Keeps
<1>5. AStep
  BY <1>1, StepIs
<1>6. TypeOK'
  BY <1>1, <1>2, TypeNext
<1>7. JournalIs'
  BY <1>1, <1>4, JournalNext
<1>8. CodeIs'
  BY <1>1, <1>4, CodeGrows
<1>9. StagedAre'
  BY <1>1, <1>4, StagedNext
<1>10. ClaimsAre' /\ Chain' /\ OneDecision'
  BY <1>1, <1>3, ClaimsNext, ChainNext, OneNext
<1>11. CallsAre' /\ NodeIs'
  BY <1>1, <1>5, CallsNext, NodeNext
<1>12. Own'
  BY <1>1, <1>3, <1>5, OwnNext
<1>13. Guided'
  BY <1>1, <1>3, <1>5, GuidedNext
<1>14. KeptIs' /\ Replaying'
  BY <1>1, <1>3, <1>5, KeptNext, ReplayingNext
<1>15. ServedNodeGoesOn'
  BY <1>1, <1>3, <1>5, GoesOnNext
<1> QED
  BY <1>6, <1>7, <1>8, <1>9, <1>10, <1>11, <1>12, <1>13, <1>14, <1>15 DEF IInv

\* The invariant is of the variables alone, so a step that changes none keeps it.
LEMMA InvIdle ==
  ASSUME IInv, UNCHANGED vars
  PROVE  IInv'
<1>1. /\ TypeOK' /\ JournalIs' /\ CodeIs' /\ ClaimsAre' /\ OneDecision'
  BY DEF IInv, vars, run, TypeOK, JournalIs, CodeIs, ClaimsAre, OneDecision, mine, me
<1>2. StagedAre' /\ Chain'
  BY DEF IInv, vars, run, StagedAre, Chain, mine, me
<1>3. CallsAre'
  BY DEF IInv, vars, run, CallsAre, Live
<1>4. NodeIs'
  BY DEF IInv, vars, run, NodeIs, Live, Unfinished, Writes, Effect, mine, me
<1>5. Own'
  BY DEF IInv, vars, run, Own, Live, Outcomes, Unfinished, mine, me
<1>6. Guided'
  BY DEF IInv, vars, run, Guided, TheGuide, Guides, Lock, Live, Served, SameCode, TurnOf, mine, me
<1>7. Kept' = Kept
  BY KeptNow, KeptTurns DEF IInv, vars, run
<1>8. KeptIs' /\ Replaying'
  BY <1>7 DEF IInv, vars, run, KeptIs, Replaying, Lock, Live, Returns, me
<1>9. ServedNodeGoesOn'
  BY DEF IInv, vars, run, ServedNodeGoesOn, Live, SameCode, TurnOf, mine, me
<1> QED
  BY <1>1, <1>2, <1>3, <1>4, <1>5, <1>6, <1>8, <1>9 DEF IInv

\* Every state the attempts of a node, their crashes and resumes, and its replay
\* reach is one of the invariant.
THEOREM Invariance == Spec => []IInv
<1>1. Init => IInv
  BY InvInit
<1>2. IInv /\ [Next]_vars => IInv'
  BY InvNext, InvIdle
<1> QED
  BY <1>1, <1>2, PTL DEF Spec

LEMMA Reproduces ==
  ASSUME IInv
  PROVE  ReplayReproduces
<1> SUFFICES ASSUME replayed
             PROVE  /\ node \notin {"diverged", "halted"}
                    /\ IsPrefix(did, kept.did)
                    /\ node = "returned" => did = kept.did
  BY DEF ReplayReproduces
<1>1. PICK d, T : d = kept.did /\ T = Kept
  OBVIOUS
<1>2. /\ node \in {"deciding", "waiting", "returned"} /\ Len(did) <= Len(d) /\ Agree(did, d)
      /\ node = "returned" => Len(did) = Len(d)
  BY <1>1 DEF IInv, Replaying, Lock
<1>3. did \in Histories /\ d \in Histories
  BY <1>1 DEF IInv, TypeOK
<1>4. Upto(d, Len(did)) = did /\ Upto(did, Len(did)) = did
  BY <1>2, <1>3, Shorter, WholeOf
<1>5. IsPrefix(did, d)
  BY <1>2, <1>4 DEF IsPrefix, Upto
<1>6. node = "returned" => did = d
  BY <1>2, <1>3, SameHistory
<1> QED
  BY <1>1, <1>2, <1>5, <1>6

\* The journal, the claims, the code's decisions and the attempt's record of itself
\* keep their types.
THEOREM ServedTypes == Spec => []TypeOK
<1>1. IInv => TypeOK
  BY DEF IInv
<1> QED
  BY <1>1, Invariance, PTL

\* Two attempts of the same code that send their n-th write send the same write,
\* decided on the same history: what JournaledModel records, RecordedTurns.take
\* serves and _Pacer.due hands over is enough for an attempt that follows a crash,
\* a refused write or a halt to decide again what may have gone out.
THEOREM DecidedOnce == Spec => []OneDecision
<1>1. IInv => OneDecision
  BY DEF IInv
<1> QED
  BY <1>1, Invariance, PTL

\* The bound of _wait_out and _Pacer.due on waiting for a served turn never halts
\* code that is what it was when the turn was recorded.
THEOREM GoesOn == Spec => []ServedNodeGoesOn
<1>1. IInv => ServedNodeGoesOn
  BY DEF IInv
<1> QED
  BY <1>1, Invariance, PTL

\* A replay's node asks what the attempt that retired asked, is told the turns
\* ReplayModel kept of that attempt, in their order, and so does what it did, step
\* by step, to the same end; it neither diverges nor stops.
THEOREM Replayed == Spec => []ReplayReproduces
<1>1. IInv => ReplayReproduces
  BY Reproduces
<1> QED
  BY <1>1, Invariance, PTL

-----------------------------------------------------------------------------
(***************************************************************************)
(* The reads.                                                              *)
(***************************************************************************)
Reads == INSTANCE Reads

USE ReadsAssumption

(***************************************************************************)
(* The inductive invariant.                                                *)
(***************************************************************************)

\* A read is under way only for the call its task is at.
UnderWay == \A t \in Tasks : asked[t] # Reads!Nothing => Reads!AtCall(t, "read")

\* A read has a verdict exactly when it was checked and its re-check is over; a
\* re-check is under way only during a check.
HasVerdict ==
  /\ \A i \in 1 .. Len(reads) : found[i] # "none" <=> i <= checked /\ i \notin probes
  /\ probes # {} => Reads!Checking

\* Past a check, every read it or an earlier one covered was found to hold.
Passed ==
  pc \in {"drain", "sending", "again", "retired"} =>
    \A i \in 1 .. checked : found[i] \in Trusted

\* A write rests on reads that were made; one the scheduler has seen, on reads it
\* has checked or is checking.
RestsOn ==
  \A i \in 1 .. Len(staged) :
    /\ staged[i].on \subseteq 1 .. Len(reads)
    /\ staged[i].seen => staged[i].on \subseteq 1 .. checked

\* A body that waited for its tasks has none that runs, or waits.
Back ==
  body = "returned" => \A t \in Tasks : at[t] > Len(Script[t]) /\ ~Reads!Waits(t)

\* The scheduler acts on a node parked on a write it can send, or on one that has
\* returned: with every read checked, if it waited for what it began.
Ready ==
  /\ pc \in {"rest", "again"} /\ parked => Reads!Pending # {}
  /\ pc \in {"first", "later", "drain"} =>
       Reads!Pending # {} \/ (Reads!NodeDone /\ (Patient => checked = Len(reads)))

ReadsIInv ==
  /\ Reads!TypeOK
  /\ UnderWay
  /\ HasVerdict
  /\ Passed
  /\ RestsOn
  /\ Back
  /\ Ready
  /\ ActsOnCheckedReads

(***************************************************************************)
(* Sequences given as functions.                                           *)
(***************************************************************************)

LEMMA FunctionIsSequence ==
  ASSUME NEW S, NEW n \in Nat, NEW f \in [1 .. n -> S]
  PROVE  f \in Seq(S) /\ Len(f) = n
<1>1. f \in Seq(S)
  BY SeqDef
<1>2. /\ Len(f) \in Nat
      /\ DOMAIN f = 1 .. Len(f)
  BY <1>1, LenProperties
<1> QED
  BY <1>1, <1>2

LEMMA ReadsInitially == Reads!Init => ReadsIInv
<1> SUFFICES ASSUME Reads!Init PROVE ReadsIInv
  OBVIOUS
<1>1. /\ reads = <<>> /\ found = <<>> /\ staged = <<>>
      /\ Len(reads) = 0 /\ Len(staged) = 0
      /\ DOMAIN staged = {} /\ 1 .. 0 = {}
  BY DEF Reads!Init
<1>2. Reads!TypeOK
  <2>1. reads \in Seq(Reads!ReadRecords) /\ staged \in Seq(Reads!StagedWrites)
        /\ found \in Seq(Reads!Verdicts \cup {"none"})
    BY <1>1, EmptySeq
  <2>2. /\ version \in [Rows -> Nat] /\ changes \in 0 .. MaxChanges
        /\ at \in [Tasks -> Nat \ {0}] /\ asked \in [Tasks -> Nat \cup {Reads!Nothing, Reads!Called}]
        /\ body \in {"runs", "returned", "left"}
    BY DEF Reads!Init
  <2>3. /\ checked \in 0 .. Len(reads) /\ probes \subseteq 1 .. checked
        /\ Len(found) = Len(reads)
    BY <1>1 DEF Reads!Init
  <2>4. pc = "rest" /\ parked \in BOOLEAN
    BY DEF Reads!Init
  <2> QED
    BY <2>1, <2>2, <2>3, <2>4 DEF Reads!TypeOK
<1>3. UnderWay /\ HasVerdict /\ Passed /\ RestsOn /\ Back /\ Ready
  BY <1>1 DEF Reads!Init, UnderWay, HasVerdict, Passed, RestsOn, Back, Ready
<1>4. ActsOnCheckedReads
  BY <1>1 DEF Reads!Init, ActsOnCheckedReads, Gone
<1> QED
  BY <1>2, <1>3, <1>4 DEF ReadsIInv

(***************************************************************************)
(* The node's tasks.                                                       *)
(***************************************************************************)

\* A body with a task at a call has not waited for it.
LEMMA AtCallNotBack ==
  ASSUME Reads!TypeOK, Back, NEW t \in Tasks, NEW what, Reads!AtCall(t, what)
  PROVE  body # "returned" /\ Reads!Row(t) \in Rows
<1>1. /\ Script[t] \in Seq(ToolCalls) /\ Len(Script[t]) \in Nat
      /\ at[t] \in Nat \ {0} /\ at[t] <= Len(Script[t])
  BY DEF Reads!TypeOK, Reads!AtCall
<1>2. Script[t][at[t]] \in ToolCalls
  BY <1>1, ElementOfSeq
<1> QED
  BY <1>1, <1>2 DEF Back, Reads!Row, ToolCalls

\* Where a task is with its read tells the scheduler nothing.
LEMMA AskingStep ==
  ASSUME ReadsIInv, NEW t \in Tasks, Reads!CallsRead(t) \/ Reads!ReadUpstream(t)
  PROVE  ReadsIInv'
<1> DEFINE others == <<version, changes, at, body, reads, staged, parked, pc, checked, probes, found>>
<1>1. Reads!AtCall(t, "read") /\ UNCHANGED others
  BY DEF ReadsIInv, UnderWay, Reads!CallsRead, Reads!ReadUpstream, Reads!Nothing, Reads!Called, Reads!check
<1>2. Reads!Row(t) \in Rows
  BY <1>1, AtCallNotBack DEF ReadsIInv
<1>3. PICK v \in Nat \cup {Reads!Called} : asked' = [asked EXCEPT ![t] = v]
  BY <1>2 DEF ReadsIInv, Reads!TypeOK, Reads!CallsRead, Reads!ReadUpstream
<1> HIDE DEF others
<1>4. Reads!TypeOK'
  BY <1>1, <1>3 DEF ReadsIInv, Reads!TypeOK, others
<1>5. UnderWay'
  BY <1>1, <1>3 DEF ReadsIInv, Reads!TypeOK, UnderWay, Reads!AtCall, others
<1>6. HasVerdict' /\ Passed' /\ RestsOn' /\ Back'
  BY <1>1 DEF ReadsIInv, HasVerdict, Passed, RestsOn, Back, Reads!Waits, Reads!Awaits,
       Reads!Checking, Trusted, others
<1>7. Ready' /\ ActsOnCheckedReads'
  BY <1>1 DEF ReadsIInv, Ready, Reads!Pending, Reads!NodeDone, Patient, ActsOnCheckedReads, Gone,
       Trusts, Trusted, others
<1> QED
  BY <1>4, <1>5, <1>6, <1>7 DEF ReadsIInv

\* A read comes back: it is not checked yet, and nothing decided so far rests on
\* it.  The node has not returned, or has not waited for it.
LEMMA ReadReturnsStep ==
  ASSUME ReadsIInv, NEW t \in Tasks, Reads!ReadReturns(t)
  PROVE  ReadsIInv'
<1> DEFINE r == [task |-> t, row |-> Reads!Row(t), witness |-> asked[t]]
<1>1. /\ Reads!AtCall(t, "read") /\ body # "returned" /\ (Reads!NodeDone => ~Patient)
      /\ r \in Reads!ReadRecords
  <2>1. Reads!AtCall(t, "read")
    BY DEF ReadsIInv, UnderWay, Reads!ReadReturns
  <2>2. body # "returned" /\ Reads!Row(t) \in Rows
    BY <2>1, AtCallNotBack DEF ReadsIInv
  <2>3. Reads!NodeDone => ~Patient
    BY <2>2 DEF ReadsIInv, Reads!TypeOK, Reads!NodeDone, Patient
  <2>4. asked[t] \in Nat
    BY DEF ReadsIInv, Reads!TypeOK, Reads!ReadReturns
  <2> QED
    BY <2>1, <2>2, <2>3, <2>4 DEF Reads!ReadRecords
<1>2. /\ reads' = Append(reads, r) /\ reads' \in Seq(Reads!ReadRecords)
      /\ found' = Append(found, "none") /\ found' \in Seq(Reads!Verdicts \cup {"none"})
      /\ Len(reads') = Len(reads) + 1 /\ Len(found') = Len(reads) + 1
      /\ Len(reads) \in Nat /\ found'[Len(reads) + 1] = "none"
      /\ \A i \in 1 .. Len(reads) : found'[i] = found[i]
  BY <1>1 DEF ReadsIInv, Reads!TypeOK, Reads!ReadReturns
<1>3. Reads!TypeOK'
  BY <1>2 DEF ReadsIInv, Reads!TypeOK, Reads!ReadReturns, Reads!GoesOn, Reads!Ended
<1>4. UnderWay'
  BY DEF ReadsIInv, Reads!TypeOK, UnderWay, Reads!ReadReturns, Reads!GoesOn, Reads!AtCall
<1>5. HasVerdict'
  BY <1>2 DEF ReadsIInv, Reads!TypeOK, HasVerdict, Reads!ReadReturns, Reads!Checking
<1>6. Passed' /\ RestsOn'
  BY <1>2 DEF ReadsIInv, Reads!TypeOK, Reads!ReadReturns, Passed, RestsOn, Trusted
<1>7. Back' /\ Ready'
  BY <1>1 DEF ReadsIInv, Back, Ready, Reads!ReadReturns, Reads!Pending, Reads!NodeDone, Patient
<1>8. ActsOnCheckedReads'
  <2>1. Gone' = Gone /\ pc' = pc /\ pc # "retired" /\ staged' = staged
    BY DEF Reads!ReadReturns, Gone, Reads!Ended
  <2>2. \A i \in Gone : staged[i].on \subseteq 1 .. Len(reads)
    BY LenProperties DEF ReadsIInv, RestsOn, Reads!TypeOK, Gone
  <2> QED
    BY <1>2, <2>1, <2>2 DEF ReadsIInv, ActsOnCheckedReads, Trusts, Trusted
<1> QED
  BY <1>3, <1>4, <1>5, <1>6, <1>7, <1>8 DEF ReadsIInv

\* A write is staged: the scheduler has something to send, and has not seen it.
LEMMA StageStep ==
  ASSUME ReadsIInv, NEW t \in Tasks, Reads!Stage(t)
  PROVE  ReadsIInv'
<1> DEFINE w == [task |-> t, row |-> Reads!Row(t), status |-> "staged",
                 awaited |-> TRUE, seen |-> FALSE,
                 on |-> {i \in DOMAIN reads : reads[i].task = t}]
<1>1. body = "runs" /\ Reads!Row(t) \in Rows /\ Reads!AtCall(t, "write")
  BY AtCallNotBack DEF ReadsIInv, Reads!Stage, Reads!NodeDone
<1>2. w.on \subseteq 1 .. Len(reads) /\ w \in Reads!StagedWrites
  BY <1>1 DEF ReadsIInv, Reads!TypeOK, Reads!StagedWrites
<1>3. /\ staged' = Append(staged, w) /\ staged' \in Seq(Reads!StagedWrites)
      /\ Len(staged') = Len(staged) + 1 /\ Len(staged) \in Nat
      /\ staged'[Len(staged) + 1] = w
      /\ \A i \in 1 .. Len(staged) : staged'[i] = staged[i]
  BY <1>2 DEF ReadsIInv, Reads!TypeOK, Reads!Stage
<1>4. Reads!TypeOK'
  BY <1>3 DEF ReadsIInv, Reads!TypeOK, Reads!Stage, Reads!check, Reads!GoesOn, Reads!Ended
<1>5. UnderWay'
  BY <1>1 DEF ReadsIInv, Reads!TypeOK, UnderWay, Reads!Stage, Reads!GoesOn, Reads!AtCall
<1>6. HasVerdict' /\ Passed'
  BY DEF ReadsIInv, Reads!Stage, Reads!check, HasVerdict, Passed, Reads!Checking, Trusted
<1>7. RestsOn'
  BY <1>2, <1>3 DEF ReadsIInv, Reads!TypeOK, Reads!Stage, Reads!check, RestsOn
<1>8. Len(staged) + 1 \in Reads!Pending'
  BY <1>3 DEF ReadsIInv, Reads!TypeOK, Reads!Pending
<1>9. Ready' /\ Back'
  BY <1>1, <1>8 DEF Ready, Back, Reads!Stage
<1>10. Gone' = Gone /\ \A i \in Gone : i \in 1 .. Len(staged)
  BY <1>3 DEF ReadsIInv, Reads!TypeOK, Gone
<1>11. ActsOnCheckedReads'
  BY <1>3, <1>10 DEF ReadsIInv, Reads!Stage, Reads!check, Reads!Ended, ActsOnCheckedReads, Trusts,
       Trusted
<1> QED
  BY <1>4, <1>5, <1>6, <1>7, <1>9, <1>11 DEF ReadsIInv

\* Giving up on a write, a node waits for less.
LEMMA GivesUpStep ==
  ASSUME ReadsIInv, NEW t \in Tasks, Reads!GivesUp(t)
  PROVE  ReadsIInv'
<1> DEFINE m == Len(staged)
<1>1. PICK i \in DOMAIN staged : staged' = [staged EXCEPT ![i].awaited = FALSE]
  BY DEF Reads!GivesUp
<1>2. /\ m \in Nat /\ DOMAIN staged = 1 .. m /\ staged \in [1 .. m -> Reads!StagedWrites]
      /\ i \in 1 .. m
      /\ \A j \in 1 .. m : staged[j] \in Reads!StagedWrites
  BY <1>1, LenProperties DEF ReadsIInv, Reads!TypeOK
<1>3. /\ staged' \in [1 .. m -> Reads!StagedWrites]
      /\ \A j \in 1 .. m :
           /\ staged'[j].on = staged[j].on /\ staged'[j].seen = staged[j].seen
           /\ staged'[j].task = staged[j].task /\ staged'[j].status = staged[j].status
           /\ staged'[j].awaited => staged[j].awaited
  BY <1>1, <1>2 DEF Reads!StagedWrites
<1>4. staged' \in Seq(Reads!StagedWrites) /\ Len(staged') = m /\ DOMAIN staged' = 1 .. m
  BY <1>2, <1>3, FunctionIsSequence
<1>5. Reads!TypeOK'
  BY <1>4 DEF ReadsIInv, Reads!TypeOK, Reads!GivesUp, Reads!check
<1>6. UnderWay' /\ HasVerdict' /\ Passed'
  BY DEF ReadsIInv, Reads!GivesUp, Reads!check, UnderWay, Reads!AtCall, HasVerdict, Passed,
       Reads!Checking, Trusted
<1>7. RestsOn'
  BY <1>3, <1>4 DEF ReadsIInv, Reads!GivesUp, Reads!check, RestsOn
<1>8. Reads!Pending' = Reads!Pending /\ Gone' = Gone /\ \A j \in Gone : j \in 1 .. m
  BY <1>2, <1>3, <1>4 DEF Reads!Pending, Gone
<1>9. (Patient' => Patient) /\ \A q \in Tasks : Reads!Waits(q)' => Reads!Waits(q)
  BY <1>2, <1>3, <1>4 DEF Patient, Reads!Waits, Reads!Awaits, Reads!GivesUp
<1>10. Back' /\ Ready'
  BY <1>8, <1>9 DEF ReadsIInv, Back, Ready, Reads!NodeDone, Reads!GivesUp, Reads!check
<1>11. ActsOnCheckedReads'
  BY <1>3, <1>8 DEF ReadsIInv, Reads!GivesUp, Reads!check, Reads!Ended, ActsOnCheckedReads,
       Trusts, Trusted
<1> QED
  BY <1>5, <1>6, <1>7, <1>10, <1>11 DEF ReadsIInv

\* A body returns only where the scheduler has something left to send, or to check.
LEMMA ReturnsStep ==
  ASSUME ReadsIInv, Reads!Returns
  PROVE  ReadsIInv'
<1> DEFINE others == <<version, changes, at, asked, reads, staged, parked, pc, checked, probes, found>>
<1>1. body = "runs" /\ UNCHANGED others
  BY DEF Reads!Returns, Reads!NodeDone, Reads!check
<1>2. /\ body' \in {"returned", "left"}
      /\ body' = "returned" => \A t \in Tasks : at[t] > Len(Script[t]) /\ ~Reads!Waits(t)
  BY DEF Reads!Returns
<1>3. pc \notin {"refused", "retired"}
  BY DEF Reads!Returns, Reads!Ended
<1> HIDE DEF others
<1>4. Reads!TypeOK'
  BY <1>1, <1>2 DEF ReadsIInv, Reads!TypeOK, others
<1>5. UnderWay' /\ HasVerdict' /\ Passed' /\ RestsOn' /\ Back'
  BY <1>1, <1>2 DEF ReadsIInv, UnderWay, Reads!AtCall, HasVerdict, Passed, RestsOn, Back,
       Reads!Waits, Reads!Awaits, Reads!Checking, Trusted, others
<1>6. Ready' /\ ActsOnCheckedReads'
  BY <1>1, <1>3 DEF ReadsIInv, Ready, Reads!Pending, Reads!NodeDone, ActsOnCheckedReads, Gone,
       Trusts, Trusted, others
<1> QED
  BY <1>4, <1>5, <1>6 DEF ReadsIInv

LEMMA OthersChangeStep ==
  ASSUME ReadsIInv, NEW r \in Rows, Reads!OthersChange(r)
  PROVE  ReadsIInv'
<1>1. Reads!TypeOK'
  BY DEF ReadsIInv, Reads!TypeOK, Reads!OthersChange, Reads!node, Reads!check
<1>2. UnderWay' /\ HasVerdict' /\ Passed' /\ RestsOn' /\ Back'
  BY DEF ReadsIInv, Reads!OthersChange, Reads!node, Reads!check, UnderWay, Reads!AtCall,
       HasVerdict, Passed, RestsOn, Reads!Checking, Trusted, Back, Reads!Waits, Reads!Awaits
<1>3. Ready' /\ ActsOnCheckedReads'
  BY DEF ReadsIInv, Reads!OthersChange, Reads!node, Reads!check, Ready, Reads!Pending,
       Reads!NodeDone, Patient, ActsOnCheckedReads, Gone, Trusts, Trusted
<1> QED
  BY <1>1, <1>2, <1>3 DEF ReadsIInv

(***************************************************************************)
(* The checks.                                                             *)
(***************************************************************************)

\* Every read made so far is now checked or being checked, and every write staged
\* so far has been seen.
LEMMA AtRestStep ==
  ASSUME ReadsIInv, Reads!AtRest
  PROVE  ReadsIInv'
<1> DEFINE n == Len(reads)
           m == Len(staged)
           since == checked + 1 .. Len(reads)
<1>1. /\ n \in Nat /\ m \in Nat /\ checked \in Nat /\ checked <= n
      /\ found \in [1 .. n -> Reads!Verdicts \cup {"none"}] /\ DOMAIN found = 1 .. n
      /\ staged \in [1 .. m -> Reads!StagedWrites] /\ DOMAIN staged = 1 .. m
      /\ probes = {}
  BY LenProperties DEF ReadsIInv, Reads!TypeOK, HasVerdict, Reads!AtRest, Reads!Checking
<1>2. /\ found' \in [1 .. n -> Reads!Verdicts \cup {"none"}]
      /\ \A i \in 1 .. n :
           found'[i] = IF i \in since /\ ~Reads!ToProbe(i) THEN "unwitnessed" ELSE found[i]
  BY <1>1 DEF Reads!AtRest, Reads!Verdicts
<1>3. /\ staged' \in [1 .. m -> Reads!StagedWrites]
      /\ \A i \in 1 .. m :
           /\ staged'[i].status = staged[i].status /\ staged'[i].on = staged[i].on
           /\ staged'[i].task = staged[i].task /\ staged'[i].awaited = staged[i].awaited
           /\ staged'[i].seen = (staged[i].seen \/ staged[i].status = "staged")
  <2>1. \A i \in 1 .. m : staged[i] \in Reads!StagedWrites
    BY <1>1
  <2>2. staged' = [i \in 1 .. m |-> [staged[i] EXCEPT !.seen = @ \/ staged[i].status = "staged"]]
    BY <1>1 DEF Reads!AtRest
  <2> QED
    BY <2>1, <2>2 DEF Reads!StagedWrites
<1>4. /\ found' \in Seq(Reads!Verdicts \cup {"none"}) /\ Len(found') = n
      /\ staged' \in Seq(Reads!StagedWrites) /\ Len(staged') = m
      /\ DOMAIN staged' = 1 .. m
  BY <1>1, <1>2, <1>3, FunctionIsSequence
<1>5. Reads!TypeOK'
  BY <1>1, <1>4 DEF ReadsIInv, Reads!TypeOK, Reads!AtRest, Reads!Ended
<1>6. UnderWay'
  BY DEF ReadsIInv, Reads!AtRest, UnderWay, Reads!AtCall
<1>7. HasVerdict'
  BY <1>1, <1>2 DEF ReadsIInv, HasVerdict, Reads!AtRest, Reads!Checking
<1>8. Passed'
  BY DEF Passed, Reads!AtRest
<1>9. RestsOn'
  BY <1>1, <1>3, <1>4 DEF ReadsIInv, RestsOn, Reads!AtRest
<1>10. Reads!Pending' = Reads!Pending /\ Gone' = Gone /\ Back'
  <2>1. Reads!Pending' = Reads!Pending
    BY <1>1, <1>3, <1>4 DEF Reads!Pending
  <2>2. Gone' = Gone
    BY <1>1, <1>3, <1>4 DEF Gone
  <2>3. at' = at /\ body' = body /\ \A t \in Tasks : Reads!Waits(t)' => Reads!Waits(t)
    BY <1>1, <1>3, <1>4 DEF Reads!Waits, Reads!Awaits, Reads!AtRest
  <2> QED
    BY <2>1, <2>2, <2>3 DEF ReadsIInv, Back
<1>11. Ready'
  BY <1>10 DEF ReadsIInv, Ready, Reads!AtRest, Reads!NodeDone
<1>12. ActsOnCheckedReads'
  <2>1. \A i \in Gone : i \in 1 .. m /\ staged[i].status # "staged"
    BY <1>1 DEF Gone
  <2>2. ASSUME NEW i \in Gone, staged'[i].seen
        PROVE  staged[i].seen /\ Trusts(staged[i].on) /\ staged'[i].on = staged[i].on
    BY <1>3, <2>1, <2>2 DEF ReadsIInv, ActsOnCheckedReads
  <2>3. ASSUME NEW i \in Gone, staged[i].seen, NEW k \in staged[i].on
        PROVE  found'[k] = found[k]
    <3>1. k \in 1 .. checked
      BY <1>1, <2>1, <2>3 DEF ReadsIInv, RestsOn
    <3> QED
      BY <1>1, <1>2, <3>1
  <2>4. pc' # "retired"
    BY DEF Reads!AtRest
  <2> QED
    BY <1>10, <2>2, <2>3, <2>4 DEF ActsOnCheckedReads, Trusts, Trusted
<1> QED
  BY <1>5, <1>6, <1>7, <1>8, <1>9, <1>10, <1>11, <1>12 DEF ReadsIInv

\* A re-check ends: only a read that had no verdict gets one.
LEMMA ProbeStep ==
  ASSUME ReadsIInv, NEW i \in probes, Reads!Probe(i)
  PROVE  ReadsIInv'
<1>1. /\ Len(reads) \in Nat /\ checked \in Nat /\ checked <= Len(reads)
      /\ i \in 1 .. checked /\ i \in 1 .. Len(reads) /\ found[i] = "none"
      /\ found \in [1 .. Len(reads) -> Reads!Verdicts \cup {"none"}]
  BY LenProperties DEF ReadsIInv, Reads!TypeOK, HasVerdict
<1>2. PICK v \in {"fresh", "stale", "unreadable"} : found' = [found EXCEPT ![i] = v]
  BY DEF Reads!Probe
<1>3. /\ found' \in [1 .. Len(reads) -> Reads!Verdicts \cup {"none"}]
      /\ found'[i] # "none"
      /\ \A k \in 1 .. Len(reads) : k # i => found'[k] = found[k]
  BY <1>1, <1>2 DEF Reads!Verdicts
<1>4. found' \in Seq(Reads!Verdicts \cup {"none"}) /\ Len(found') = Len(reads)
  BY <1>1, <1>3, FunctionIsSequence
<1>5. Reads!TypeOK'
  BY <1>4 DEF ReadsIInv, Reads!TypeOK, Reads!Probe, Reads!node, Reads!Ended
<1>6. UnderWay'
  BY DEF ReadsIInv, Reads!Probe, Reads!node, UnderWay, Reads!AtCall
<1>7. HasVerdict'
  BY <1>1, <1>3 DEF ReadsIInv, HasVerdict, Reads!Probe, Reads!node, Reads!Checking
<1>8. Passed'
  BY DEF Passed, Reads!Probe, Reads!Checking
<1>9. RestsOn' /\ Back' /\ Ready'
  BY DEF ReadsIInv, Reads!Probe, Reads!node, RestsOn, Back, Ready, Reads!Pending,
       Reads!NodeDone, Reads!Waits, Reads!Awaits, Patient
<1>10. ActsOnCheckedReads'
  <2>1. Gone' = Gone /\ staged' = staged /\ pc' # "retired"
    BY DEF Reads!Probe, Reads!node, Gone, Reads!Checking
  <2>2. ASSUME NEW j \in Gone, staged[j].seen, NEW k \in staged[j].on
        PROVE  found'[k] \in Trusted
    <3>1. k \in 1 .. Len(reads)
      BY LenProperties DEF ReadsIInv, Reads!TypeOK, RestsOn, Gone
    <3>2. found[k] \in Trusted
      BY <2>2 DEF ReadsIInv, ActsOnCheckedReads, Trusts
    <3>3. k # i
      BY <1>1, <3>2 DEF Trusted
    <3> QED
      BY <1>3, <3>1, <3>2, <3>3
  <2> QED
    BY <2>1, <2>2 DEF ActsOnCheckedReads, Trusts, Trusted
<1> QED
  BY <1>5, <1>6, <1>7, <1>8, <1>9, <1>10 DEF ReadsIInv

\* What is discarded is not sent, and nothing follows.
LEMMA RefusedStep ==
  ASSUME ReadsIInv, Reads!Refused
  PROVE  ReadsIInv'
<1> DEFINE m == Len(staged)
<1>1. /\ m \in Nat /\ DOMAIN staged = 1 .. m /\ staged \in [1 .. m -> Reads!StagedWrites]
      /\ \A i \in 1 .. m : staged[i] \in Reads!StagedWrites
  BY LenProperties DEF ReadsIInv, Reads!TypeOK
<1>2. /\ staged' \in [1 .. m -> Reads!StagedWrites]
      /\ \A i \in 1 .. m :
           /\ staged'[i].on = staged[i].on /\ staged'[i].seen = staged[i].seen
           /\ staged'[i].task = staged[i].task /\ staged'[i].awaited = staged[i].awaited
           /\ staged'[i].status \in {"sent", "acked"} <=> staged[i].status \in {"sent", "acked"}
           /\ staged'[i].status = "acked" <=> staged[i].status = "acked"
  <2>1. staged' = [i \in 1 .. m |-> IF staged[i].status = "staged"
                                    THEN [staged[i] EXCEPT !.status = "discarded"]
                                    ELSE staged[i]]
    BY <1>1 DEF Reads!Refused, Reads!Pending
  <2> QED
    BY <1>1, <2>1 DEF Reads!StagedWrites
<1>3. /\ staged' \in Seq(Reads!StagedWrites) /\ Len(staged') = m /\ DOMAIN staged' = 1 .. m
  BY <1>1, <1>2, FunctionIsSequence
<1>4. Reads!TypeOK'
  BY <1>3 DEF ReadsIInv, Reads!TypeOK, Reads!Refused, Reads!check, Reads!Ended
<1>5. UnderWay'
  BY DEF ReadsIInv, Reads!Refused, UnderWay, Reads!AtCall
<1>6. HasVerdict' /\ Passed'
  BY DEF ReadsIInv, Reads!Refused, Reads!check, HasVerdict, Passed
<1>7. RestsOn'
  BY <1>2, <1>3 DEF ReadsIInv, Reads!Refused, Reads!check, RestsOn
<1>8. Back' /\ Ready'
  <2>1. \A t \in Tasks : Reads!Waits(t)' => Reads!Waits(t)
    BY <1>1, <1>2, <1>3 DEF Reads!Waits, Reads!Awaits
  <2> QED
    BY <2>1 DEF ReadsIInv, Back, Ready, Reads!Refused
<1>9. ActsOnCheckedReads'
  <2>1. Gone' = Gone /\ \A i \in Gone : i \in 1 .. m
    BY <1>1, <1>2, <1>3 DEF Gone
  <2> QED
    BY <1>2, <2>1 DEF ReadsIInv, Reads!Refused, Reads!check, ActsOnCheckedReads, Trusts, Trusted
<1> QED
  BY <1>4, <1>5, <1>6, <1>7, <1>8, <1>9 DEF ReadsIInv

\* The check is over and nothing is against going on: every read it covered holds.
LEMMA HoldsStep ==
  ASSUME ReadsIInv, OnStale = "squash", Reads!Holds
  PROVE  ReadsIInv'
<1>1. \A i \in 1 .. checked : found[i] \in Trusted
  <2> SUFFICES ASSUME NEW i \in 1 .. checked PROVE found[i] \in Trusted
    OBVIOUS
  <2>1. /\ i \in 1 .. Len(reads) /\ i \in DOMAIN found
        /\ found[i] \in Reads!Verdicts \cup {"none"}
    BY LenProperties DEF ReadsIInv, Reads!TypeOK
  <2>2. found[i] # "none"
    BY <2>1 DEF ReadsIInv, HasVerdict, Reads!Holds
  <2>3. found[i] # "stale" /\ (OnUnreadable = "squash" => found[i] # "unreadable")
    BY <2>1 DEF Reads!Holds, Reads!Refuse
  <2> QED
    BY <2>1, <2>2, <2>3 DEF Reads!Verdicts, Trusted
<1>2. Reads!TypeOK'
  BY DEF ReadsIInv, Reads!TypeOK, Reads!Holds, Reads!node, Reads!check
<1>3. UnderWay' /\ HasVerdict' /\ RestsOn' /\ Back'
  BY DEF ReadsIInv, Reads!Holds, Reads!node, Reads!check, UnderWay, Reads!AtCall, HasVerdict,
       RestsOn, Back, Reads!Waits, Reads!Awaits
<1>4. Passed'
  BY <1>1 DEF Reads!Holds, Reads!check, Passed, Trusted
<1>5. Ready' /\ ActsOnCheckedReads'
  BY DEF ReadsIInv, Reads!Holds, Reads!node, Reads!check, Ready, Reads!Checking,
       Reads!Pending, Reads!NodeDone, Patient, ActsOnCheckedReads, Gone, Trusts, Trusted
<1> QED
  BY <1>2, <1>3, <1>4, <1>5 DEF ReadsIInv

(***************************************************************************)
(* The drain.                                                              *)
(***************************************************************************)

\* What goes out now, if it was seen, rests on reads the last check covered.
LEMMA SendStep ==
  ASSUME ReadsIInv, Reads!Send
  PROVE  ReadsIInv'
<1>1. PICK i \in Reads!Pending : staged' = [staged EXCEPT ![i].status = "sent"]
  BY DEF Reads!Send
<1> DEFINE m == Len(staged)
<1>2. /\ m \in Nat /\ DOMAIN staged = 1 .. m /\ staged \in [1 .. m -> Reads!StagedWrites]
      /\ i \in 1 .. m /\ staged[i].status = "staged"
      /\ \A j \in 1 .. m : staged[j] \in Reads!StagedWrites
  BY LenProperties DEF ReadsIInv, Reads!TypeOK, Reads!Pending
<1>3. /\ staged' \in [1 .. m -> Reads!StagedWrites]
      /\ \A j \in 1 .. m : staged'[j].on = staged[j].on /\ staged'[j].seen = staged[j].seen
      /\ staged'[i].task = staged[i].task /\ staged'[i].awaited = staged[i].awaited
      /\ \A j \in 1 .. m : j # i => staged'[j] = staged[j]
  BY <1>1, <1>2 DEF Reads!StagedWrites
<1>4. staged' \in Seq(Reads!StagedWrites) /\ Len(staged') = m /\ DOMAIN staged' = 1 .. m
  BY <1>2, <1>3, FunctionIsSequence
<1>5. Reads!TypeOK'
  BY <1>4 DEF ReadsIInv, Reads!TypeOK, Reads!Send, Reads!check
<1>6. UnderWay'
  BY DEF ReadsIInv, Reads!Send, UnderWay, Reads!AtCall
<1>7. HasVerdict' /\ Passed'
  BY DEF ReadsIInv, Reads!Send, Reads!check, HasVerdict, Passed, Reads!Checking, Trusted
<1>8. RestsOn'
  BY <1>3, <1>4 DEF ReadsIInv, Reads!Send, Reads!check, RestsOn
<1>9. Back' /\ Ready'
  <2>1. \A t \in Tasks : Reads!Waits(t)' => Reads!Waits(t)
    BY <1>2, <1>3, <1>4 DEF Reads!Waits, Reads!Awaits
  <2> QED
    BY <2>1 DEF ReadsIInv, Back, Ready, Reads!Send
<1>10. ActsOnCheckedReads'
  <2> SUFFICES ASSUME NEW j \in Gone', staged'[j].seen PROVE Trusts(staged'[j].on)
    BY DEF ActsOnCheckedReads, Trusts, Trusted, Reads!Send, Reads!check
  <2>1. j \in 1 .. m
    BY <1>4 DEF Gone
  <2>2. CASE j = i
    BY <1>2, <1>3, <2>2 DEF ReadsIInv, RestsOn, Passed, Reads!Send, Reads!check, Trusts, Trusted
  <2>3. CASE j # i
    <3>1. j \in Gone /\ staged[j].seen
      BY <1>2, <1>3, <2>1, <2>3 DEF Gone
    <3> QED
      BY <1>3, <2>1, <3>1 DEF ReadsIInv, ActsOnCheckedReads, Reads!Send, Reads!check, Trusts,
           Trusted
  <2> QED
    BY <2>2, <2>3
<1> QED
  BY <1>5, <1>6, <1>7, <1>8, <1>9, <1>10 DEF ReadsIInv

\* A node that waits for its writes has not returned when one lands: its task waited.
LEMMA LandsStep ==
  ASSUME ReadsIInv, Reads!Lands
  PROVE  ReadsIInv'
<1>1. PICK i \in DOMAIN staged :
        /\ staged[i].status = "sent"
        /\ staged' = [staged EXCEPT ![i].status = "acked"]
        /\ version' = [version EXCEPT ![staged[i].row] = @ + 1]
  BY DEF Reads!Lands
<1> DEFINE m == Len(staged)
<1>2. /\ m \in Nat /\ DOMAIN staged = 1 .. m /\ staged \in [1 .. m -> Reads!StagedWrites]
      /\ i \in 1 .. m
      /\ \A j \in 1 .. m : staged[j] \in Reads!StagedWrites
  BY <1>1, LenProperties DEF ReadsIInv, Reads!TypeOK
<1>3. /\ staged' \in [1 .. m -> Reads!StagedWrites]
      /\ \A j \in 1 .. m :
           /\ staged'[j].on = staged[j].on /\ staged'[j].seen = staged[j].seen
           /\ staged'[j].task = staged[j].task /\ staged'[j].awaited = staged[j].awaited
           /\ staged'[j].status = "staged" <=> staged[j].status = "staged"
           /\ staged'[j].status \in {"sent", "acked"} <=> staged[j].status \in {"sent", "acked"}
           /\ staged[j].status = "acked" => staged'[j].status = "acked"
  BY <1>1, <1>2 DEF Reads!StagedWrites
<1>4. staged' \in Seq(Reads!StagedWrites) /\ Len(staged') = m /\ DOMAIN staged' = 1 .. m
  BY <1>2, <1>3, FunctionIsSequence
<1>5. Reads!Pending' = Reads!Pending /\ Gone' = Gone /\ \A j \in Gone : j \in 1 .. m
  BY <1>2, <1>3, <1>4 DEF Reads!Pending, Gone
<1>6. (Reads!NodeDone => ~Patient) /\ Patient' = Patient
  <2>1. Patient => body # "returned"
    <3>1. staged[i].task \in Tasks
      BY <1>2 DEF Reads!StagedWrites
    <3>2. Patient => Reads!Waits(staged[i].task)
      BY <1>1 DEF Patient, Reads!Waits, Reads!Awaits
    <3> QED
      BY <3>1, <3>2 DEF ReadsIInv, Back
  <2>2. Reads!NodeDone => ~Patient
    BY <2>1 DEF ReadsIInv, Reads!TypeOK, Reads!NodeDone, Patient
  <2>3. Patient' = Patient
    BY <1>2, <1>3, <1>4 DEF Patient, Reads!Lands
  <2> QED
    BY <2>2, <2>3
<1>7. \/ /\ Reads!Pending = {} /\ parked' = FALSE /\ pc' \in {"again", "retired"}
         /\ pc' = "retired" => Reads!NodeDone
      \/ Reads!Pending # {} /\ parked' = parked /\ pc' = "drain"
  BY DEF Reads!Lands, Reads!DrainOver, Reads!NodeIsDone
<1>8. Reads!TypeOK'
  <2>1. version' \in [Rows -> Nat]
    BY <1>1, <1>2 DEF ReadsIInv, Reads!TypeOK, Reads!StagedWrites
  <2>2. parked' \in BOOLEAN
    BY <1>7 DEF ReadsIInv, Reads!TypeOK
  <2>3. pc' \in {"again", "drain"} \cup Reads!Ended
    BY <1>7 DEF Reads!Ended
  <2> QED
    BY <1>4, <2>1, <2>2, <2>3 DEF ReadsIInv, Reads!TypeOK, Reads!Lands, Reads!check
<1>9. UnderWay'
  BY DEF ReadsIInv, Reads!Lands, UnderWay, Reads!AtCall
<1>10. HasVerdict' /\ Passed'
  BY <1>7 DEF ReadsIInv, Reads!Lands, Reads!check, HasVerdict, Passed, Reads!Checking, Trusted
<1>11. RestsOn'
  BY <1>3, <1>4 DEF ReadsIInv, Reads!Lands, Reads!check, RestsOn
<1>12. Back' /\ Ready'
  <2>1. \A t \in Tasks : Reads!Waits(t)' => Reads!Waits(t)
    BY <1>2, <1>3, <1>4 DEF Reads!Waits, Reads!Awaits
  <2> QED
    BY <1>5, <1>7, <2>1 DEF ReadsIInv, Back, Ready, Reads!Lands
<1>13. ActsOnCheckedReads'
  <2>1. found' = found /\ checked' = checked /\ pc = "sending"
    BY DEF Reads!Lands, Reads!check
  <2>2. (\A j \in Gone : staged[j].seen => Trusts(staged[j].on))'
    BY <1>3, <1>5, <2>1 DEF ReadsIInv, ActsOnCheckedReads, Trusts, Trusted
  <2>3. (pc = "retired" => Trusts(1 .. checked) /\ ~Patient)'
    BY <1>6, <1>7, <2>1 DEF ReadsIInv, Passed, Trusts, Trusted
  <2> QED
    BY <2>2, <2>3 DEF ActsOnCheckedReads
<1> QED
  BY <1>8, <1>9, <1>10, <1>11, <1>12, <1>13 DEF ReadsIInv

\* It retires: with every read it made checked, if it waited for what it began.
LEMMA NothingToSendStep ==
  ASSUME ReadsIInv, Reads!NothingToSend
  PROVE  ReadsIInv'
<1>1. /\ Reads!NodeDone /\ (Patient => checked = Len(reads))
      /\ parked' = FALSE /\ pc' = "retired" /\ pc = "drain"
  BY DEF ReadsIInv, Ready, Reads!NothingToSend, Reads!DrainOver, Reads!NodeIsDone
<1>2. Reads!TypeOK'
  BY <1>1 DEF ReadsIInv, Reads!TypeOK, Reads!NothingToSend, Reads!check, Reads!Ended
<1>3. UnderWay' /\ HasVerdict' /\ Passed' /\ RestsOn' /\ Back'
  BY <1>1 DEF ReadsIInv, Reads!NothingToSend, Reads!check, UnderWay, Reads!AtCall, HasVerdict,
       Passed, RestsOn, Reads!Checking, Trusted, Back, Reads!Waits, Reads!Awaits
<1>4. Ready'
  BY <1>1 DEF Ready
<1>5. ActsOnCheckedReads'
  <2>1. Patient => DOMAIN reads = 1 .. checked
    BY <1>1, LenProperties DEF ReadsIInv, Reads!TypeOK
  <2>2. Gone' = Gone /\ Patient' = Patient
    BY DEF Reads!NothingToSend, Gone, Patient
  <2>3. Trusts(1 .. checked)
    BY <1>1 DEF ReadsIInv, Passed, Trusts
  <2> QED
    BY <1>1, <2>1, <2>2, <2>3 DEF ReadsIInv, Reads!NothingToSend, Reads!check,
         ActsOnCheckedReads, Trusts, Trusted
<1> QED
  BY <1>2, <1>3, <1>4, <1>5 DEF ReadsIInv

(***************************************************************************)
(* The theorems.                                                           *)
(***************************************************************************)

LEMMA ReadsStep ==
  ASSUME OnStale = "squash"
  PROVE  ReadsIInv /\ [Reads!Next]_(Reads!vars) => ReadsIInv'
<1> SUFFICES ASSUME ReadsIInv, [Reads!Next]_(Reads!vars) PROVE ReadsIInv'
  OBVIOUS
<1>1. ASSUME NEW t \in Tasks,
             \/ Reads!CallsRead(t) \/ Reads!ReadUpstream(t) \/ Reads!ReadReturns(t)
             \/ Reads!Stage(t) \/ Reads!GivesUp(t)
      PROVE  ReadsIInv'
  BY <1>1, AskingStep, ReadReturnsStep, StageStep, GivesUpStep
<1>2. ASSUME NEW r \in Rows, Reads!OthersChange(r) PROVE ReadsIInv'
  BY <1>2, OthersChangeStep
<1>3. CASE Reads!AtRest
  BY <1>3, AtRestStep
<1>4. ASSUME NEW i \in probes, Reads!Probe(i) PROVE ReadsIInv'
  BY <1>4, ProbeStep
<1>5. CASE Reads!Refused \/ Reads!Holds
  BY <1>5, RefusedStep, HoldsStep
<1>6. CASE Reads!Send \/ Reads!Lands \/ Reads!NothingToSend
  BY <1>6, SendStep, LandsStep, NothingToSendStep
<1>7. CASE Reads!Returns
  BY <1>7, ReturnsStep
<1>8. CASE UNCHANGED Reads!vars
  BY <1>8 DEF ReadsIInv, Reads!vars, Reads!node, Reads!check, Reads!TypeOK, UnderWay,
     Reads!AtCall, HasVerdict, Reads!Checking, Passed, Trusted, RestsOn, Ready,
     Reads!Pending, Reads!NodeDone, Patient, Back, Reads!Waits, Reads!Awaits,
     ActsOnCheckedReads, Gone, Trusts
<1> QED
  BY <1>1, <1>2, <1>3, <1>4, <1>5, <1>6, <1>7, <1>8 DEF Reads!Next

\* Every state a node's tasks, the checks of its reads and its drains reach is one of the
\* invariant.
THEOREM ReadsInvariance ==
  ASSUME OnStale = "squash"
  PROVE  Reads!Spec => []ReadsIInv
<1> QED
  BY ReadsInitially, ReadsStep, PTL DEF Reads!Spec

\* Reads, verdicts, staged writes and the scheduler's control points keep their
\* types, and a re-check is under way only for a read the scheduler counts as
\* checked.
THEOREM ReadsTypes ==
  ASSUME OnStale = "squash"
  PROVE  Reads!Spec => []Reads!TypeOK
<1>1. ReadsIInv => Reads!TypeOK
  BY DEF ReadsIInv
<1> QED
  BY <1>1, ReadsInvariance, PTL

\* A write the scheduler had when it last checked goes out only on reads a check
\* found to hold; no node retires on a read its last check found not to hold, nor, if
\* it waits for its writes and its tasks, on one that was not checked: _retire,
\* _recheck_reads and _drain_until_done of scheduler.py, whatever the node's tasks,
\* the rows and their other writers do meanwhile.
THEOREM ActsOnWhatWasChecked ==
  ASSUME OnStale = "squash"
  PROVE  Reads!Spec => []ActsOnCheckedReads
<1>1. ReadsIInv => ActsOnCheckedReads
  BY DEF ReadsIInv
<1> QED
  BY <1>1, ReadsInvariance, PTL
=============================================================================
