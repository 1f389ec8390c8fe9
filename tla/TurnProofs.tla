----------------------------- MODULE TurnProofs -----------------------------
(***************************************************************************)
(* A turn of any reply, any registry of tools and any guesses: nothing     *)
(* undecided is sent, what is sent is sent in program order, nothing       *)
(* staged is lost, the positions a turn took do not tell when it ended,    *)
(* and what the world sees is a turn that does not speculate.              *)
(***************************************************************************)
EXTENDS Turn, SequenceTheorems, WellFoundedInduction, NaturalsInduction, TLAPS

(***************************************************************************)
(* The inductive invariant.                                                *)
(***************************************************************************)

Streaming == {"stream", "missed", "confirm", "predict", "fork", "cut"}
Settling == {"settle", "adopt", "slot", "request", "read", "stage", "ack"}
Passed == Settling \cup {"ended", "stopping", "stopped", "done"}

\* What each task has in the journal's queue, if it has anything there: two entries
\* of one lane are never there at once.
Ends == {"discard", "resolve"}
SameLane(i, j) ==
  /\ i.by = j.by
  /\ i.what \in Ends <=> j.what \in Ends
  /\ i.by = "guess" => i.of = j.of

\* Why an entry is in the queue.  An adoption or a request may outlive what it was
\* handed over for, and so may a guess's; every other is waited for.
DueOfTurn(j) ==
  \/ j.what \in {"confirm", "fork"} /\ pc = j.what /\ j.of = got + 1
  \/ j.what = "answered" /\ pc = "answered" /\ j.of = 0
  \/ j.what = "failed" /\ pc = "failing" /\ j.of = 0
  \/ /\ j.what \in {"adopt", "request", "stage"}
     /\ pc \in {j.what, "stopping", "stopped", "failed"} /\ j.of = at
DueOfDrop(j) ==
  j.what \in Ends /\ j.of \in dropping[j.by] /\ guess[j.of] = "dropped"
DueOfRun(j) ==
  /\ j.what = run
  /\ \/ run \in {"claim", "settle"} /\ j.of = sending
     \/ run \in {"confirm", "retire"} /\ j.of = 0
DueOfNode(j) == j.what = node /\ node \in {"request", "stage"} /\ j.of = 0
Due(j) ==
  \/ j.by = "turn" /\ (DueOfTurn(j) \/ DueOfDrop(j))
  \/ j.by = "node" /\ (DueOfDrop(j) \/ DueOfNode(j))
  \/ /\ j.by = "squash" /\ j.what \in Ends /\ j.of = squashing /\ squashing # 0
     /\ j.what = "resolve" => task[j.of] = "gone"
  \/ /\ j.by = "guess" /\ j.what \in {"request", "stage"}
     /\ j.of \in Guesses /\ task[j.of] \in {j.what, "gone"}
  \/ j.by = "own" /\ j.what = own /\ own # "done" /\ j.of = 0
  \/ j.by = "run" /\ DueOfRun(j)

Queued(q, due) ==
  /\ q \in Seq(Jobs)
  /\ \A i \in DOMAIN q : q[i] \in due
  /\ \A i, j \in DOMAIN q : SameLane(q[i], q[j]) => i = j
DueJobs == {j \in Jobs : Due(j)}
EntriesAreDue == Queued(queue, DueJobs)

\* An entry handed over before any of some others is written before them: the
\* node's own before all, a guess's request before the reply.
Ahead(q, a, rest) ==
  \E i \in DOMAIN q : q[i] = a /\ \A j \in DOMAIN q : q[j] \in rest => i < j
RunJobs == {j \in Jobs : j.by = "run"}
Answer == Job("turn", "answered", 0)
InTurn ==
  /\ own = "request" => queue # <<>> /\ Head(queue) = Job("own", "request", 0)
  /\ own = "stage" => Ahead(queue, Job("own", "stage", 0), RunJobs)
  /\ \A k \in Guesses : task[k] = "request" => Ahead(queue, Job("guess", "request", k), {Answer})

OwnFirst ==
  /\ own = "request" =>
       /\ list = {} /\ turn = "none" /\ ~parked /\ ~confirmed
       /\ run \in {"quiesce", "confirm"} /\ (run = "confirm" => node = "done")
  /\ own = "stage" => Own \in list \ settled /\ (run \in {"send", "settle"} => sending # Own)

\* Where the turn, the node and the scheduler may be at once.
Phases ==
  /\ over => run = "retired"
  /\ run \in {"retire", "retired"} => node = "done" /\ list = settled
  /\ pc \in {"fork", "confirm", "adopt"} => node \in {"turn", "leaving"}
  /\ node \in {"request", "stage", "ack"} => ~UnderWay /\ turn # "none"
  /\ pc \in {"missed", "confirm"} => got < Asked
  /\ pc \in {"predict", "fork", "cut"} => got > 0
  /\ pc \in Passed \cup {"answered"} => got = Asked /\ answered
  /\ pc \in Streaming \cup {"answered"} => turn = "none"
  /\ pc \in Passed => turn = "answered" \/ (over /\ pc \in {"settle", "stopping", "stopped"})
  /\ pc = "failing" => turn # "failed"
  /\ pc \in {"cleaning", "dropping"} => turn = "failed" \/ over
  /\ pc = "failed" => turn # "none" \/ over
  /\ pc \in Settling \ {"settle"} => at <= Asked

\* Confirmed guesses being discarded: once the node is done with them, all are.
Discarding ==
  /\ dropping["turn"] # {} => pc \in {"dropping", "stopped"}
  /\ dropping["node"] # {} => node = "dropping"
  /\ \A w \in {"turn", "node"} : \A k \in dropping[w] : guess[k] \in {"confirmed", "dropped"}
  /\ node \in {"dropping", "done"} => Kept = {}

\* One guess at a time is open, and it is the next block's.
GuessOf(k) ==
  /\ guess[k] \in {"none", "forking"} => task[k] = "none" /\ ~held[k]
  /\ k > got + 1 \/ (k = got + 1 /\ pc = "predict") => guess[k] = "none"
  /\ guess[k] = "open" =>
       k = got + 1 /\ pc \in {"stream", "answered", "failing"} /\ node \in {"turn", "leaving"}
  /\ guess[k] \in {"confirmed", "adopted"} => Right(k)
  /\ guess[k] = "adopted" => turn = "answered" /\ pc \in Passed \cup {"failed"}
  /\ held[k] => guess[k] \in {"open", "confirmed"} /\ ~IsRead(guessed[k])
  /\ Right(k) => k \in Blocks \ Dependent
  /\ guessed[k] \in {Own, k, Wrong(k), Stray(k)}
Guessing ==
  /\ squashing # 0 =>
       /\ Open = {}
       /\ pc \in {"missed", "cut", "ended", "cleaning"} \/ (node = "squashing" /\ pc # "fork")
  /\ pc = "fork" => got + 1 \in Guesses /\ guess[got + 1] = "forking"
  /\ \A k \in Guesses : GuessOf(k)

\* Where a guess's call is: its write is on its own branch until it is adopted.
Tasks ==
  \A k \in Guesses :
    /\ task[k] = "request" => turn # "answered" /\ ~held[k]
    /\ task[k] = "read" => IsRead(guessed[k])
    /\ task[k] \in {"stage", "ack"} =>
         held[k] \/ Closed(k) \/ (guess[k] = "adopted" /\ k \in list)
    /\ task[k] = "done" => IsRead(guessed[k]) \/ k \in settled

\* The calls of the reply are made one after another, and only once it is decided.
Undecided == at = 1 /\ list \cap Blocks = {}
Progress ==
  /\ Undecided \/ (turn = "answered" /\ pc \in Passed \cup {"failed"})
  /\ \A k \in list \cap Blocks :
       /\ k \notin Reads /\ k <= at
       /\ k = at => pc \in {"slot", "stage", "ack", "stopping", "stopped", "failed"}
  /\ \A k \in Blocks \ Reads : k < at => k \in settled
  /\ pc \in {"stage", "ack"} => at \in list
  /\ pc = "adopt" => at \in Kept /\ held[at]
  /\ pc = "slot" => at \in Reads \ Dependent \/ (at \in Guesses /\ guess[at] = "adopted")
  /\ pc = "read" => at \in Reads

LaterLast ==
  /\ node \in {"stage", "ack"} => Later \in list
  /\ Later \in list =>
       /\ node \in {"stage", "ack"} \/ Returned
       /\ ~UnderWay /\ turn # "none"
       /\ cursor = Base + Asked + 1 \/ (cursor = Base + 1 /\ Undecided)

\* The positions taken: one a block while the turn may still end well, and all or
\* none of them once it has ended or its node has returned.
OfNode == IF node = "turn" THEN 0 ELSE 1
Places ==
  /\ ~Returned =>
       /\ pc \in Streaming \cup Passed \cup {"answered", "failing"} => cursor = Base + got + OfNode
       /\ pc \in {"cleaning", "dropping"} => cursor = Base
       /\ pc = "failed" => \/ cursor = Base + OfNode /\ Undecided
                           \/ cursor = Base + Asked + OfNode /\ answered
  /\ Returned =>
       \E taken \in {0, Asked} :
         /\ cursor = Base + taken + (IF Later \in list THEN 1 ELSE 0)
         /\ taken > 0 => answered
         /\ pc = "done" => taken = Asked

\* The branch's writes are sent in program order, and what is staged comes after all
\* that was sent.
Sent == settled \cup {c \in {sending} : run = "settle"}
Draining ==
  /\ run \in {"claim", "send", "settle"} => sending \in list \ settled
  /\ run \in {"claim", "send"} => \A d \in list \ settled : sending <= d
  /\ \A c \in Sent, d \in list \ Sent : c < d

InWorld == {world[i] : i \in DOMAIN world}
Free == (Reads \ TrulyDependent) \cup Strays
Upstream ==
  /\ InWorld \subseteq (Own .. Later) \cup Strays
  /\ InWorld \ Free = Sent \cup {k \in TrulyDependent : k < at}
  /\ \A i, j \in DOMAIN world :
       i < j /\ OrderMatters(world[i]) /\ OrderMatters(world[j]) => world[i] < world[j]

\* A wrong guess's call goes on no longer than its squash, and that begins - and is
\* over - before anything the turn decided is staged: a read it makes comes before
\* all of that.
Calling == Settling \ {"settle"}
Straying == squashing # 0 \/ Open # {}
StrayCall(k) ==
  /\ guess[k] = "dropped" => Right(k)
  /\ guess[k] = "squashed" /\ task[k] \notin {"none", "gone"} => squashing = k
Astray ==
  /\ Straying => pc \notin Calling /\ Undecided /\ Later \notin list
  /\ squashing # 0 => guess[squashing] = "squashed"
  /\ \A k \in Guesses : StrayCall(k)
  /\ \A i \in DOMAIN world : world[i] \in Strays =>
       \A j \in 1 .. i - 1 : world[j] \notin Decided \cup {Later}

TurnInv ==
  /\ TypeOK /\ EntriesAreDue /\ InTurn /\ OwnFirst /\ Phases /\ Discarding /\ Guessing
  /\ Tasks /\ Progress /\ LaterLast /\ Places /\ Draining /\ Upstream /\ Astray

(***************************************************************************)
(* Lemmas about the constants, the hazards and the queue.                  *)
(***************************************************************************)

LEMMA Numbers ==
  /\ Asked \in Nat /\ Later = Asked + 1 /\ Own = 0 /\ Base = 1
  /\ Blocks = 1 .. Asked /\ Guesses = 2 .. Asked + 1 /\ Reads \subseteq Blocks
  /\ Dependent \subseteq Reads /\ TrulyDependent \subseteq Reads
  /\ Own \in Calls /\ Later \in Calls /\ Blocks \subseteq Calls /\ Guesses \subseteq Calls
  /\ Own .. Later \subseteq Calls /\ Calls \subseteq Int
<1>1. Asked \in Nat
  BY TurnAssumption
<1>2. Calls = -(Asked + 1) .. (Asked + 1) + (Asked + 1)
  BY <1>1 DEF Calls, Own, Wrong, Stray, Later
<1> QED
  BY <1>1, <1>2 DEF Later, Own, Base, Blocks, Guesses, Reads, Dependent, TrulyDependent

\* What is guessed wrong is none of the turn's own calls.
LEMMA WrongGuesses ==
  /\ \A k \in Guesses : /\ Wrong(k) = Later + k /\ Stray(k) = -k
                       /\ Wrong(k) \in Calls /\ Stray(k) \in Calls /\ Stray(k) \in Strays
                       /\ Wrong(k) > Later /\ Wrong(k) \notin Strays
  /\ Strays \subseteq Calls
  /\ \A c \in Strays : c < Own /\ c \notin Own .. Later /\ c \notin Blocks
<1>1. Calls = -(Asked + 1) .. (Asked + 1) + (Asked + 1)
  BY Numbers DEF Calls, Own, Wrong, Stray, Later
<1>2. \A k \in Guesses : Wrong(k) = Later + k /\ Stray(k) = -k
  BY Numbers DEF Wrong, Stray
<1>3. Strays = {-k : k \in Guesses}
  BY <1>2 DEF Strays
<1> QED
  BY <1>1, <1>2, <1>3, Numbers

\* The first of the hazards that applies is none only when no other does.
LEMMA NoneIsLast ==
  ASSUME NEW h, DOMAIN h = 1 .. 7, h[7][1] = TRUE, \A i \in 1 .. 6 : h[i][2] # "none",
         h[CHOOSE i \in DOMAIN h : h[i][1] /\ \A j \in 1 .. i - 1 : ~h[j][1]][2] = "none"
  PROVE  ~h[5][1]
<1> DEFINE first == CHOOSE i \in DOMAIN h : h[i][1] /\ \A j \in 1 .. i - 1 : ~h[j][1]
<1>1. \E i \in DOMAIN h : h[i][1] /\ \A j \in 1 .. i - 1 : ~h[j][1]
  OBVIOUS
<1>2. first \in DOMAIN h /\ \A j \in 1 .. first - 1 : ~h[j][1]
  BY <1>1
<1>3. h[first][2] = "none"
  OBVIOUS
<1> HIDE DEF first
<1>4. first = 7
  BY <1>2, <1>3
<1> QED
  BY <1>2, <1>4

\* A read that a pending write may change is never guessed at.
LEMMA GuessableIsIndependent ==
  ASSUME NEW k \in Blocks, Hazard(Reply[k], k - 1) = "none"
  PROVE  k \notin Dependent
<1> DEFINE call == Reply[k]
           spec == Declared(call)
           h ==
             <<<<spec.synthesised, "UNDECLARED_TOOL">>,
               <<HasHandle(call.args), "RETURN_VALUE_DEPENDENCY">>,
               <<Child.speculative /\ spec.effect = "irreversible" /\ ~Policy.stageIrreversible,
                 "IRREVERSIBLE_ON_PATH">>,
               <<Child.speculative /\ Child.predicted /\ Mutates(spec.effect) /\ ~Policy.speculateWrites,
                 "WRITE_ON_PATH">>,
               <<ReadsBehind(spec, call.args, PendingWriteKeys(k - 1)), "READ_AFTER_STAGED_WRITE">>,
               <<Child.speculative /\ (Child.depth >= Policy.maxDepth \/ Child.inflight >= Policy.maxInflight),
                 "BUDGET">>,
               <<TRUE, "none">>>>
<1>1. h[CHOOSE i \in DOMAIN h : h[i][1] /\ \A j \in 1 .. i - 1 : ~h[j][1]][2] = "none"
  BY DEF Hazard, Analyse
<1>2. DOMAIN h = 1 .. 7
  OBVIOUS
<1>3. h[7][1] = TRUE
  OBVIOUS
<1>4. \A i \in 1 .. 6 : h[i][2] # "none"
  OBVIOUS
<1>5. h[5][1] <=> ReadsBehind(spec, call.args, PendingWriteKeys(k - 1))
  OBVIOUS
<1> HIDE DEF h
<1>6. ~h[5][1]
  BY <1>1, <1>2, <1>3, <1>4, NoneIsLast
<1> QED
  BY <1>5, <1>6 DEF Dependent, ReadsAPendingWrite

\* What a read truly depends on is declared, or the declaration names nothing.
LEMMA TrulyDependentIsDependent == TrulyDependent \subseteq Dependent
<1> SUFFICES ASSUME NEW k \in TrulyDependent
             PROVE  k \in Dependent
  OBVIOUS
<1>1. k \in Reads /\ k \in Blocks
  BY DEF TrulyDependent, Reads
<1>2. PICK j \in (1 .. k - 1) \ Reads : Touches[j] \cap Touches[k] # {}
  BY DEF TrulyDependent
<1>3. j \in Blocks
  BY <1>1, <1>2, Numbers
<1>4. KeysConflict(DeclaredKeys(k), DeclaredKeys(j))
  BY <1>1, <1>2, <1>3, TurnAssumption DEF KeysConflict
<1>5. DeclaredKeys(j) \in PendingWriteKeys(k - 1)
  BY <1>2 DEF PendingWriteKeys
<1>6. ~Mutates(Declared(Reply[k]).effect)
  BY <1>1 DEF Reads
<1> QED
  BY <1>1, <1>4, <1>5, <1>6 DEF Dependent, ReadsAPendingWrite, ReadsBehind, DeclaredKeys

LEMMA LeastExists ==
  ASSUME NEW T \in SUBSET Nat, T # {}
  PROVE  Least(T) \in T
<1> DEFINE R == {p \in Nat \X Nat : p[1] < p[2]}
<1>1. IsWellFoundedOn(R, Nat)
  BY NatLessThanWellFounded DEF OpToRel
<1>2. PICK x \in T : \A y \in T : ~(<<y, x>> \in R)
  BY <1>1, WFMin
<1>3. ASSUME NEW y \in T, y < x
      PROVE  FALSE
  <2>1. <<y, x>> \in Nat \X Nat /\ <<y, x>>[1] = y /\ <<y, x>>[2] = x
    OBVIOUS
  <2>2. <<y, x>> \in R
    BY <1>3, <2>1
  <2> QED
    BY <1>2, <2>2
<1>4. \A y \in T : x <= y
  BY <1>3
<1> QED
  BY <1>4 DEF Least

\* The program order of the calls is the order of their numbers.
LEMMA PositionOf ==
  /\ Position(Own) = Base
  /\ \A k \in Blocks : Position(k) = Base + k
  /\ Position(Later) = cursor
BY Numbers DEF Position

LEMMA QueueStays ==
  ASSUME NEW q, NEW due, NEW now, Queued(q, due), \A e \in due : e \in now
  PROVE  Queued(q, now)
BY DEF Queued

LEMMA QueueGrows ==
  ASSUME NEW q, NEW due, NEW now, NEW j \in Jobs, Queued(q, due), j \in now,
         \A e \in due : e \in now /\ ~SameLane(e, j)
  PROVE  Queued(Append(q, j), now)
<1>1. q \in Seq(Jobs)
  BY DEF Queued
<1>2. /\ Append(q, j) \in Seq(Jobs) /\ DOMAIN Append(q, j) = 1 .. Len(q) + 1
      /\ DOMAIN q = 1 .. Len(q) /\ Len(q) \in Nat
      /\ \A i \in 1 .. Len(q) : Append(q, j)[i] = q[i]
      /\ Append(q, j)[Len(q) + 1] = j
  BY <1>1
<1>3. \A i \in 1 .. Len(q) : ~SameLane(q[i], j) /\ ~SameLane(j, q[i])
  BY <1>2 DEF Queued, SameLane
<1> QED
  BY <1>2, <1>3 DEF Queued

LEMMA QueueShrinks ==
  ASSUME NEW q, NEW due, NEW now, Queued(q, due), q # <<>>,
         \A e \in due : ~SameLane(e, Head(q)) => e \in now
  PROVE  Queued(Tail(q), now)
<1>1. q \in Seq(Jobs)
  BY DEF Queued
<1>2. /\ Tail(q) \in Seq(Jobs) /\ DOMAIN Tail(q) = 1 .. Len(q) - 1
      /\ DOMAIN q = 1 .. Len(q) /\ Len(q) \in Nat /\ Len(q) > 0 /\ Head(q) = q[1]
      /\ \A i \in 1 .. Len(q) - 1 : Tail(q)[i] = q[i + 1]
  BY <1>1
<1>3. \A i \in 1 .. Len(q) - 1 : ~SameLane(q[i + 1], Head(q))
  BY <1>2 DEF Queued
<1>4. \A i \in 1 .. Len(q) - 1 : Tail(q)[i] \in now
  BY <1>2, <1>3 DEF Queued
<1>5. ASSUME NEW i \in 1 .. Len(q) - 1, NEW j \in 1 .. Len(q) - 1, SameLane(Tail(q)[i], Tail(q)[j])
      PROVE  i = j
  BY <1>2, <1>5 DEF Queued
<1> QED
  BY <1>2, <1>4, <1>5 DEF Queued

LEMMA QueueMoves ==
  ASSUME NEW q, NEW due, NEW now, NEW j \in Jobs, Queued(q, due), q # <<>>, j \in now,
         \A e \in due : ~SameLane(e, Head(q)) => e \in now /\ ~SameLane(e, j)
  PROVE  Queued(Append(Tail(q), j), now)
<1> DEFINE left == {e \in due : ~SameLane(e, Head(q))}
<1>1. Queued(Tail(q), left)
  BY QueueShrinks
<1> QED
  BY <1>1, QueueGrows

LEMMA AheadGrows ==
  ASSUME NEW q \in Seq(Jobs), NEW a, NEW rest, NEW x, Ahead(q, a, rest)
  PROVE  Ahead(Append(q, x), a, rest)
<1>1. PICK i \in DOMAIN q : q[i] = a /\ \A j \in DOMAIN q : q[j] \in rest => i < j
  BY DEF Ahead
<1>2. /\ DOMAIN Append(q, x) = 1 .. Len(q) + 1 /\ DOMAIN q = 1 .. Len(q) /\ Len(q) \in Nat
      /\ \A j \in 1 .. Len(q) : Append(q, x)[j] = q[j]
  OBVIOUS
<1>3. \A j \in 1 .. Len(q) + 1 : Append(q, x)[j] \in rest => i < j
  BY <1>1, <1>2
<1> QED
  BY <1>1, <1>2, <1>3 DEF Ahead

LEMMA AheadShrinks ==
  ASSUME NEW q \in Seq(Jobs), NEW a, NEW rest, q # <<>>, Head(q) # a, Ahead(q, a, rest)
  PROVE  Ahead(Tail(q), a, rest)
<1>1. PICK i \in DOMAIN q : q[i] = a /\ \A j \in DOMAIN q : q[j] \in rest => i < j
  BY DEF Ahead
<1>2. /\ DOMAIN Tail(q) = 1 .. Len(q) - 1 /\ DOMAIN q = 1 .. Len(q) /\ Len(q) \in Nat
      /\ Head(q) = q[1] /\ \A j \in 1 .. Len(q) - 1 : Tail(q)[j] = q[j + 1]
  OBVIOUS
<1>3. i - 1 \in DOMAIN Tail(q) /\ Tail(q)[i - 1] = a
  BY <1>1, <1>2
<1>4. \A j \in 1 .. Len(q) - 1 : Tail(q)[j] \in rest => i - 1 < j
  BY <1>1, <1>2
<1> QED
  BY <1>2, <1>3, <1>4 DEF Ahead

\* Handed over last, with none of the rest in the queue.
LEMMA AheadStarts ==
  ASSUME NEW q \in Seq(Jobs), NEW a, NEW rest, a \notin rest, \A i \in DOMAIN q : q[i] \notin rest
  PROVE  Ahead(Append(q, a), a, rest)
<1>1. /\ DOMAIN Append(q, a) = 1 .. Len(q) + 1 /\ DOMAIN q = 1 .. Len(q) /\ Len(q) \in Nat
      /\ \A j \in 1 .. Len(q) : Append(q, a)[j] = q[j]
      /\ Append(q, a)[Len(q) + 1] = a
  OBVIOUS
<1>2. \A j \in 1 .. Len(q) + 1 : Append(q, a)[j] \notin rest
  BY <1>1
<1> QED
  BY <1>1, <1>2 DEF Ahead

LEMMA AheadIsBefore ==
  ASSUME NEW q \in Seq(Jobs), NEW a, NEW rest, Ahead(q, a, rest)
  PROVE  q # <<>> /\ Head(q) \notin rest
<1>1. PICK i \in DOMAIN q : q[i] = a /\ \A j \in DOMAIN q : q[j] \in rest => i < j
  BY DEF Ahead
<1>2. DOMAIN q = 1 .. Len(q) /\ Len(q) \in Nat
  OBVIOUS
<1>3. q # <<>>
  BY <1>1, <1>2
<1>4. Head(q) = q[1] /\ 1 \in DOMAIN q
  BY <1>2, <1>3
<1> QED
  BY <1>1, <1>2, <1>3, <1>4

\* What an entry that is written next says of the task that handed it over.
LEMMA HeadIsDue ==
  ASSUME EntriesAreDue, queue # <<>>
  PROVE  /\ queue \in Seq(Jobs) /\ Head(queue) \in Jobs /\ Due(Head(queue))
         /\ Tail(queue) \in Seq(Jobs)
<1>1. queue \in Seq(Jobs)
  BY DEF EntriesAreDue, Queued
<1>2. 1 \in DOMAIN queue /\ Head(queue) = queue[1] /\ Tail(queue) \in Seq(Jobs)
  BY <1>1
<1> QED
  BY <1>1, <1>2 DEF EntriesAreDue, Queued, DueJobs

LEMMA WrittenWhenDue ==
  ASSUME EntriesAreDue, NEW by, NEW what, NEW k, NextWritten(Job(by, what, k))
  PROVE  /\ by = "turn" /\ what \in {"confirm", "fork"} => pc = what /\ k = got + 1
         /\ by = "turn" /\ what = "answered" => pc = "answered"
         /\ by = "turn" /\ what = "failed" => pc = "failing"
         /\ by = "turn" /\ what \in {"adopt", "request", "stage"} =>
              k = at /\ pc \in {what, "stopping", "stopped", "failed"}
         /\ by \in {"turn", "node"} /\ what \in Ends => k \in dropping[by] /\ guess[k] = "dropped"
         /\ by = "node" /\ what \in {"request", "stage"} => node = what
         /\ by = "squash" => k = squashing /\ squashing # 0 /\ (what = "resolve" => task[k] = "gone")
         /\ by = "guess" => k \in Guesses /\ task[k] \in {what, "gone"}
         /\ by = "own" => own = what /\ own # "done"
         /\ by = "run" => run = what /\ (what \in {"claim", "settle"} => k = sending)
<1>1. /\ queue # <<>> /\ Head(queue).by = by /\ Head(queue).what = what /\ Head(queue).of = k
  BY DEF NextWritten, Job
<1>2. Due(Head(queue))
  BY <1>1, HeadIsDue
<1> QED
  BY <1>1, <1>2 DEF Due, DueOfTurn, DueOfDrop, DueOfNode, DueOfRun, Ends

LEMMA WrittenInTurn ==
  ASSUME EntriesAreDue, InTurn, NEW by, NEW what, NEW k, NextWritten(Job(by, what, k))
  PROVE  /\ own = "request" => by = "own"
         /\ own = "stage" => by # "run"
         /\ by = "turn" /\ what = "answered" /\ k = 0 => \A g \in Guesses : task[g] # "request"
<1>1. Head(queue) = Job(by, what, k) /\ queue \in Seq(Jobs) /\ Job(by, what, k) \in Jobs
  BY HeadIsDue DEF NextWritten
<1>2. own = "request" => by = "own"
  BY <1>1 DEF InTurn, Job
<1>3. ASSUME own = "stage"
      PROVE  by # "run"
  <2>1. Head(queue) \notin RunJobs
    BY <1>1, <1>3, AheadIsBefore DEF InTurn
  <2> QED
    BY <1>1, <2>1 DEF RunJobs, Job
<1>4. ASSUME by = "turn", what = "answered", k = 0, NEW g \in Guesses, task[g] = "request"
      PROVE  FALSE
  <2>1. Head(queue) \notin {Answer}
    BY <1>1, <1>4, AheadIsBefore DEF InTurn
  <2> QED
    BY <1>1, <1>4, <2>1 DEF Answer
<1> QED
  BY <1>2, <1>3, <1>4

\* What _discard_confirmed closes of the guesses D before it waits: the first of
\* them, or all once the drive is over.
Closes(D) == IF over THEN D ELSE IF D = {} THEN {} ELSE {Least(D)}

LEMMA DropEffect ==
  ASSUME NEW who \in {"turn", "node"}, NEW D \in SUBSET Guesses, NEW written, Drop(who, D, written)
  PROVE  /\ Closes(D) \subseteq D
         /\ over => Closes(D) = D
         /\ ~over /\ D # {} => Closes(D) = {Least(D)} /\ Least(D) \in D
         /\ dropping' = [dropping EXCEPT ![who] = IF over THEN {} ELSE D]
         /\ guess' = [g \in Guesses |-> IF g \in Closes(D) THEN "dropped" ELSE guess[g]]
         /\ held' = [g \in Guesses |-> held[g] /\ g \notin Closes(D)]
         /\ queue' = IF over \/ D = {} THEN written
                     ELSE Append(written, Job(who, IF held[Least(D)] THEN "discard" ELSE "resolve", Least(D)))
<1>1. D # {} => Least(D) \in D
  BY LeastExists, Numbers
<1>2. Closes(D) \subseteq D
  BY <1>1 DEF Closes
<1> QED
  BY <1>1, <1>2 DEF Drop, Closes

\* Who moves the turn, the node and the scheduler.
LEMMA PhaseSteps ==
  ASSUME [Next]_vars
  PROVE  \/ UNCHANGED <<turn, pc, got, at, answered, node, list, settled, run, over>>
        \/ AnswerArrives \/ BlockUnguessed \/ BlockConfirms \/ BlockMisses \/ MissIsOver
        \/ (\E k \in Guesses : ConfirmWritten(k)) \/ NoGuess
        \/ (\E hit \in BOOLEAN : Guess(hit)) \/ (\E k \in Guesses : ForkWritten(k))
        \/ CutIsOver \/ ReplyEnds \/ ReplyUnwritten \/ AnswerWritten \/ EndIsOver
        \/ StreamFails \/ (\E k \in Guesses : CancelledAtConfirm(k))
        \/ (\E k \in Guesses : CancelledAtFork(k)) \/ CancelledAtAnswer \/ FailureWritten
        \/ FailureUnwritten \/ CleanUp \/ TurnFails \/ BeginAdoption \/ AdoptNothing
        \/ (\E k \in Guesses : AdoptionWritten(k)) \/ AwaitEarly \/ SlotDone \/ MakeCall
        \/ (\E k \in Blocks : RequestWritten(k)) \/ ReadInOrder
        \/ (\E k \in Blocks : StageWritten(k)) \/ Acknowledged \/ TurnDone \/ SettleFails
        \/ StopSettling \/ SettlingStopped \/ CancelledAtEnd \/ OwnRequested \/ NodeWrites
        \/ NodeRequested \/ NodeStaged \/ NodeReturns \/ LeaveSquash \/ LeaveDrop
        \/ NodeDone \/ Wakes \/ NodeConfirmed \/ (\E e \in Calls : Claim(e)) \/ Claimed
        \/ Deliver \/ Settled \/ DrainOver \/ Retired \/ EndDrive
<1>1. CASE TurnStep
  BY <1>1 DEF TurnStep, TakeBlock, FailureSeen, StaysApart, turnVars, guessVars, nodeVars,
    runVars
<1>2. CASE Stopping
  BY <1>2 DEF Stopping, TakeBlock, turnVars, guessVars, nodeVars, runVars
<1>3. CASE Written
  <2>1. CASE \/ (\E k \in Guesses : SquashDiscarded(k))
             \/ (\E k \in Guesses : SquashResolved(k))
             \/ (\E k \in Guesses, who \in {"turn", "node"} : DropDiscarded(who, k))
             \/ (\E k \in Guesses, who \in {"turn", "node"} : DropResolved(who, k))
             \/ (\E k \in Guesses : GuessRequested(k))
    BY <2>1 DEF SquashDiscarded, SquashResolved, DropDiscarded, DropResolved, GuessRequested,
      TakeBlock, FailureSeen, turnVars, guessVars, nodeVars, runVars, schedulerElse
  <2>2. CASE (\E k \in Guesses : GuessStaged(k))
    BY <2>2 DEF GuessStaged, TakeBlock, FailureSeen, turnVars, guessVars, nodeVars, runVars,
      schedulerElse
  <2>3. CASE OwnStaged \/ NobodyWaits
    BY <2>3 DEF OwnStaged, NobodyWaits, TakeBlock, FailureSeen, turnVars, guessVars, nodeVars,
      runVars, schedulerElse
  <2> QED
    BY <1>3, <2>1, <2>2, <2>3 DEF Written
<1>4. CASE Beside
  BY <1>4 DEF Beside, EarlyRead, GuessReads, GuessReleased, TakeBlock, turnVars, guessVars,
    nodeVars, runVars
<1>5. CASE NodeStep
  BY <1>5 DEF NodeStep, TakeBlock, turnVars, guessVars, nodeVars, runVars
<1>6. CASE RunStep
  BY <1>6 DEF RunStep, TakeBlock, turnVars, guessVars, nodeVars, runVars, schedulerElse
<1> QED
  BY <1>1, <1>2, <1>3, <1>4, <1>5, <1>6 DEF Next, Finished, vars, turnVars, guessVars, nodeVars,
    runVars

\* Who may be where at once: kept by every step.
LEMMA PhasesKept ==
  ASSUME TypeOK, EntriesAreDue, OwnFirst, Phases, Discarding, Guessing, Progress, [Next]_vars
  PROVE  Phases'
<1> USE DEF Phases, TypeOK, Streaming, Settling, Passed, UnderWay, Returned, turnVars,
    guessVars, nodeVars, runVars, schedulerElse
<1>1. CASE UNCHANGED <<turn, pc, got, at, answered, node, list, settled, run, over>>
  BY <1>1
<1>2. CASE AnswerArrives
  BY <1>2 DEF AnswerArrives
<1>3. CASE BlockUnguessed
  BY <1>3 DEF BlockUnguessed, AtBlock, TakeBlock
<1>4. CASE BlockConfirms
  BY <1>4 DEF BlockConfirms, AtBlock, StaysApart
<1>5. CASE BlockMisses
  BY <1>5 DEF BlockMisses, AtBlock, Squash
<1>6. CASE MissIsOver
  BY <1>6 DEF MissIsOver, TakeBlock
<1>7. ASSUME NEW k \in Guesses, ConfirmWritten(k)
      PROVE  Phases'
  BY <1>7, WrittenWhenDue DEF ConfirmWritten, TakeBlock
<1>8. CASE NoGuess
  BY <1>8 DEF NoGuess
<1>9. ASSUME NEW hit \in BOOLEAN, Guess(hit)
      PROVE  Phases'
  BY <1>9 DEF Guess
<1>10. ASSUME NEW k \in Guesses, ForkWritten(k)
      PROVE  Phases'
  BY <1>10, WrittenWhenDue DEF ForkWritten, Squash
<1>11. CASE CutIsOver
  BY <1>11 DEF CutIsOver
<1>12. CASE ReplyEnds
  BY <1>12 DEF ReplyEnds
<1>13. CASE ReplyUnwritten
  BY <1>13 DEF ReplyUnwritten
<1>14. CASE AnswerWritten
  BY <1>14, WrittenWhenDue DEF AnswerWritten, Squash
<1>15. CASE EndIsOver
  BY <1>15 DEF EndIsOver
<1>16. CASE StreamFails
  BY <1>16 DEF StreamFails
<1>17. ASSUME NEW k \in Guesses, CancelledAtConfirm(k)
      PROVE  Phases'
  BY <1>17, WrittenWhenDue DEF CancelledAtConfirm
<1>18. ASSUME NEW k \in Guesses, CancelledAtFork(k)
      PROVE  Phases'
  BY <1>18, WrittenWhenDue DEF CancelledAtFork
<1>19. CASE CancelledAtAnswer
  BY <1>19, WrittenWhenDue DEF CancelledAtAnswer
<1>20. CASE FailureWritten
  BY <1>20, WrittenWhenDue DEF FailureWritten, FailureSeen, Squash
<1>21. CASE FailureUnwritten
  BY <1>21 DEF FailureUnwritten, FailureSeen, Squash
<1>22. CASE CleanUp
  BY <1>22 DEF CleanUp, Abandon
<1>23. CASE TurnFails
  BY <1>23 DEF TurnFails
<1>24. CASE BeginAdoption
  BY <1>24 DEF BeginAdoption, AtResult
<1>25. CASE AdoptNothing
  BY <1>25 DEF AdoptNothing, AtResult, Adopt
<1>26. ASSUME NEW k \in Guesses, AdoptionWritten(k)
      PROVE  Phases'
  BY <1>26, WrittenWhenDue DEF AdoptionWritten, Adopt
<1>27. CASE AwaitEarly
  BY <1>27 DEF AwaitEarly, AtResult
<1>28. CASE SlotDone
  BY <1>28 DEF SlotDone
<1>29. CASE MakeCall
  BY <1>29 DEF MakeCall, AtResult
<1>30. ASSUME NEW k \in Blocks, RequestWritten(k)
      PROVE  Phases'
  BY <1>30, WrittenWhenDue DEF RequestWritten, StillStages
<1>31. CASE ReadInOrder
  BY <1>31 DEF ReadInOrder
<1>32. ASSUME NEW k \in Blocks, StageWritten(k)
      PROVE  Phases'
  BY <1>32, WrittenWhenDue DEF StageWritten
<1>33. CASE Acknowledged
  BY <1>33 DEF Acknowledged
<1>34. CASE TurnDone
  BY <1>34 DEF TurnDone
<1>35. CASE SettleFails
  BY <1>35 DEF SettleFails
<1>36. CASE StopSettling
  BY <1>36 DEF StopSettling
<1>37. CASE SettlingStopped
  BY <1>37 DEF SettlingStopped, Abandon
<1>38. CASE CancelledAtEnd
  BY <1>38 DEF CancelledAtEnd
<1>39. CASE OwnRequested
  BY <1>39, WrittenWhenDue DEF OwnRequested
<1>40. CASE NodeWrites
  BY <1>40 DEF NodeWrites
<1>41. CASE NodeRequested
  BY <1>41, WrittenWhenDue DEF NodeRequested
<1>42. CASE NodeStaged
  BY <1>42, WrittenWhenDue DEF NodeStaged
<1>43. CASE NodeReturns
  BY <1>43 DEF NodeReturns
<1>44. CASE LeaveSquash
  BY <1>44 DEF LeaveSquash, Squash, NothingUnderWay
<1>45. CASE LeaveDrop
  BY <1>45 DEF LeaveDrop, NothingUnderWay
<1>46. CASE NodeDone
  BY <1>46 DEF NodeDone
<1>47. CASE Wakes
  BY <1>47 DEF Wakes, NodeAtRest
<1>48. CASE NodeConfirmed
  BY <1>48, WrittenWhenDue DEF NodeConfirmed
<1>49. ASSUME NEW e \in Calls, Claim(e)
      PROVE  Phases'
  BY <1>49 DEF Claim, FirstPending, Pending
<1>50. CASE Claimed
  BY <1>50, WrittenWhenDue DEF Claimed
<1>51. CASE Deliver
  BY <1>51 DEF Deliver
<1>52. CASE Settled
  BY <1>52, WrittenWhenDue DEF Settled
<1>53. CASE DrainOver
  BY <1>53 DEF DrainOver, Pending
<1>54. CASE Retired
  BY <1>54, WrittenWhenDue DEF Retired
<1>55. CASE EndDrive
  BY <1>55 DEF EndDrive
<1> HIDE DEF Phases, TypeOK, Streaming, Settling, Passed, UnderWay, Returned, turnVars,
    guessVars, nodeVars, runVars, schedulerElse
<1> QED
  BY <1>1, <1>2, <1>3, <1>4, <1>5, <1>6, <1>7, <1>8, <1>9, <1>10, <1>11, <1>12, <1>13, <1>14,
    <1>15, <1>16, <1>17, <1>18, <1>19, <1>20, <1>21, <1>22, <1>23, <1>24, <1>25, <1>26, <1>27,
    <1>28, <1>29, <1>30, <1>31, <1>32, <1>33, <1>34, <1>35, <1>36, <1>37, <1>38, <1>39, <1>40,
    <1>41, <1>42, <1>43, <1>44, <1>45, <1>46, <1>47, <1>48, <1>49, <1>50, <1>51, <1>52, <1>53,
    <1>54, <1>55, PhaseSteps

\* Who changes what the node's own write is compared with.
LEMMA OwnSteps ==
  ASSUME [Next]_vars
  PROVE  \/ UNCHANGED <<turn, own, node, list, settled, run, sending, parked, confirmed>>
        \/ AnswerWritten \/ CancelledAtAnswer \/ FailureWritten \/ AdoptNothing
        \/ (\E k \in Guesses : AdoptionWritten(k)) \/ (\E k \in Blocks : RequestWritten(k))
        \/ (\E k \in Blocks : StageWritten(k)) \/ OwnRequested \/ OwnStaged \/ NodeWrites
        \/ NodeRequested \/ NodeStaged \/ NodeReturns \/ LeaveSquash \/ LeaveDrop
        \/ NodeDone \/ Wakes \/ NodeConfirmed \/ (\E e \in Calls : Claim(e)) \/ Claimed
        \/ Deliver \/ Settled \/ DrainOver \/ Retired
<1>1. CASE TurnStep
  BY <1>1 DEF TurnStep, BlockUnguessed, BlockConfirms, BlockMisses, MissIsOver, NoGuess, Guess,
    CutIsOver, ReplyEnds, ReplyUnwritten, EndIsOver, FailureUnwritten, CleanUp, TurnFails,
    BeginAdoption, AwaitEarly, SlotDone, MakeCall, ReadInOrder, Acknowledged, TurnDone,
    SettleFails, StopSettling, SettlingStopped, FailureSeen, StaysApart, turnVars, guessVars,
    nodeVars, runVars
<1>2. CASE Stopping
  BY <1>2 DEF Stopping, StreamFails, CancelledAtEnd, SettleFails, turnVars, guessVars, nodeVars,
    runVars
<1>3. CASE Written
  <2>1. CASE \/ (\E k \in Guesses : ConfirmWritten(k))
             \/ (\E k \in Guesses : ForkWritten(k))
             \/ (\E k \in Guesses : CancelledAtConfirm(k))
             \/ (\E k \in Guesses : CancelledAtFork(k))
             \/ (\E k \in Guesses : SquashDiscarded(k))
    BY <2>1 DEF ConfirmWritten, ForkWritten, CancelledAtConfirm, CancelledAtFork,
      SquashDiscarded, FailureSeen, turnVars, guessVars, nodeVars, runVars, schedulerElse
  <2>2. CASE \/ (\E k \in Guesses : SquashResolved(k))
             \/ (\E k \in Guesses, who \in {"turn", "node"} : DropDiscarded(who, k))
             \/ (\E k \in Guesses, who \in {"turn", "node"} : DropResolved(who, k))
             \/ (\E k \in Guesses : GuessRequested(k))
             \/ (\E k \in Guesses : GuessStaged(k))
    BY <2>2 DEF SquashResolved, DropDiscarded, DropResolved, GuessRequested, GuessStaged,
      FailureSeen, turnVars, guessVars, nodeVars, runVars, schedulerElse
  <2>3. CASE NobodyWaits
    BY <2>3 DEF NobodyWaits, FailureSeen, turnVars, guessVars, nodeVars, runVars, schedulerElse
  <2> QED
    BY <1>3, <2>1, <2>2, <2>3 DEF Written
<1>4. CASE Beside
  BY <1>4 DEF Beside, EarlyRead, GuessReads, GuessReleased, turnVars, guessVars, nodeVars,
    runVars
<1>5. CASE NodeStep
  BY <1>5 DEF NodeStep, turnVars, guessVars, nodeVars, runVars
<1>6. CASE RunStep
  BY <1>6 DEF RunStep, EndDrive, turnVars, guessVars, nodeVars, runVars, schedulerElse
<1> QED
  BY <1>1, <1>2, <1>3, <1>4, <1>5, <1>6 DEF Next, AnswerArrives, Finished, vars, turnVars,
    guessVars, nodeVars, runVars

\* The node's own write is on its way before anything else of the branch.
LEMMA OwnFirstKept ==
  ASSUME TypeOK, EntriesAreDue, InTurn, OwnFirst, Phases, Guessing, Draining, Progress, [Next]_vars
  PROVE  OwnFirst'
<1> USE DEF OwnFirst, turnVars, guessVars, nodeVars, runVars, schedulerElse
<1>1. CASE UNCHANGED <<turn, own, node, list, settled, run, sending, parked, confirmed>>
  BY <1>1
<1>2. CASE AnswerWritten
  BY <1>2, WrittenWhenDue, WrittenInTurn DEF AnswerWritten, Squash
<1>3. CASE CancelledAtAnswer
  BY <1>3, WrittenWhenDue, WrittenInTurn DEF CancelledAtAnswer
<1>4. CASE FailureWritten
  BY <1>4, WrittenWhenDue, WrittenInTurn DEF FailureWritten, FailureSeen, Squash
<1>5. CASE AdoptNothing
  BY <1>5 DEF AdoptNothing, AtResult, Adopt, Phases, Passed, Settling, Returned
<1>6. ASSUME NEW k \in Guesses, AdoptionWritten(k)
      PROVE  OwnFirst'
  BY <1>6, WrittenWhenDue, WrittenInTurn DEF AdoptionWritten, Adopt
<1>7. ASSUME NEW k \in Blocks, RequestWritten(k)
      PROVE  OwnFirst'
  BY <1>7, WrittenWhenDue, WrittenInTurn DEF RequestWritten, StillStages
<1>8. ASSUME NEW k \in Blocks, StageWritten(k)
      PROVE  OwnFirst'
  BY <1>8, WrittenWhenDue, WrittenInTurn DEF StageWritten
<1>9. CASE OwnRequested
  <2>1. own = "request" /\ settled \subseteq list
    BY <1>9, WrittenWhenDue DEF OwnRequested, TypeOK
  <2>2. own' \in {"done", "stage"} /\ run' = run /\ settled' = settled
    BY <1>9 DEF OwnRequested
  <2>3. ASSUME own' = "stage"
        PROVE  list' = {Own} /\ run = "quiesce"
    BY <1>9, <2>1, <2>3 DEF OwnRequested, Returned
  <2> QED
    BY <2>1, <2>2, <2>3
<1>10. CASE OwnStaged
  BY <1>10, WrittenWhenDue, WrittenInTurn DEF OwnStaged
<1>11. CASE NodeWrites
  BY <1>11 DEF NodeWrites
<1>12. CASE NodeRequested
  BY <1>12, WrittenWhenDue, WrittenInTurn DEF NodeRequested
<1>13. CASE NodeStaged
  BY <1>13, WrittenWhenDue, WrittenInTurn DEF NodeStaged
<1>14. CASE NodeReturns
  BY <1>14 DEF NodeReturns
<1>15. CASE LeaveSquash
  BY <1>15 DEF LeaveSquash, Squash, NothingUnderWay
<1>16. CASE LeaveDrop
  BY <1>16 DEF LeaveDrop, NothingUnderWay
<1>17. CASE NodeDone
  BY <1>17 DEF NodeDone
<1>18. CASE Wakes
  BY <1>18 DEF Wakes, NodeAtRest, Phases
<1>19. CASE NodeConfirmed
  BY <1>19, WrittenWhenDue, WrittenInTurn DEF NodeConfirmed
<1>20. ASSUME NEW e \in Calls, Claim(e)
      PROVE  OwnFirst'
  BY <1>20 DEF Claim, FirstPending, Pending
<1>21. CASE Claimed
  BY <1>21, WrittenWhenDue, WrittenInTurn DEF Claimed
<1>22. CASE Deliver
  BY <1>22 DEF Deliver
<1>23. CASE Settled
  BY <1>23, WrittenWhenDue, WrittenInTurn DEF Settled
<1>24. CASE DrainOver
  BY <1>24, TypeOK DEF DrainOver, Pending, Phases
<1>25. CASE Retired
  BY <1>25, WrittenWhenDue, WrittenInTurn DEF Retired
<1> HIDE DEF OwnFirst, turnVars, guessVars, nodeVars, runVars, schedulerElse
<1> QED
  BY <1>1, <1>2, <1>3, <1>4, <1>5, <1>6, <1>7, <1>8, <1>9, <1>10, <1>11, <1>12, <1>13, <1>14,
    <1>15, <1>16, <1>17, <1>18, <1>19, <1>20, <1>21, <1>22, <1>23, <1>24, <1>25, OwnSteps

\* Who discards, and who may be discarding.
LEMMA DiscardSteps ==
  ASSUME [Next]_vars
  PROVE  \/ UNCHANGED <<pc, guess, dropping, node>>
        \/ BlockUnguessed \/ BlockConfirms \/ BlockMisses \/ MissIsOver
        \/ (\E k \in Guesses : ConfirmWritten(k)) \/ NoGuess
        \/ (\E hit \in BOOLEAN : Guess(hit)) \/ (\E k \in Guesses : ForkWritten(k))
        \/ CutIsOver \/ ReplyEnds \/ ReplyUnwritten \/ AnswerWritten \/ EndIsOver
        \/ StreamFails \/ (\E k \in Guesses : CancelledAtConfirm(k))
        \/ (\E k \in Guesses : CancelledAtFork(k)) \/ CancelledAtAnswer \/ FailureWritten
        \/ FailureUnwritten \/ CleanUp \/ TurnFails \/ BeginAdoption \/ AdoptNothing
        \/ (\E k \in Guesses : AdoptionWritten(k)) \/ AwaitEarly \/ SlotDone \/ MakeCall
        \/ (\E k \in Blocks : RequestWritten(k)) \/ ReadInOrder
        \/ (\E k \in Blocks : StageWritten(k)) \/ Acknowledged \/ TurnDone \/ SettleFails
        \/ StopSettling \/ SettlingStopped \/ CancelledAtEnd
        \/ (\E k \in Guesses, who \in {"turn", "node"} : DropDiscarded(who, k))
        \/ (\E k \in Guesses, who \in {"turn", "node"} : DropResolved(who, k))
        \/ NodeWrites \/ NodeRequested \/ NodeStaged \/ NodeReturns \/ LeaveSquash
        \/ LeaveDrop \/ NodeDone
<1>1. CASE TurnStep
  BY <1>1 DEF TurnStep, FailureSeen, turnVars, guessVars, nodeVars, runVars
<1>2. CASE Stopping
  BY <1>2 DEF Stopping, turnVars, guessVars, nodeVars, runVars
<1>3. CASE Written
  <2>1. CASE \/ (\E k \in Guesses : SquashDiscarded(k))
             \/ (\E k \in Guesses : SquashResolved(k))
             \/ (\E k \in Guesses : GuessRequested(k))
             \/ (\E k \in Guesses : GuessStaged(k))
    BY <2>1 DEF SquashDiscarded, SquashResolved, GuessRequested, GuessStaged, FailureSeen,
      turnVars, guessVars, nodeVars, runVars, schedulerElse
  <2>2. CASE OwnRequested \/ OwnStaged \/ NobodyWaits \/ NodeConfirmed \/ Claimed
    BY <2>2 DEF OwnRequested, OwnStaged, NobodyWaits, NodeConfirmed, Claimed, FailureSeen,
      turnVars, guessVars, nodeVars, runVars, schedulerElse
  <2>3. CASE Settled \/ Retired
    BY <2>3 DEF Settled, Retired, FailureSeen, turnVars, guessVars, nodeVars, runVars,
      schedulerElse
  <2> QED
    BY <1>3, <2>1, <2>2, <2>3 DEF Written
<1>4. CASE Beside
  BY <1>4 DEF Beside, EarlyRead, GuessReads, GuessReleased, turnVars, guessVars, nodeVars,
    runVars
<1>5. CASE NodeStep
  BY <1>5 DEF NodeStep, turnVars, guessVars, nodeVars, runVars
<1>6. CASE RunStep
  BY <1>6 DEF RunStep, Wakes, Claim, Deliver, DrainOver, EndDrive, turnVars, guessVars,
    nodeVars, runVars, schedulerElse
<1> QED
  BY <1>1, <1>2, <1>3, <1>4, <1>5, <1>6 DEF Next, AnswerArrives, Finished, vars, turnVars,
    guessVars, nodeVars, runVars

\* What is being discarded, and by whom.
LEMMA DiscardingKept ==
  ASSUME TypeOK, EntriesAreDue, Phases, Discarding, Guessing, Progress, [Next]_vars
  PROVE  Discarding'
<1> USE DEF Discarding, Kept, turnVars, guessVars, nodeVars, runVars, schedulerElse
<1>1. CASE UNCHANGED <<pc, guess, dropping, node>>
  BY <1>1
<1>2. CASE BlockUnguessed
  BY <1>2 DEF BlockUnguessed, AtBlock, TakeBlock
<1>3. CASE BlockConfirms
  <2>1. ~Returned /\ dropping' = dropping /\ node' = node /\ pc = "stream"
    BY <1>3 DEF BlockConfirms, AtBlock
  <2>2. \A g \in Guesses : guess'[g] = guess[g] \/ guess[g] = "open"
    BY <1>3 DEF BlockConfirms, TypeOK, Open
  <2> QED
    BY <2>1, <2>2 DEF Returned
<1>4. CASE BlockMisses
  <2>1. dropping' = dropping /\ node' = node
    BY <1>4 DEF BlockMisses
  <2>2. \A g \in Guesses :
          guess'[g] = guess[g] \/ (guess[g] \notin {"confirmed", "dropped"} /\ guess'[g] # "confirmed")
    BY <1>4 DEF TypeOK, BlockMisses, AtBlock, Squash, Open
  <2> QED
    BY <1>4, <2>1, <2>2 DEF BlockMisses, AtBlock, Squash, Open
<1>5. CASE MissIsOver
  BY <1>5 DEF MissIsOver, TakeBlock
<1>6. ASSUME NEW k \in Guesses, ConfirmWritten(k)
      PROVE  Discarding'
  BY <1>6, WrittenWhenDue DEF ConfirmWritten, TakeBlock
<1>7. CASE NoGuess
  BY <1>7 DEF NoGuess
<1>8. ASSUME NEW hit \in BOOLEAN, Guess(hit)
      PROVE  Discarding'
  <2>1. /\ dropping' = dropping /\ dropping \in [{"turn", "node"} -> SUBSET Guesses]
        /\ node' = node /\ pc = "predict"
    BY <1>8 DEF TypeOK, Guess, Guessing, GuessOf
  <2>2. \A g \in Guesses :
          guess'[g] = guess[g] \/ (guess[g] \notin {"confirmed", "dropped"} /\ guess'[g] # "confirmed")
    BY <1>8 DEF Guess, TypeOK, Guessing, GuessOf
  <2> QED
    BY <2>1, <2>2
<1>9. ASSUME NEW k \in Guesses, ForkWritten(k)
      PROVE  Discarding'
  <2>1. /\ dropping' = dropping /\ dropping \in [{"turn", "node"} -> SUBSET Guesses]
        /\ node' = node /\ pc = "fork"
    BY <1>9, WrittenWhenDue DEF TypeOK, ForkWritten, Squash, Guessing, GuessOf
  <2>2. \A g \in Guesses :
          guess'[g] = guess[g] \/ (guess[g] \notin {"confirmed", "dropped"} /\ guess'[g] # "confirmed")
    BY <1>9, WrittenWhenDue DEF ForkWritten, TypeOK, Squash, Guessing, GuessOf
  <2> QED
    BY <2>1, <2>2
<1>10. CASE CutIsOver
  BY <1>10 DEF CutIsOver
<1>11. CASE ReplyEnds
  BY <1>11 DEF ReplyEnds
<1>12. CASE ReplyUnwritten
  BY <1>12 DEF ReplyUnwritten
<1>13. CASE AnswerWritten
  <2>1. /\ dropping' = dropping /\ dropping \in [{"turn", "node"} -> SUBSET Guesses]
        /\ node' = node /\ pc = "answered"
    BY <1>13, WrittenWhenDue DEF TypeOK, AnswerWritten, Squash, Open
  <2>2. \A g \in Guesses :
          guess'[g] = guess[g] \/ (guess[g] \notin {"confirmed", "dropped"} /\ guess'[g] # "confirmed")
    BY <1>13, WrittenWhenDue DEF AnswerWritten, TypeOK, Squash, Open
  <2> QED
    BY <2>1, <2>2
<1>14. CASE EndIsOver
  BY <1>14 DEF EndIsOver
<1>15. CASE StreamFails
  BY <1>15 DEF StreamFails
<1>16. ASSUME NEW k \in Guesses, CancelledAtConfirm(k)
      PROVE  Discarding'
  BY <1>16, WrittenWhenDue DEF CancelledAtConfirm
<1>17. ASSUME NEW k \in Guesses, CancelledAtFork(k)
      PROVE  Discarding'
  <2>1. dropping' = dropping /\ node' = node
    BY <1>17 DEF CancelledAtFork
  <2>2. \A g \in Guesses :
          guess'[g] = guess[g] \/ (guess[g] \notin {"confirmed", "dropped"} /\ guess'[g] # "confirmed")
    BY <1>17, WrittenWhenDue DEF TypeOK, CancelledAtFork, Guessing, GuessOf
  <2> QED
    BY <1>17, <2>1, <2>2, WrittenWhenDue DEF CancelledAtFork, Guessing, GuessOf
<1>18. CASE CancelledAtAnswer
  BY <1>18, WrittenWhenDue DEF CancelledAtAnswer
<1>19. CASE FailureWritten
  <2>1. /\ dropping' = dropping /\ dropping \in [{"turn", "node"} -> SUBSET Guesses]
        /\ node' = node /\ pc = "failing"
    BY <1>19, WrittenWhenDue DEF TypeOK, FailureWritten, FailureSeen, Squash, Open
  <2>2. \A g \in Guesses :
          guess'[g] = guess[g] \/ (guess[g] \notin {"confirmed", "dropped"} /\ guess'[g] # "confirmed")
    BY <1>19, WrittenWhenDue DEF FailureWritten, TypeOK, FailureSeen, Squash, Open
  <2> QED
    BY <2>1, <2>2
<1>20. CASE FailureUnwritten
  <2>1. /\ dropping' = dropping /\ dropping \in [{"turn", "node"} -> SUBSET Guesses]
        /\ node' = node /\ pc = "failing"
    BY <1>20 DEF TypeOK, FailureUnwritten, FailureSeen, Squash, Open
  <2>2. \A g \in Guesses :
          guess'[g] = guess[g] \/ (guess[g] \notin {"confirmed", "dropped"} /\ guess'[g] # "confirmed")
    BY <1>20 DEF FailureUnwritten, TypeOK, FailureSeen, Squash, Open
  <2> QED
    BY <2>1, <2>2
<1>21. CASE CleanUp
  <2> HIDE DEF Kept
  <2>1. Kept \in SUBSET Guesses /\ Drop("turn", Kept, queue)
    BY <1>21 DEF Kept, CleanUp
  <2>2. /\ Closes(Kept) \subseteq Kept
        /\ dropping' = [dropping EXCEPT !["turn"] = IF over THEN {} ELSE Kept]
        /\ over => Closes(Kept) = Kept
        /\ guess' = [g \in Guesses |-> IF g \in Closes(Kept) THEN "dropped" ELSE guess[g]]
    BY <2>1, DropEffect
  <2> QED
    BY <1>21, <2>1, <2>2 DEF CleanUp, TypeOK, Kept
<1>22. CASE TurnFails
  BY <1>22 DEF TurnFails
<1>23. CASE BeginAdoption
  BY <1>23 DEF BeginAdoption, AtResult
<1>24. CASE AdoptNothing
  BY <1>24 DEF AdoptNothing, AtResult, Adopt
<1>25. ASSUME NEW k \in Guesses, AdoptionWritten(k)
      PROVE  Discarding'
  <2>1. /\ dropping' = dropping /\ dropping \in [{"turn", "node"} -> SUBSET Guesses]
        /\ node' = node /\ pc = "adopt" /\ pc' = "slot" /\ k \in Kept
    BY <1>25, WrittenWhenDue DEF TypeOK, AdoptionWritten, Adopt, Progress
  <2>2. \A g \in Guesses : guess'[g] = guess[g] \/ (g = k /\ guess'[g] = "adopted")
    BY <1>25, WrittenWhenDue DEF AdoptionWritten, TypeOK, Adopt, Progress
  <2> QED
    BY <2>1, <2>2
<1>26. CASE AwaitEarly
  BY <1>26 DEF AwaitEarly, AtResult
<1>27. CASE SlotDone
  BY <1>27 DEF SlotDone
<1>28. CASE MakeCall
  BY <1>28 DEF MakeCall, AtResult
<1>29. ASSUME NEW k \in Blocks, RequestWritten(k)
      PROVE  Discarding'
  BY <1>29, WrittenWhenDue DEF RequestWritten, StillStages
<1>30. CASE ReadInOrder
  BY <1>30 DEF ReadInOrder
<1>31. ASSUME NEW k \in Blocks, StageWritten(k)
      PROVE  Discarding'
  BY <1>31, WrittenWhenDue DEF StageWritten
<1>32. CASE Acknowledged
  BY <1>32 DEF Acknowledged
<1>33. CASE TurnDone
  BY <1>33 DEF TurnDone
<1>34. CASE SettleFails
  BY <1>34 DEF SettleFails
<1>35. CASE StopSettling
  <2> HIDE DEF Kept
  <2>1. Kept \in SUBSET Guesses /\ Drop("turn", Kept, queue)
    BY <1>35 DEF Kept, StopSettling
  <2>2. /\ Closes(Kept) \subseteq Kept
        /\ dropping' = [dropping EXCEPT !["turn"] = IF over THEN {} ELSE Kept]
        /\ over => Closes(Kept) = Kept
        /\ guess' = [g \in Guesses |-> IF g \in Closes(Kept) THEN "dropped" ELSE guess[g]]
    BY <2>1, DropEffect
  <2> QED
    BY <1>35, <2>1, <2>2 DEF StopSettling, TypeOK, Kept
<1>36. CASE SettlingStopped
  BY <1>36 DEF SettlingStopped, Abandon
<1>37. CASE CancelledAtEnd
  BY <1>37 DEF CancelledAtEnd
<1>38. ASSUME NEW k \in Guesses, NEW who \in {"turn", "node"}, DropDiscarded(who, k)
      PROVE  Discarding'
  <2>1. pc' = pc /\ node' = node /\ dropping \in [{"turn", "node"} -> SUBSET Guesses]
    BY <1>38 DEF DropDiscarded, TypeOK
  <2>2. CASE ~over
    BY <1>38, <2>1, <2>2 DEF DropDiscarded
  <2>3. CASE over
    <3>1. dropping[who] \ {k} \in SUBSET Guesses
      BY <2>1
    <3>2. /\ Closes(dropping[who] \ {k}) \subseteq dropping[who] \ {k}
          /\ dropping' = [dropping EXCEPT ![who] = {}]
          /\ Closes(dropping[who] \ {k}) = dropping[who] \ {k}
          /\ guess' = [g \in Guesses |-> IF g \in Closes(dropping[who] \ {k}) THEN "dropped" ELSE guess[g]]
      BY <1>38, <2>3, <3>1, DropEffect DEF DropDiscarded
    <3>3. k \in dropping[who] /\ guess[k] = "dropped"
      BY <1>38, WrittenWhenDue DEF DropDiscarded, Ends
    <3> QED
      BY <2>1, <3>2, <3>3
  <2> QED
    BY <2>2, <2>3
<1>39. ASSUME NEW k \in Guesses, NEW who \in {"turn", "node"}, DropResolved(who, k)
      PROVE  Discarding'
  <2>1. /\ pc' = pc /\ node' = node /\ dropping \in [{"turn", "node"} -> SUBSET Guesses]
       /\ dropping[who] \ {k} \in SUBSET Guesses
    BY <1>39 DEF DropResolved, TypeOK
  <2>2. /\ Closes(dropping[who] \ {k}) \subseteq dropping[who] \ {k}
        /\ dropping' = [dropping EXCEPT ![who] = IF over THEN {} ELSE dropping[who] \ {k}]
        /\ over => Closes(dropping[who] \ {k}) = dropping[who] \ {k}
        /\ guess' = [g \in Guesses |-> IF g \in Closes(dropping[who] \ {k}) THEN "dropped" ELSE guess[g]]
    BY <1>39, <2>1, DropEffect DEF DropResolved
  <2>3. k \in dropping[who] /\ guess[k] = "dropped"
    BY <1>39, WrittenWhenDue DEF DropResolved, Ends
  <2> QED
    BY <2>1, <2>2, <2>3
<1>40. CASE NodeWrites
  BY <1>40 DEF NodeWrites
<1>41. CASE NodeRequested
  BY <1>41, WrittenWhenDue DEF NodeRequested
<1>42. CASE NodeStaged
  BY <1>42, WrittenWhenDue DEF NodeStaged
<1>43. CASE NodeReturns
  BY <1>43 DEF NodeReturns
<1>44. CASE LeaveSquash
  <2>1. dropping' = dropping /\ node' = "squashing" /\ pc' = pc
    BY <1>44 DEF LeaveSquash
  <2>2. \A g \in Guesses :
          guess'[g] = guess[g] \/ (guess[g] \notin {"confirmed", "dropped"} /\ guess'[g] # "confirmed")
    BY <1>44 DEF TypeOK, LeaveSquash, Squash, Open
  <2> QED
    BY <1>44, <2>1, <2>2 DEF LeaveSquash, Squash, Open
<1>45. CASE LeaveDrop
  <2> HIDE DEF Kept
  <2>1. Kept \in SUBSET Guesses /\ Drop("node", Kept, queue)
    BY <1>45 DEF Kept, LeaveDrop
  <2>2. /\ Closes(Kept) \subseteq Kept
        /\ dropping' = [dropping EXCEPT !["node"] = IF over THEN {} ELSE Kept]
        /\ over => Closes(Kept) = Kept
        /\ guess' = [g \in Guesses |-> IF g \in Closes(Kept) THEN "dropped" ELSE guess[g]]
    BY <2>1, DropEffect
  <2> QED
    BY <1>45, <2>1, <2>2 DEF LeaveDrop, TypeOK, Kept
<1>46. CASE NodeDone
  BY <1>46 DEF NodeDone
<1> HIDE DEF Discarding, Kept, turnVars, guessVars, nodeVars, runVars, schedulerElse
<1> QED
  BY <1>1, <1>2, <1>3, <1>4, <1>5, <1>6, <1>7, <1>8, <1>9, <1>10, <1>11, <1>12, <1>13, <1>14,
    <1>15, <1>16, <1>17, <1>18, <1>19, <1>20, <1>21, <1>22, <1>23, <1>24, <1>25, <1>26, <1>27,
    <1>28, <1>29, <1>30, <1>31, <1>32, <1>33, <1>34, <1>35, <1>36, <1>37, <1>38, <1>39, <1>40,
    <1>41, <1>42, <1>43, <1>44, <1>45, <1>46, DiscardSteps

\* While the turn makes its calls in order, what it stages next comes after all that
\* is staged already.
LEMMA NextComesLast ==
  ASSUME TypeOK, Progress, LaterLast, UnderWay, pc \notin {"slot", "stage", "ack", "stopping", "stopped"}
  PROVE  \A c \in list : c \in Own .. Asked /\ c < at
<1> SUFFICES ASSUME NEW c \in list
             PROVE  c \in Own .. Asked /\ c < at
  OBVIOUS
<1>1. c # Later
  BY DEF LaterLast
<1>2. c \in 0 .. Asked + 1 /\ at \in Nat /\ at > 0
  BY Numbers DEF TypeOK
<1>3. c \in Blocks => c < at
  BY <1>2, Numbers DEF Progress, UnderWay
<1> QED
  BY <1>1, <1>2, <1>3, Numbers

\* Who stages on the node's branch, and who drains it.
LEMMA DrainSteps ==
  ASSUME [Next]_vars
  PROVE  \/ UNCHANGED <<list, settled, run, sending>>
        \/ AdoptNothing \/ (\E k \in Guesses : AdoptionWritten(k))
        \/ (\E k \in Blocks : RequestWritten(k)) \/ OwnRequested \/ NodeRequested \/ Wakes
        \/ NodeConfirmed \/ (\E e \in Calls : Claim(e)) \/ Claimed \/ Deliver \/ Settled
        \/ DrainOver \/ Retired
<1>1. CASE TurnStep
  BY <1>1 DEF TurnStep, BlockUnguessed, BlockConfirms, BlockMisses, MissIsOver, NoGuess, Guess,
    CutIsOver, ReplyEnds, ReplyUnwritten, EndIsOver, FailureUnwritten, CleanUp, TurnFails,
    BeginAdoption, AwaitEarly, SlotDone, MakeCall, ReadInOrder, Acknowledged, TurnDone,
    SettleFails, StopSettling, SettlingStopped, FailureSeen, StaysApart, turnVars, guessVars,
    nodeVars, runVars
<1>2. CASE Stopping
  BY <1>2 DEF Stopping, StreamFails, CancelledAtEnd, SettleFails, turnVars, guessVars, nodeVars,
    runVars
<1>3. CASE Written
  <2>1. CASE \/ (\E k \in Guesses : ConfirmWritten(k))
             \/ (\E k \in Guesses : ForkWritten(k))
             \/ (\E k \in Guesses : CancelledAtConfirm(k))
             \/ (\E k \in Guesses : CancelledAtFork(k))
             \/ (\E k \in Guesses : SquashDiscarded(k))
    BY <2>1 DEF ConfirmWritten, ForkWritten, CancelledAtConfirm, CancelledAtFork,
      SquashDiscarded, FailureSeen, turnVars, guessVars, nodeVars, runVars, schedulerElse
  <2>2. CASE \/ (\E k \in Guesses : SquashResolved(k))
             \/ (\E k \in Guesses, who \in {"turn", "node"} : DropDiscarded(who, k))
             \/ (\E k \in Guesses, who \in {"turn", "node"} : DropResolved(who, k))
             \/ (\E k \in Guesses : GuessRequested(k))
             \/ (\E k \in Guesses : GuessStaged(k))
    BY <2>2 DEF SquashResolved, DropDiscarded, DropResolved, GuessRequested, GuessStaged,
      FailureSeen, turnVars, guessVars, nodeVars, runVars, schedulerElse
  <2>3. CASE (\E k \in Blocks : StageWritten(k))
    BY <2>3 DEF StageWritten, FailureSeen, turnVars, guessVars, nodeVars, runVars, schedulerElse
  <2>4. CASE AnswerWritten \/ CancelledAtAnswer \/ FailureWritten \/ OwnStaged \/ NobodyWaits
    BY <2>4 DEF AnswerWritten, CancelledAtAnswer, FailureWritten, OwnStaged, NobodyWaits,
      FailureSeen, turnVars, guessVars, nodeVars, runVars, schedulerElse
  <2>5. CASE NodeStaged
    BY <2>5 DEF NodeStaged, FailureSeen, turnVars, guessVars, nodeVars, runVars, schedulerElse
  <2> QED
    BY <1>3, <2>1, <2>2, <2>3, <2>4, <2>5 DEF Written
<1>4. CASE Beside
  BY <1>4 DEF Beside, EarlyRead, GuessReads, GuessReleased, turnVars, guessVars, nodeVars,
    runVars
<1>5. CASE NodeStep
  BY <1>5 DEF NodeStep, NodeWrites, LeaveSquash, LeaveDrop, NodeDone, turnVars, guessVars,
    nodeVars, runVars
<1>6. CASE RunStep
  BY <1>6 DEF RunStep, EndDrive, turnVars, guessVars, nodeVars, runVars, schedulerElse
<1> QED
  BY <1>1, <1>2, <1>3, <1>4, <1>5, <1>6 DEF Next, AnswerArrives, NodeReturns, Finished, vars,
    turnVars, guessVars, nodeVars, runVars

\* What is staged is sent in order.
LEMMA DrainingKept ==
  ASSUME TypeOK, EntriesAreDue, OwnFirst, Progress, LaterLast, Draining, [Next]_vars
  PROVE  Draining'
<1> USE DEF Draining, Sent, turnVars, guessVars, nodeVars, runVars, schedulerElse
<1>1. CASE UNCHANGED <<list, settled, run, sending>>
  BY <1>1
<1>2. CASE AdoptNothing
  <2>1. list' = list /\ UNCHANGED <<settled, run, sending>>
    BY <1>2 DEF AdoptNothing, Adopt
  <2> QED
    BY <2>1
<1>3. ASSUME NEW k \in Guesses, AdoptionWritten(k)
      PROVE  Draining'
  <2>1. /\ k = at /\ UNCHANGED <<settled, run, sending>>
        /\ list' = list \/ list' = list \cup {at}
    BY <1>3, WrittenWhenDue DEF AdoptionWritten, Adopt
  <2>2. at \in Nat /\ \A c \in list : c \in Own .. Asked /\ c < at
    BY <1>3, NextComesLast, Numbers, SMTT(20) DEF AdoptionWritten, UnderWay, TypeOK
  <2>3. settled \subseteq list
    BY DEF TypeOK
  <2> QED
    BY <2>1, <2>2, <2>3, Numbers
<1>4. ASSUME NEW k \in Blocks, RequestWritten(k)
      PROVE  Draining'
  <2>1. /\ k = at /\ UNCHANGED <<settled, run, sending>>
        /\ list' = list \/ list' = list \cup {at}
    BY <1>4, WrittenWhenDue DEF RequestWritten
  <2>2. at \in Nat /\ \A c \in list : c \in Own .. Asked /\ c < at
    BY <1>4, NextComesLast, Numbers, SMTT(20) DEF RequestWritten, UnderWay, TypeOK
  <2>3. settled \subseteq list
    BY DEF TypeOK
  <2> QED
    BY <2>1, <2>2, <2>3, Numbers
<1>5. CASE OwnRequested
  <2>1. list = {} /\ settled = {} /\ run \in {"quiesce", "confirm"}
    BY <1>5, WrittenWhenDue DEF OwnRequested, OwnFirst, TypeOK
  <2>2. (list' = list \/ list' = {Own}) /\ UNCHANGED <<settled, run, sending>>
    BY <1>5, <2>1 DEF OwnRequested
  <2> QED
    BY <2>1, <2>2
<1>6. CASE NodeRequested
  <2>1. list' = list \cup {Later} /\ UNCHANGED <<settled, run, sending>> /\ settled \subseteq list
    BY <1>6 DEF NodeRequested, TypeOK
  <2>2. node = "request"
    BY <1>6, WrittenWhenDue DEF NodeRequested
  <2>3. Later \notin list
    BY <2>2 DEF LaterLast, Returned
  <2>4. \A c \in list : c \in Nat /\ c < Later
    BY <2>3, Numbers DEF TypeOK
  <2>5. sending \in list => sending < Later
    BY <2>4
  <2> QED
    BY <2>1, <2>4, <2>5, Numbers
<1>7. CASE Wakes
  BY <1>7 DEF Wakes, NodeAtRest
<1>8. CASE NodeConfirmed
  BY <1>8, WrittenWhenDue DEF NodeConfirmed
<1>9. ASSUME NEW e \in Calls, Claim(e)
      PROVE  Draining'
  <2>1. /\ run = "drain" /\ run' = "claim" /\ sending' = e /\ UNCHANGED <<list, settled>>
       /\ e \in list \ settled /\ \A d \in list \ settled : Position(e) <= Position(d)
    BY <1>9 DEF Claim, FirstPending, Pending
  <2>2. list \subseteq 0 .. Asked + 1 /\ cursor \in Nat
    BY Numbers DEF TypeOK
  <2>3. ASSUME NEW d \in list \ settled
        PROVE  e <= d
    <3>1. Position(e) <= Position(d)
      BY <2>1
    <3>2. e \in Nat /\ d \in Nat /\ e <= Asked + 1 /\ d <= Asked + 1
      BY <2>1, <2>2, Numbers
    <3>3. CASE e = Later
      BY <2>1, <2>2, <3>1, <3>2, <3>3, PositionOf, Numbers DEF LaterLast, Undecided
    <3>4. CASE e # Later /\ d # Later
      BY <3>1, <3>2, <3>4, PositionOf, Numbers
    <3>5. CASE d = Later
      BY <3>2, <3>5, Numbers
    <3> QED
      BY <3>3, <3>4, <3>5
  <2> QED
    BY <2>1, <2>3
<1>10. CASE Claimed
  BY <1>10, WrittenWhenDue DEF Claimed
<1>11. CASE Deliver
  <2>1. /\ run = "send" /\ run' = "settle" /\ UNCHANGED <<list, settled, sending>>
       /\ settled \subseteq list /\ list \subseteq 0 .. Asked + 1
    BY <1>11, Numbers DEF Deliver, TypeOK
  <2> QED
    BY <2>1, Numbers
<1>12. CASE Settled
  <2>1. run = "settle" /\ run' = "drain" /\ UNCHANGED <<list, sending>> /\ settled' = settled \cup {sending}
    BY <1>12, WrittenWhenDue DEF Settled
  <2> QED
    BY <2>1
<1>13. CASE DrainOver
  BY <1>13 DEF DrainOver, Pending
<1>14. CASE Retired
  BY <1>14, WrittenWhenDue DEF Retired
<1> HIDE DEF Draining, Sent, turnVars, guessVars, nodeVars, runVars, schedulerElse
<1> QED
  BY <1>1, <1>2, <1>3, <1>4, <1>5, <1>6, <1>7, <1>8, <1>9, <1>10, <1>11, <1>12, <1>13, <1>14,
    DrainSteps

\* Who moves the node past its turn, and the branch's position.
LEMMA LaterSteps ==
  ASSUME [Next]_vars
  PROVE  \/ UNCHANGED <<turn, pc, at, node, cursor, list>>
        \/ BlockUnguessed \/ BlockConfirms \/ BlockMisses \/ MissIsOver
        \/ (\E k \in Guesses : ConfirmWritten(k)) \/ NoGuess
        \/ (\E hit \in BOOLEAN : Guess(hit)) \/ (\E k \in Guesses : ForkWritten(k))
        \/ CutIsOver \/ ReplyEnds \/ ReplyUnwritten \/ AnswerWritten \/ EndIsOver
        \/ StreamFails \/ (\E k \in Guesses : CancelledAtConfirm(k))
        \/ (\E k \in Guesses : CancelledAtFork(k)) \/ CancelledAtAnswer \/ FailureWritten
        \/ FailureUnwritten \/ CleanUp \/ TurnFails \/ BeginAdoption \/ AdoptNothing
        \/ (\E k \in Guesses : AdoptionWritten(k)) \/ AwaitEarly \/ SlotDone \/ MakeCall
        \/ (\E k \in Blocks : RequestWritten(k)) \/ ReadInOrder
        \/ (\E k \in Blocks : StageWritten(k)) \/ Acknowledged \/ TurnDone \/ SettleFails
        \/ StopSettling \/ SettlingStopped \/ CancelledAtEnd \/ OwnRequested \/ NodeWrites
        \/ NodeRequested \/ NodeStaged \/ NodeReturns \/ LeaveSquash \/ LeaveDrop
        \/ NodeDone
<1>1. CASE TurnStep
  BY <1>1 DEF TurnStep, TakeBlock, FailureSeen, StaysApart, turnVars, guessVars, nodeVars,
    runVars
<1>2. CASE Stopping
  BY <1>2 DEF Stopping, TakeBlock, turnVars, guessVars, nodeVars, runVars
<1>3. CASE Written
  <2>1. CASE \/ (\E k \in Guesses : SquashDiscarded(k))
             \/ (\E k \in Guesses : SquashResolved(k))
             \/ (\E k \in Guesses, who \in {"turn", "node"} : DropDiscarded(who, k))
             \/ (\E k \in Guesses, who \in {"turn", "node"} : DropResolved(who, k))
             \/ (\E k \in Guesses : GuessRequested(k))
    BY <2>1 DEF SquashDiscarded, SquashResolved, DropDiscarded, DropResolved, GuessRequested,
      TakeBlock, FailureSeen, turnVars, guessVars, nodeVars, runVars, schedulerElse
  <2>2. CASE (\E k \in Guesses : GuessStaged(k))
    BY <2>2 DEF GuessStaged, TakeBlock, FailureSeen, turnVars, guessVars, nodeVars, runVars,
      schedulerElse
  <2>3. CASE OwnStaged \/ NobodyWaits \/ NodeConfirmed \/ Claimed \/ Settled
    BY <2>3 DEF OwnStaged, NobodyWaits, NodeConfirmed, Claimed, Settled, TakeBlock, FailureSeen,
      turnVars, guessVars, nodeVars, runVars, schedulerElse
  <2>4. CASE Retired
    BY <2>4 DEF Retired, TakeBlock, FailureSeen, turnVars, guessVars, nodeVars, runVars,
      schedulerElse
  <2> QED
    BY <1>3, <2>1, <2>2, <2>3, <2>4 DEF Written
<1>4. CASE Beside
  BY <1>4 DEF Beside, EarlyRead, GuessReads, GuessReleased, TakeBlock, turnVars, guessVars,
    nodeVars, runVars
<1>5. CASE NodeStep
  BY <1>5 DEF NodeStep, TakeBlock, turnVars, guessVars, nodeVars, runVars
<1>6. CASE RunStep
  BY <1>6 DEF RunStep, Wakes, Claim, Deliver, DrainOver, EndDrive, TakeBlock, turnVars,
    guessVars, nodeVars, runVars, schedulerElse
<1> QED
  BY <1>1, <1>2, <1>3, <1>4, <1>5, <1>6 DEF Next, AnswerArrives, Finished, vars, turnVars,
    guessVars, nodeVars, runVars

\* The node's own next write comes after its turn.
LEMMA LaterLastKept ==
  ASSUME TypeOK, EntriesAreDue, OwnFirst, Phases, Places, LaterLast, [Next]_vars
  PROVE  LaterLast'
<1> USE DEF LaterLast, UnderWay, Returned, Undecided, turnVars, guessVars, nodeVars, runVars,
    schedulerElse
<1>1. CASE UNCHANGED <<turn, pc, at, node, cursor, list>>
  BY <1>1
<1>2. CASE BlockUnguessed
  BY <1>2 DEF BlockUnguessed, AtBlock, TakeBlock
<1>3. CASE BlockConfirms
  BY <1>3 DEF BlockConfirms, AtBlock, StaysApart
<1>4. CASE BlockMisses
  BY <1>4 DEF BlockMisses, AtBlock, Squash
<1>5. CASE MissIsOver
  BY <1>5 DEF MissIsOver, TakeBlock
<1>6. ASSUME NEW k \in Guesses, ConfirmWritten(k)
      PROVE  LaterLast'
  BY <1>6, WrittenWhenDue DEF ConfirmWritten, TakeBlock
<1>7. CASE NoGuess
  BY <1>7 DEF NoGuess
<1>8. ASSUME NEW hit \in BOOLEAN, Guess(hit)
      PROVE  LaterLast'
  BY <1>8 DEF Guess
<1>9. ASSUME NEW k \in Guesses, ForkWritten(k)
      PROVE  LaterLast'
  BY <1>9, WrittenWhenDue DEF ForkWritten, Squash
<1>10. CASE CutIsOver
  BY <1>10 DEF CutIsOver
<1>11. CASE ReplyEnds
  BY <1>11 DEF ReplyEnds
<1>12. CASE ReplyUnwritten
  BY <1>12 DEF ReplyUnwritten
<1>13. CASE AnswerWritten
  BY <1>13, WrittenWhenDue DEF AnswerWritten, Squash
<1>14. CASE EndIsOver
  BY <1>14 DEF EndIsOver
<1>15. CASE StreamFails
  BY <1>15 DEF StreamFails
<1>16. ASSUME NEW k \in Guesses, CancelledAtConfirm(k)
      PROVE  LaterLast'
  BY <1>16, WrittenWhenDue DEF CancelledAtConfirm
<1>17. ASSUME NEW k \in Guesses, CancelledAtFork(k)
      PROVE  LaterLast'
  BY <1>17, WrittenWhenDue DEF CancelledAtFork
<1>18. CASE CancelledAtAnswer
  BY <1>18, WrittenWhenDue DEF CancelledAtAnswer
<1>19. CASE FailureWritten
  BY <1>19, WrittenWhenDue DEF FailureWritten, FailureSeen, Squash
<1>20. CASE FailureUnwritten
  BY <1>20 DEF FailureUnwritten, FailureSeen, Squash
<1>21. CASE CleanUp
  BY <1>21 DEF CleanUp, Abandon
<1>22. CASE TurnFails
  BY <1>22 DEF TurnFails
<1>23. CASE BeginAdoption
  BY <1>23 DEF BeginAdoption, AtResult
<1>24. CASE AdoptNothing
  BY <1>24 DEF AdoptNothing, AtResult, Adopt
<1>25. ASSUME NEW k \in Guesses, AdoptionWritten(k)
      PROVE  LaterLast'
  <2>1. UnderWay /\ UNCHANGED node /\ Later \notin list /\ k # Later
    BY <1>25, WrittenWhenDue, Numbers DEF AdoptionWritten, Phases, Settling, TypeOK
  <2>2. list' \subseteq list \cup {k}
    BY <1>25 DEF AdoptionWritten, Adopt
  <2> QED
    BY <2>1, <2>2
<1>26. CASE AwaitEarly
  BY <1>26 DEF AwaitEarly, AtResult
<1>27. CASE SlotDone
  BY <1>27 DEF SlotDone
<1>28. CASE MakeCall
  BY <1>28 DEF MakeCall, AtResult
<1>29. ASSUME NEW k \in Blocks, RequestWritten(k)
      PROVE  LaterLast'
  <2>1. UnderWay /\ UNCHANGED node /\ Later \notin list /\ k # Later
    BY <1>29, WrittenWhenDue, Numbers DEF RequestWritten
  <2>2. list' \subseteq list \cup {k}
    BY <1>29 DEF RequestWritten
  <2> QED
    BY <2>1, <2>2
<1>30. CASE ReadInOrder
  BY <1>30 DEF ReadInOrder
<1>31. ASSUME NEW k \in Blocks, StageWritten(k)
      PROVE  LaterLast'
  BY <1>31, WrittenWhenDue DEF StageWritten
<1>32. CASE Acknowledged
  BY <1>32 DEF Acknowledged
<1>33. CASE TurnDone
  BY <1>33 DEF TurnDone
<1>34. CASE SettleFails
  BY <1>34 DEF SettleFails
<1>35. CASE StopSettling
  BY <1>35 DEF StopSettling
<1>36. CASE SettlingStopped
  BY <1>36 DEF SettlingStopped, Abandon
<1>37. CASE CancelledAtEnd
  BY <1>37 DEF CancelledAtEnd
<1>38. CASE OwnRequested
  <2>1. UNCHANGED <<node, pc, turn, cursor, at>> /\ list = {} /\ list' \subseteq {Own} /\ Own # Later
    BY <1>38, WrittenWhenDue, Numbers DEF OwnRequested, OwnFirst
  <2>2. node \notin {"stage", "ack"}
    BY <2>1
  <2> QED
    BY <2>1, <2>2
<1>39. CASE NodeWrites
  BY <1>39 DEF NodeWrites
<1>40. CASE NodeRequested
  <2>1. /\ node = "request" /\ node' = "stage" /\ list' = list \cup {Later}
        /\ UNCHANGED <<pc, turn, cursor, at>>
    BY <1>40, WrittenWhenDue DEF NodeRequested
  <2>2. ~UnderWay /\ turn # "none" /\ ~Returned /\ (pc = "done" => got = Asked)
    BY <2>1 DEF Phases, Passed
  <2>3. cursor = Base + Asked + 1 \/ (cursor = Base + 1 /\ Undecided)
    BY <2>1, <2>2 DEF Places, OfNode, Passed
  <2>4. Undecided => Undecided'
    BY <2>1, Numbers DEF Undecided
  <2> QED
    BY <2>1, <2>2, <2>3, <2>4
<1>41. CASE NodeStaged
  BY <1>41, WrittenWhenDue DEF NodeStaged
<1>42. CASE NodeReturns
  BY <1>42 DEF NodeReturns
<1>43. CASE LeaveSquash
  BY <1>43 DEF LeaveSquash, Squash, NothingUnderWay
<1>44. CASE LeaveDrop
  BY <1>44 DEF LeaveDrop, NothingUnderWay
<1>45. CASE NodeDone
  BY <1>45 DEF NodeDone
<1> HIDE DEF LaterLast, UnderWay, Returned, Undecided, turnVars, guessVars, nodeVars, runVars,
    schedulerElse
<1> QED
  BY <1>1, <1>2, <1>3, <1>4, <1>5, <1>6, <1>7, <1>8, <1>9, <1>10, <1>11, <1>12, <1>13, <1>14,
    <1>15, <1>16, <1>17, <1>18, <1>19, <1>20, <1>21, <1>22, <1>23, <1>24, <1>25, <1>26, <1>27,
    <1>28, <1>29, <1>30, <1>31, <1>32, <1>33, <1>34, <1>35, <1>36, <1>37, <1>38, <1>39, <1>40,
    <1>41, <1>42, <1>43, <1>44, <1>45, LaterSteps

\* Who takes positions, gives them back, or stops needing them.
LEMMA PlaceSteps ==
  ASSUME [Next]_vars
  PROVE  \/ UNCHANGED <<pc, got, at, answered, node, cursor, list>>
        \/ AnswerArrives \/ BlockUnguessed \/ BlockConfirms \/ BlockMisses \/ MissIsOver
        \/ (\E k \in Guesses : ConfirmWritten(k)) \/ NoGuess
        \/ (\E hit \in BOOLEAN : Guess(hit)) \/ (\E k \in Guesses : ForkWritten(k))
        \/ CutIsOver \/ ReplyEnds \/ ReplyUnwritten \/ AnswerWritten \/ EndIsOver
        \/ StreamFails \/ (\E k \in Guesses : CancelledAtConfirm(k))
        \/ (\E k \in Guesses : CancelledAtFork(k)) \/ CancelledAtAnswer \/ FailureWritten
        \/ FailureUnwritten \/ CleanUp \/ TurnFails \/ BeginAdoption \/ AdoptNothing
        \/ (\E k \in Guesses : AdoptionWritten(k)) \/ AwaitEarly \/ SlotDone \/ MakeCall
        \/ (\E k \in Blocks : RequestWritten(k)) \/ ReadInOrder
        \/ (\E k \in Blocks : StageWritten(k)) \/ Acknowledged \/ TurnDone \/ SettleFails
        \/ StopSettling \/ SettlingStopped \/ CancelledAtEnd \/ OwnRequested \/ NodeWrites
        \/ NodeRequested \/ NodeStaged \/ NodeReturns \/ LeaveSquash \/ LeaveDrop
        \/ NodeDone
<1>1. CASE TurnStep
  BY <1>1 DEF TurnStep, TakeBlock, FailureSeen, StaysApart, turnVars, guessVars, nodeVars,
    runVars
<1>2. CASE Stopping
  BY <1>2 DEF Stopping, TakeBlock, turnVars, guessVars, nodeVars, runVars
<1>3. CASE Written
  <2>1. CASE \/ (\E k \in Guesses : SquashDiscarded(k))
             \/ (\E k \in Guesses : SquashResolved(k))
             \/ (\E k \in Guesses, who \in {"turn", "node"} : DropDiscarded(who, k))
             \/ (\E k \in Guesses, who \in {"turn", "node"} : DropResolved(who, k))
             \/ (\E k \in Guesses : GuessRequested(k))
    BY <2>1 DEF SquashDiscarded, SquashResolved, DropDiscarded, DropResolved, GuessRequested,
      TakeBlock, FailureSeen, turnVars, guessVars, nodeVars, runVars, schedulerElse
  <2>2. CASE (\E k \in Guesses : GuessStaged(k))
    BY <2>2 DEF GuessStaged, TakeBlock, FailureSeen, turnVars, guessVars, nodeVars, runVars,
      schedulerElse
  <2>3. CASE OwnStaged \/ NobodyWaits \/ NodeConfirmed \/ Claimed \/ Settled
    BY <2>3 DEF OwnStaged, NobodyWaits, NodeConfirmed, Claimed, Settled, TakeBlock, FailureSeen,
      turnVars, guessVars, nodeVars, runVars, schedulerElse
  <2>4. CASE Retired
    BY <2>4 DEF Retired, TakeBlock, FailureSeen, turnVars, guessVars, nodeVars, runVars,
      schedulerElse
  <2> QED
    BY <1>3, <2>1, <2>2, <2>3, <2>4 DEF Written
<1>4. CASE Beside
  BY <1>4 DEF Beside, EarlyRead, GuessReads, GuessReleased, TakeBlock, turnVars, guessVars,
    nodeVars, runVars
<1>5. CASE NodeStep
  BY <1>5 DEF NodeStep, TakeBlock, turnVars, guessVars, nodeVars, runVars
<1>6. CASE RunStep
  BY <1>6 DEF RunStep, Wakes, Claim, Deliver, DrainOver, EndDrive, TakeBlock, turnVars,
    guessVars, nodeVars, runVars, schedulerElse
<1> QED
  BY <1>1, <1>2, <1>3, <1>4, <1>5, <1>6 DEF Next, Finished, vars, turnVars, guessVars, nodeVars,
    runVars

\* The positions a turn takes, and those it leaves taken.
LEMMA PlacesKept ==
  ASSUME TypeOK, EntriesAreDue, OwnFirst, Phases, Progress, LaterLast, Places, [Next]_vars
  PROVE  Places'
<1> USE DEF Places, OfNode, Streaming, Settling, Passed, UnderWay, Returned, Undecided,
    turnVars, guessVars, nodeVars, runVars, schedulerElse
<1>1. CASE UNCHANGED <<pc, got, at, answered, node, cursor, list>>
  BY <1>1
<1>2. CASE AnswerArrives
  BY <1>2 DEF AnswerArrives
<1>3. CASE BlockUnguessed
  BY <1>3, Numbers DEF BlockUnguessed, AtBlock, TakeBlock, Reserve, Furthest, TypeOK, Phases
<1>4. CASE BlockConfirms
  BY <1>4 DEF BlockConfirms, AtBlock, StaysApart
<1>5. CASE BlockMisses
  BY <1>5 DEF BlockMisses, AtBlock, Squash
<1>6. CASE MissIsOver
  BY <1>6, Numbers DEF MissIsOver, TakeBlock, Reserve, Furthest, TypeOK, Phases, AtBlock
<1>7. ASSUME NEW k \in Guesses, ConfirmWritten(k)
      PROVE  Places'
  BY <1>7, WrittenWhenDue, Numbers DEF ConfirmWritten, TakeBlock, Reserve, Furthest, TypeOK,
    Phases, AtBlock
<1>8. CASE NoGuess
  BY <1>8 DEF NoGuess
<1>9. ASSUME NEW hit \in BOOLEAN, Guess(hit)
      PROVE  Places'
  BY <1>9 DEF Guess
<1>10. ASSUME NEW k \in Guesses, ForkWritten(k)
      PROVE  Places'
  BY <1>10, WrittenWhenDue DEF ForkWritten, Squash
<1>11. CASE CutIsOver
  BY <1>11 DEF CutIsOver
<1>12. CASE ReplyEnds
  BY <1>12 DEF ReplyEnds
<1>13. CASE ReplyUnwritten
  BY <1>13 DEF ReplyUnwritten
<1>14. CASE AnswerWritten
  BY <1>14, WrittenWhenDue DEF AnswerWritten, Squash
<1>15. CASE EndIsOver
  BY <1>15 DEF EndIsOver
<1>16. CASE StreamFails
  BY <1>16 DEF StreamFails
<1>17. ASSUME NEW k \in Guesses, CancelledAtConfirm(k)
      PROVE  Places'
  BY <1>17, WrittenWhenDue DEF CancelledAtConfirm
<1>18. ASSUME NEW k \in Guesses, CancelledAtFork(k)
      PROVE  Places'
  BY <1>18, WrittenWhenDue DEF CancelledAtFork
<1>19. CASE CancelledAtAnswer
  BY <1>19, WrittenWhenDue DEF CancelledAtAnswer
<1>20. CASE FailureWritten
  BY <1>20, WrittenWhenDue DEF FailureWritten, FailureSeen, Squash, PositionsGivenBack, GiveBack
<1>21. CASE FailureUnwritten
  BY <1>21 DEF FailureUnwritten, FailureSeen, Squash, PositionsGivenBack, GiveBack
<1>22. CASE CleanUp
  BY <1>22 DEF CleanUp, Abandon
<1>23. CASE TurnFails
  BY <1>23, Numbers DEF TurnFails, PositionsGivenBack, GiveBack, Phases, Progress, TypeOK
<1>24. CASE BeginAdoption
  BY <1>24 DEF BeginAdoption, AtResult
<1>25. CASE AdoptNothing
  BY <1>25 DEF AdoptNothing, AtResult, Adopt
<1>26. ASSUME NEW k \in Guesses, AdoptionWritten(k)
      PROVE  Places'
  <2>1. UNCHANGED <<node, cursor, got, answered, at>> /\ Later # k /\ UnderWay /\ UnderWay'
        /\ (list' = list \/ list' = list \cup {k})
    BY <1>26, WrittenWhenDue, Numbers DEF AdoptionWritten, Adopt, Phases, TypeOK
  <2>2. pc = "adopt" /\ pc' \in Settling \cup {"stopping"}
    BY <1>26 DEF AdoptionWritten, Adopt
  <2> QED
    BY <2>1, <2>2
<1>27. CASE AwaitEarly
  BY <1>27 DEF AwaitEarly, AtResult
<1>28. CASE SlotDone
  BY <1>28 DEF SlotDone
<1>29. CASE MakeCall
  BY <1>29 DEF MakeCall, AtResult
<1>30. ASSUME NEW k \in Blocks, RequestWritten(k)
      PROVE  Places'
  BY <1>30, WrittenWhenDue DEF RequestWritten, StillStages
<1>31. CASE ReadInOrder
  BY <1>31 DEF ReadInOrder
<1>32. ASSUME NEW k \in Blocks, StageWritten(k)
      PROVE  Places'
  BY <1>32, WrittenWhenDue DEF StageWritten
<1>33. CASE Acknowledged
  BY <1>33 DEF Acknowledged
<1>34. CASE TurnDone
  BY <1>34, Numbers DEF TurnDone, Reserve, Furthest, TypeOK, Phases
<1>35. CASE SettleFails
  BY <1>35 DEF SettleFails
<1>36. CASE StopSettling
  BY <1>36 DEF StopSettling
<1>37. CASE SettlingStopped
  BY <1>37 DEF SettlingStopped, Abandon, Phases
<1>38. CASE CancelledAtEnd
  BY <1>38 DEF CancelledAtEnd, Phases
<1>39. CASE OwnRequested
  <2>1. UNCHANGED <<node, cursor, got, answered, at, pc>> /\ list = {} /\ list' \subseteq {Own}
    BY <1>39, WrittenWhenDue DEF OwnRequested, OwnFirst
  <2>2. list' \cap Blocks = {} /\ Later \notin list'
    BY <2>1, Numbers
  <2> QED
    BY <2>1, <2>2
<1>40. CASE NodeWrites
  <2>1. /\ node = "turn" /\ node' = "request" /\ cursor' = cursor + 1 /\ pc \in {"done", "failed"}
        /\ UNCHANGED <<pc, got, answered, at, list>>
    BY <1>40 DEF NodeWrites
  <2>2. cursor \in Nat /\ got \in Nat
    BY Numbers DEF TypeOK
  <2> QED
    BY <2>1, <2>2, Numbers
<1>41. CASE NodeRequested
  <2>1. /\ node = "request" /\ node' = "stage" /\ list' = list \cup {Later}
        /\ UNCHANGED <<cursor, pc, got, answered, at>>
    BY <1>41, WrittenWhenDue DEF NodeRequested
  <2>2. list' \cap Blocks = list \cap Blocks
    BY <2>1, Numbers
  <2> QED
    BY <2>1, <2>2
<1>42. CASE NodeStaged
  BY <1>42, WrittenWhenDue DEF NodeStaged
<1>43. CASE NodeReturns
  <2>1. /\ node' = "leaving" /\ UNCHANGED <<pc, got, answered, at, list>> /\ ~Returned
        /\ node \in {"turn", "ack"} /\ (node = "turn" => Later \notin list)
        /\ (node = "ack" => Later \in list /\ ~UnderWay)
    BY <1>43 DEF NodeReturns, Phases, LaterLast
  <2>2. cursor \in Nat /\ got \in 0 .. Asked /\ answered \in BOOLEAN
    BY Numbers DEF TypeOK
  <2>3. CASE UnderWay
    <3>1. cursor' = IF answered THEN Base + Asked ELSE Base
      <4>1. cursor' = IF answered THEN Furthest(cursor, Base + Asked) ELSE Base
        BY <1>43, <2>3 DEF NodeReturns
      <4>2. cursor <= Base + Asked
        BY <2>1, <2>2, <2>3, Numbers DEF TypeOK, TurnStates
      <4> QED
        BY <4>1, <4>2, <2>2, Numbers DEF Furthest
    <3>2. cursor' = Base + (IF answered THEN Asked ELSE 0) + 0
      BY <3>1, Numbers
    <3> QED
      BY <2>1, <2>2, <2>3, <3>2, Numbers
  <2>4. CASE ~UnderWay
    <3>1. cursor' = cursor
      BY <1>43, <2>4 DEF NodeReturns
    <3>2. pc = "done" => got = Asked /\ answered
      BY DEF Phases
    <3> QED
      BY <2>1, <2>2, <2>4, <3>1, <3>2, Numbers
  <2> QED
    BY <2>3, <2>4
<1>44. CASE LeaveSquash
  BY <1>44 DEF LeaveSquash, Squash, NothingUnderWay
<1>45. CASE LeaveDrop
  BY <1>45 DEF LeaveDrop, NothingUnderWay
<1>46. CASE NodeDone
  BY <1>46 DEF NodeDone
<1> HIDE DEF Places, OfNode, Streaming, Settling, Passed, UnderWay, Returned, Undecided,
    turnVars, guessVars, nodeVars, runVars, schedulerElse
<1> QED
  BY <1>1, <1>2, <1>3, <1>4, <1>5, <1>6, <1>7, <1>8, <1>9, <1>10, <1>11, <1>12, <1>13, <1>14,
    <1>15, <1>16, <1>17, <1>18, <1>19, <1>20, <1>21, <1>22, <1>23, <1>24, <1>25, <1>26, <1>27,
    <1>28, <1>29, <1>30, <1>31, <1>32, <1>33, <1>34, <1>35, <1>36, <1>37, <1>38, <1>39, <1>40,
    <1>41, <1>42, <1>43, <1>44, <1>45, <1>46, PlaceSteps

\* A discard closes guesses that were confirmed, and touches no other.
LEMMA DropLeaves ==
  ASSUME TypeOK, EntriesAreDue, Discarding, NEW c \in Guesses,
         \/ LeaveDrop \/ CleanUp \/ StopSettling
         \/ \E k \in Guesses, who \in {"turn", "node"} : DropDiscarded(who, k) \/ DropResolved(who, k)
  PROVE  \/ guess'[c] = guess[c] /\ held'[c] = held[c]
         \/ guess[c] \in {"confirmed", "dropped"} /\ guess'[c] = "dropped" /\ ~held'[c]
<1>1. ASSUME NEW who \in {"turn", "node"}, NEW D \in SUBSET Guesses, NEW written, Drop(who, D, written),
             \A d \in D : guess[d] \in {"confirmed", "dropped"}
      PROVE  \/ guess'[c] = guess[c] /\ held'[c] = held[c]
             \/ guess[c] \in {"confirmed", "dropped"} /\ guess'[c] = "dropped" /\ ~held'[c]
  <2>1. /\ Closes(D) \subseteq D
        /\ dropping' = [dropping EXCEPT ![who] = IF over THEN {} ELSE D]
        /\ over => Closes(D) = D
        /\ guess' = [g \in Guesses |-> IF g \in Closes(D) THEN "dropped" ELSE guess[g]]
        /\ held' = [g \in Guesses |-> held[g] /\ g \notin Closes(D)]
    BY <1>1, DropEffect
  <2>2. CASE c \in Closes(D)
    BY <1>1, <2>1, <2>2
  <2>3. CASE c \notin Closes(D)
    BY <2>1, <2>3 DEF TypeOK
  <2> QED
    BY <2>2, <2>3
<1>2. Kept \in SUBSET Guesses /\ \A d \in Kept : guess[d] \in {"confirmed", "dropped"}
  BY DEF Kept
<1>3. CASE LeaveDrop
  <2>1. Drop("node", Kept, queue)
    BY <1>3 DEF LeaveDrop
  <2> QED
    BY <1>1, <1>2, <2>1
<1>4. CASE CleanUp \/ StopSettling
  <2>1. Drop("turn", Kept, queue)
    BY <1>4 DEF CleanUp, StopSettling
  <2> QED
    BY <1>1, <1>2, <2>1
<1>5. ASSUME NEW k \in Guesses, NEW who \in {"turn", "node"}, DropDiscarded(who, k) \/ DropResolved(who, k)
      PROVE  \/ guess'[c] = guess[c] /\ held'[c] = held[c]
             \/ guess[c] \in {"confirmed", "dropped"} /\ guess'[c] = "dropped" /\ ~held'[c]
  <2>1. \/ Drop(who, dropping[who] \ {k}, Tail(queue))
        \/ UNCHANGED <<guess, held>>
    BY <1>5 DEF DropDiscarded, DropResolved
  <2>2. dropping[who] \ {k} \in SUBSET Guesses
    BY DEF TypeOK
  <2>3. \A d \in dropping[who] \ {k} : guess[d] \in {"confirmed", "dropped"}
    BY DEF Discarding
  <2> QED
    BY <1>1, <2>1, <2>2, <2>3
<1> QED
  BY <1>3, <1>4, <1>5

\* Who makes the turn's calls, and who moves a guess's write.
LEMMA ProgressSteps ==
  ASSUME [Next]_vars
  PROVE  \/ UNCHANGED <<turn, pc, at, guess, held, dropping, list, settled>>
        \/ BlockUnguessed \/ BlockConfirms \/ BlockMisses \/ MissIsOver
        \/ (\E k \in Guesses : ConfirmWritten(k)) \/ NoGuess
        \/ (\E hit \in BOOLEAN : Guess(hit)) \/ (\E k \in Guesses : ForkWritten(k))
        \/ CutIsOver \/ ReplyEnds \/ ReplyUnwritten \/ AnswerWritten \/ EndIsOver
        \/ StreamFails \/ (\E k \in Guesses : CancelledAtConfirm(k))
        \/ (\E k \in Guesses : CancelledAtFork(k)) \/ CancelledAtAnswer \/ FailureWritten
        \/ FailureUnwritten \/ CleanUp \/ TurnFails \/ BeginAdoption \/ AdoptNothing
        \/ (\E k \in Guesses : AdoptionWritten(k)) \/ AwaitEarly \/ SlotDone \/ MakeCall
        \/ (\E k \in Blocks : RequestWritten(k)) \/ ReadInOrder
        \/ (\E k \in Blocks : StageWritten(k)) \/ Acknowledged \/ TurnDone \/ SettleFails
        \/ StopSettling \/ SettlingStopped \/ CancelledAtEnd
        \/ (\E k \in Guesses, who \in {"turn", "node"} : DropDiscarded(who, k))
        \/ (\E k \in Guesses, who \in {"turn", "node"} : DropResolved(who, k))
        \/ (\E k \in Guesses : GuessRequested(k)) \/ OwnRequested \/ NodeRequested
        \/ LeaveSquash \/ LeaveDrop \/ Settled
<1>1. CASE TurnStep
  BY <1>1 DEF TurnStep, TakeBlock, FailureSeen, StaysApart, turnVars, guessVars, nodeVars,
    runVars
<1>2. CASE Stopping
  BY <1>2 DEF Stopping, TakeBlock, turnVars, guessVars, nodeVars, runVars
<1>3. CASE Written
  <2>1. CASE \/ (\E k \in Guesses : SquashDiscarded(k))
             \/ (\E k \in Guesses : SquashResolved(k))
             \/ (\E k \in Guesses : GuessStaged(k))
    BY <2>1 DEF SquashDiscarded, SquashResolved, GuessStaged, TakeBlock, FailureSeen, turnVars,
      guessVars, nodeVars, runVars, schedulerElse
  <2>2. CASE OwnStaged \/ NobodyWaits \/ NodeStaged \/ NodeConfirmed \/ Claimed
    BY <2>2 DEF OwnStaged, NobodyWaits, NodeStaged, NodeConfirmed, Claimed, TakeBlock,
      FailureSeen, turnVars, guessVars, nodeVars, runVars, schedulerElse
  <2>3. CASE Retired
    BY <2>3 DEF Retired, TakeBlock, FailureSeen, turnVars, guessVars, nodeVars, runVars,
      schedulerElse
  <2> QED
    BY <1>3, <2>1, <2>2, <2>3 DEF Written
<1>4. CASE Beside
  BY <1>4 DEF Beside, EarlyRead, GuessReads, GuessReleased, TakeBlock, turnVars, guessVars,
    nodeVars, runVars
<1>5. CASE NodeStep
  BY <1>5 DEF NodeStep, NodeWrites, NodeDone, TakeBlock, turnVars, guessVars, nodeVars, runVars
<1>6. CASE RunStep
  BY <1>6 DEF RunStep, Wakes, Claim, Deliver, DrainOver, EndDrive, TakeBlock, turnVars,
    guessVars, nodeVars, runVars, schedulerElse
<1> QED
  BY <1>1, <1>2, <1>3, <1>4, <1>5, <1>6 DEF Next, AnswerArrives, NodeReturns, Finished, vars,
    turnVars, guessVars, nodeVars, runVars

\* The calls of the reply are made in order, once it is decided.
LEMMA ProgressKept ==
  ASSUME TypeOK, EntriesAreDue, OwnFirst, Phases, Discarding, Guessing, Tasks, Progress, [Next]_vars
  PROVE  Progress'
<1> USE DEF Progress, Undecided, Settling, Passed, Kept, Returned, turnVars, guessVars,
    nodeVars, runVars, schedulerElse
<1>1. CASE UNCHANGED <<turn, pc, at, guess, held, dropping, list, settled>>
  BY <1>1
<1>2. CASE BlockUnguessed
  BY <1>2 DEF BlockUnguessed, AtBlock, TakeBlock
<1>3. CASE BlockConfirms
  BY <1>3 DEF BlockConfirms, AtBlock, StaysApart
<1>4. CASE BlockMisses
  BY <1>4 DEF BlockMisses, AtBlock, Squash
<1>5. CASE MissIsOver
  BY <1>5 DEF MissIsOver, TakeBlock
<1>6. ASSUME NEW k \in Guesses, ConfirmWritten(k)
      PROVE  Progress'
  BY <1>6, WrittenWhenDue DEF ConfirmWritten, TakeBlock
<1>7. CASE NoGuess
  BY <1>7 DEF NoGuess
<1>8. ASSUME NEW hit \in BOOLEAN, Guess(hit)
      PROVE  Progress'
  BY <1>8 DEF Guess
<1>9. ASSUME NEW k \in Guesses, ForkWritten(k)
      PROVE  Progress'
  BY <1>9, WrittenWhenDue DEF ForkWritten, Squash
<1>10. CASE CutIsOver
  BY <1>10 DEF CutIsOver
<1>11. CASE ReplyEnds
  BY <1>11 DEF ReplyEnds
<1>12. CASE ReplyUnwritten
  BY <1>12 DEF ReplyUnwritten
<1>13. CASE AnswerWritten
  BY <1>13, WrittenWhenDue DEF AnswerWritten, Squash
<1>14. CASE EndIsOver
  BY <1>14 DEF EndIsOver
<1>15. CASE StreamFails
  BY <1>15 DEF StreamFails
<1>16. ASSUME NEW k \in Guesses, CancelledAtConfirm(k)
      PROVE  Progress'
  BY <1>16, WrittenWhenDue DEF CancelledAtConfirm
<1>17. ASSUME NEW k \in Guesses, CancelledAtFork(k)
      PROVE  Progress'
  BY <1>17, WrittenWhenDue DEF CancelledAtFork
<1>18. CASE CancelledAtAnswer
  BY <1>18, WrittenWhenDue DEF CancelledAtAnswer
<1>19. CASE FailureWritten
  BY <1>19, WrittenWhenDue DEF FailureWritten, FailureSeen, Squash
<1>20. CASE FailureUnwritten
  BY <1>20 DEF FailureUnwritten, FailureSeen, Squash
<1>21. CASE CleanUp
  BY <1>21 DEF CleanUp, Abandon
<1>22. CASE TurnFails
  BY <1>22 DEF TurnFails
<1>23. CASE BeginAdoption
  <2>1. pc = "settle" /\ pc' = "adopt" /\ at \in Kept /\ held[at] /\ ~Returned
    BY <1>23 DEF BeginAdoption, AtResult
  <2>2. turn = "answered"
    BY <2>1 DEF Phases
  <2>3. UNCHANGED <<at, list, turn, settled, guess, held, dropping>>
    BY <1>23 DEF BeginAdoption
  <2> QED
    BY <2>1, <2>2, <2>3
<1>24. CASE AdoptNothing
  <2>1. /\ pc = "settle" /\ pc' = "slot" /\ at \in Kept /\ ~held[at] /\ ~Returned
        /\ UNCHANGED <<at, list, turn, settled, dropping>>
    BY <1>24 DEF AdoptNothing, AtResult, Adopt
  <2>2. turn = "answered" /\ turn' = "answered" /\ at \in Nat /\ at > 0
    BY <2>1, Numbers DEF Phases, TypeOK
  <2>3. Right(at)
    BY <2>1 DEF Guessing, GuessOf
  <2>4. guess'[at] = "adopted" /\ at \in Guesses
    BY <1>24, <2>1 DEF AdoptNothing, Adopt, TypeOK
  <2> QED
    BY <2>1, <2>2, <2>4
<1>25. ASSUME NEW k \in Guesses, AdoptionWritten(k)
      PROVE  Progress'
  <2>1. /\ pc = "adopt" /\ pc' = "slot" /\ k = at /\ at \in Kept /\ held[at] /\ ~(over /\ pc = "settle")
        /\ list' = list \cup {at} /\ UNCHANGED <<at, turn, settled, dropping>>
    BY <1>25, WrittenWhenDue DEF AdoptionWritten, Adopt
  <2>2. turn = "answered" /\ turn' = "answered" /\ at \in Nat /\ at > 0
    BY <2>1, Numbers DEF Phases, TypeOK
  <2>3. Right(at)
    BY <2>1 DEF Guessing, GuessOf
  <2>4. guess'[at] = "adopted" /\ at \in Guesses
    BY <1>25, <2>1 DEF AdoptionWritten, Adopt, TypeOK
  <2>5. at \notin Reads
    BY <2>1, <2>3 DEF Guessing, GuessOf, IsRead, Right
  <2> QED
    BY <2>1, <2>2, <2>4, <2>5
<1>26. CASE AwaitEarly
  BY <1>26 DEF AwaitEarly, AtResult, IssuedEarly, Phases
<1>27. CASE SlotDone
  <2>1. /\ /\ pc = "slot"
        /\ pc' = "settle"
        /\ at' = at + 1
        /\ (at \in Guesses /\ guess[at] = "adopted" => task[at] = "done")
        /\ UNCHANGED <<list, turn, settled, guess, held, dropping>>
    BY <1>27 DEF SlotDone
  <2>2. turn = "answered" /\ at \in Nat
    BY <2>1, Numbers DEF Phases, TypeOK
  <2>3. at \in Reads \/ at \in settled
    BY <2>1, WrongGuesses, Numbers DEF Tasks, Guessing, GuessOf, IsRead, Right, Phases
  <2> QED
    BY <2>1, <2>2, <2>3, Numbers
<1>28. CASE MakeCall
  BY <1>28 DEF MakeCall, AtResult
<1>29. ASSUME NEW k \in Blocks, RequestWritten(k)
      PROVE  Progress'
  <2>1. /\ pc = "request" /\ k = at /\ UNCHANGED <<at, turn, settled, guess, held, dropping>>
        /\ \/ pc' = "read" /\ at \in Reads /\ list' = list
           \/ pc' = "stage" /\ at \notin Reads /\ list' = list \cup {at}
           \/ pc' = "stopping" /\ list' = list
    BY <1>29, WrittenWhenDue, WrongGuesses DEF RequestWritten, IsRead
  <2>2. turn = "answered" /\ at \in Nat
    BY <2>1, Numbers DEF Phases, TypeOK
  <2> QED
    BY <2>1, <2>2, Numbers
<1>30. CASE ReadInOrder
  <2>1. /\ pc = "read" /\ pc' = "settle" /\ at' = at + 1 /\ at \in Reads
        /\ UNCHANGED <<list, turn, settled, guess, held, dropping>>
    BY <1>30 DEF ReadInOrder
  <2>2. turn = "answered" /\ at \in Nat
    BY <2>1, Numbers DEF Phases, TypeOK
  <2> QED
    BY <2>1, <2>2, Numbers
<1>31. ASSUME NEW k \in Blocks, StageWritten(k)
      PROVE  Progress'
  BY <1>31, WrittenWhenDue DEF StageWritten
<1>32. CASE Acknowledged
  <2>1. /\ pc = "ack" /\ pc' = "settle" /\ at' = at + 1 /\ at \in settled
        /\ UNCHANGED <<list, turn, settled, guess, held, dropping>>
    BY <1>32 DEF Acknowledged
  <2>2. turn = "answered" /\ at \in Nat
    BY <2>1, Numbers DEF Phases, TypeOK
  <2> QED
    BY <2>1, <2>2, Numbers
<1>33. CASE TurnDone
  BY <1>33 DEF TurnDone
<1>34. CASE SettleFails
  BY <1>34 DEF SettleFails
<1>35. CASE StopSettling
  BY <1>35 DEF StopSettling
<1>36. CASE SettlingStopped
  BY <1>36 DEF SettlingStopped, Abandon
<1>37. CASE CancelledAtEnd
  BY <1>37 DEF CancelledAtEnd
<1>38. ASSUME NEW k \in Guesses, NEW who \in {"turn", "node"}, DropDiscarded(who, k)
      PROVE  Progress'
  <2>1. k \in dropping[who] /\ guess[k] = "dropped" /\ UNCHANGED <<at, list, turn, pc, settled>>
    BY <1>38, WrittenWhenDue DEF DropDiscarded, Ends
  <2>2. pc # "adopt"
    BY <2>1 DEF Discarding, Phases
  <2>3. \A g \in Guesses : guess[g] = "adopted" => guess'[g] = "adopted"
    BY <1>38, DropLeaves
  <2> QED
    BY <2>1, <2>2, <2>3
<1>39. ASSUME NEW k \in Guesses, NEW who \in {"turn", "node"}, DropResolved(who, k)
      PROVE  Progress'
  <2>1. k \in dropping[who] /\ guess[k] = "dropped" /\ UNCHANGED <<at, list, turn, pc, settled>>
    BY <1>39, WrittenWhenDue DEF DropResolved, Ends
  <2>2. pc # "adopt"
    BY <2>1 DEF Discarding, Phases
  <2>3. \A g \in Guesses : guess[g] = "adopted" => guess'[g] = "adopted"
    BY <1>39, DropLeaves
  <2> QED
    BY <2>1, <2>2, <2>3
<1>40. ASSUME NEW k \in Guesses, GuessRequested(k)
      PROVE  Progress'
  <2>1. \A g \in Guesses : held[g] => held'[g]
    BY <1>40, SMTT(20) DEF GuessRequested, TypeOK
  <2>2. UNCHANGED <<at, list, turn, pc, settled, guess, dropping>>
    BY <1>40 DEF GuessRequested
  <2> QED
    BY <2>1, <2>2
<1>41. CASE OwnRequested
  <2>1. list' \cap Blocks = list \cap Blocks /\ pc \notin {"stage", "ack"}
    BY <1>41, WrittenWhenDue, Numbers DEF OwnRequested, OwnFirst
  <2>2. UNCHANGED <<at, turn, pc, settled, guess, held, dropping>>
    BY <1>41 DEF OwnRequested
  <2> QED
    BY <2>1, <2>2
<1>42. CASE NodeRequested
  <2>1. list' \cap Blocks = list \cap Blocks /\ list \subseteq list'
    BY <1>42, Numbers DEF NodeRequested
  <2>2. UNCHANGED <<at, turn, pc, settled, guess, held, dropping>>
    BY <1>42 DEF NodeRequested
  <2> QED
    BY <2>1, <2>2
<1>43. CASE LeaveSquash
  <2>1. pc # "adopt" /\ UNCHANGED <<at, list, turn, pc, settled, dropping>>
    BY <1>43 DEF LeaveSquash, NothingUnderWay
  <2>2. \A g \in Guesses : guess[g] = "adopted" => guess'[g] = "adopted"
    BY <1>43 DEF LeaveSquash, Squash, Open, TypeOK
  <2> QED
    BY <2>1, <2>2
<1>44. CASE LeaveDrop
  <2>1. pc # "adopt" /\ UNCHANGED <<at, list, turn, pc, settled>>
    BY <1>44, Numbers DEF LeaveDrop, NothingUnderWay, Phases
  <2>2. \A g \in Guesses : guess[g] = "adopted" => guess'[g] = "adopted"
    BY <1>44, DropLeaves
  <2> QED
    BY <2>1, <2>2
<1>45. CASE Settled
  BY <1>45, WrittenWhenDue DEF Settled
<1> HIDE DEF Progress, Undecided, Settling, Passed, Kept, Returned, turnVars, guessVars,
    nodeVars, runVars, schedulerElse
<1> QED
  BY <1>1, <1>2, <1>3, <1>4, <1>5, <1>6, <1>7, <1>8, <1>9, <1>10, <1>11, <1>12, <1>13, <1>14,
    <1>15, <1>16, <1>17, <1>18, <1>19, <1>20, <1>21, <1>22, <1>23, <1>24, <1>25, <1>26, <1>27,
    <1>28, <1>29, <1>30, <1>31, <1>32, <1>33, <1>34, <1>35, <1>36, <1>37, <1>38, <1>39, <1>40,
    <1>41, <1>42, <1>43, <1>44, <1>45, ProgressSteps

\* A squash closes the guess that was open, with its write; its call goes on.
LEMMA SquashLeaves ==
  ASSUME TypeOK, NEW c \in Guesses,
         BlockMisses \/ AnswerWritten \/ FailureWritten \/ FailureUnwritten \/ LeaveSquash
  PROVE  \/ guess'[c] = guess[c] /\ held'[c] = held[c] /\ task'[c] = task[c]
         \/ guess[c] = "open" /\ guess'[c] = "squashed" /\ ~held'[c] /\ task'[c] = task[c]
<1>1. UNCHANGED <<guess, held, task>> \/ \E k \in Open : Squash(k)
  BY DEF BlockMisses, AnswerWritten, FailureWritten, FailureUnwritten, FailureSeen, LeaveSquash
<1>2. ASSUME NEW k \in Open, Squash(k)
      PROVE  \/ guess'[c] = guess[c] /\ held'[c] = held[c] /\ task'[c] = task[c]
             \/ guess[c] = "open" /\ guess'[c] = "squashed" /\ ~held'[c] /\ task'[c] = task[c]
  <2>1. k \in Guesses /\ guess[k] = "open"
    BY DEF Open
  <2> QED
    BY <1>2, <2>1 DEF Squash, TypeOK
<1> QED
  BY <1>1, <1>2

\* Who moves a guess, its call and its write.
LEMMA TaskSteps ==
  ASSUME [Next]_vars
  PROVE  \/ UNCHANGED <<turn, guess, guessed, task, held, list, settled>>
        \/ BlockConfirms \/ BlockMisses \/ (\E hit \in BOOLEAN : Guess(hit))
        \/ (\E k \in Guesses : ForkWritten(k)) \/ AnswerWritten
        \/ (\E k \in Guesses : CancelledAtFork(k)) \/ CancelledAtAnswer \/ FailureWritten
        \/ FailureUnwritten \/ CleanUp \/ AdoptNothing
        \/ (\E k \in Guesses : AdoptionWritten(k)) \/ (\E k \in Blocks : RequestWritten(k))
        \/ StopSettling \/ SettlingStopped
        \/ (\E k \in Guesses, who \in {"turn", "node"} : DropDiscarded(who, k))
        \/ (\E k \in Guesses, who \in {"turn", "node"} : DropResolved(who, k))
        \/ (\E k \in Guesses : GuessRequested(k)) \/ (\E k \in Guesses : GuessReads(k))
        \/ (\E k \in Guesses : GuessStaged(k)) \/ (\E k \in Guesses : GuessReleased(k))
        \/ OwnRequested \/ NodeRequested \/ LeaveSquash \/ LeaveDrop \/ Settled
        \/ (\E k \in Guesses : SquashDiscarded(k))
<1>1. CASE TurnStep
  BY <1>1 DEF TurnStep, BlockUnguessed, MissIsOver, NoGuess, CutIsOver, ReplyEnds,
    ReplyUnwritten, EndIsOver, TurnFails, BeginAdoption, AwaitEarly, SlotDone, MakeCall,
    ReadInOrder, Acknowledged, TurnDone, SettleFails, FailureSeen, StaysApart, turnVars,
    guessVars, nodeVars, runVars
<1>2. CASE Stopping
  BY <1>2 DEF Stopping, StreamFails, CancelledAtEnd, SettleFails, turnVars, guessVars, nodeVars,
    runVars
<1>3. CASE Written
  <2>1. CASE \/ (\E k \in Guesses : ConfirmWritten(k))
             \/ (\E k \in Guesses : CancelledAtConfirm(k))
             \/ (\E k \in Guesses : SquashResolved(k))
    BY <2>1 DEF ConfirmWritten, CancelledAtConfirm, SquashResolved,
      FailureSeen, turnVars, guessVars, nodeVars, runVars, schedulerElse
  <2>2. CASE (\E k \in Blocks : StageWritten(k))
    BY <2>2 DEF StageWritten, FailureSeen, turnVars, guessVars, nodeVars, runVars, schedulerElse
  <2>3. CASE OwnStaged \/ NobodyWaits \/ NodeStaged \/ NodeConfirmed \/ Claimed
    BY <2>3 DEF OwnStaged, NobodyWaits, NodeStaged, NodeConfirmed, Claimed, FailureSeen,
      turnVars, guessVars, nodeVars, runVars, schedulerElse
  <2>4. CASE Retired
    BY <2>4 DEF Retired, FailureSeen, turnVars, guessVars, nodeVars, runVars, schedulerElse
  <2> QED
    BY <1>3, <2>1, <2>2, <2>3, <2>4 DEF Written
<1>4. CASE Beside
  BY <1>4 DEF Beside, EarlyRead, turnVars, guessVars, nodeVars, runVars
<1>5. CASE NodeStep
  BY <1>5 DEF NodeStep, NodeWrites, NodeDone, turnVars, guessVars, nodeVars, runVars
<1>6. CASE RunStep
  BY <1>6 DEF RunStep, Wakes, Claim, Deliver, DrainOver, EndDrive, turnVars, guessVars,
    nodeVars, runVars, schedulerElse
<1> QED
  BY <1>1, <1>2, <1>3, <1>4, <1>5, <1>6 DEF Next, AnswerArrives, NodeReturns, Finished, vars,
    turnVars, guessVars, nodeVars, runVars

\* Where a guess's call is, its write is.
LEMMA TasksKept ==
  ASSUME TypeOK, EntriesAreDue, InTurn, Phases, Discarding, Guessing, Progress, Tasks, [Next]_vars
  PROVE  Tasks'
<1> USE DEF Tasks, Closed, Right, IsRead, turnVars, guessVars, nodeVars, runVars,
    schedulerElse
<1>1. CASE UNCHANGED <<turn, guess, guessed, task, held, list, settled>>
  BY <1>1
<1>2. CASE BlockConfirms
  <2>1. UNCHANGED <<guessed, list, settled, turn, task, held>>
    BY <1>2 DEF BlockConfirms, StaysApart
  <2>2. \A g \in Guesses : guess'[g] = guess[g] \/ guess[g] = "open"
    BY <1>2 DEF BlockConfirms, TypeOK, Open
  <2> QED
    BY <2>1, <2>2
<1>3. CASE BlockMisses
  <2>1. UNCHANGED <<guessed, list, settled, turn>>
    BY <1>3 DEF BlockMisses
  <2>2. \A g \in Guesses :
          \/ guess'[g] = guess[g] /\ held'[g] = held[g] /\ task'[g] = task[g]
          \/ guess[g] = "open" /\ guess'[g] = "squashed" /\ ~held'[g] /\ task'[g] = task[g]
    BY <1>3, SquashLeaves
  <2> QED
    BY <2>1, <2>2
<1>4. ASSUME NEW hit \in BOOLEAN, Guess(hit)
      PROVE  Tasks'
  <2>1. UNCHANGED <<list, settled, turn, task, held>>
    BY <1>4 DEF Guess
  <2>2. \A g \in Guesses : (guess'[g] = guess[g] /\ guessed'[g] = guessed[g]) \/ task[g] = "none"
    BY <1>4 DEF Guess, TypeOK, Guessing, GuessOf
  <2> QED
    BY <2>1, <2>2
<1>5. ASSUME NEW k \in Guesses, ForkWritten(k)
      PROVE  Tasks'
  <2>1. UNCHANGED <<list, settled, turn, guessed>> /\ turn = "none" /\ guess[k] = "forking" /\ ~held[k]
    BY <1>5, WrittenWhenDue DEF ForkWritten, Guessing, GuessOf, Phases, Streaming
  <2>2. \A g \in Guesses :
          \/ guess'[g] = guess[g] /\ task'[g] = task[g] /\ held'[g] = held[g]
          \/ g = k /\ task'[g] \in {"request", "none"} /\ ~held'[g]
    BY <1>5, <2>1 DEF ForkWritten, Squash, TypeOK, Guessing, GuessOf
  <2> QED
    BY <2>1, <2>2
<1>6. CASE AnswerWritten
  <2>1. UNCHANGED <<guessed, list, settled>> /\ \A g \in Guesses : task[g] # "request"
    BY <1>6, WrittenInTurn DEF AnswerWritten
  <2>2. \A g \in Guesses :
          \/ guess'[g] = guess[g] /\ held'[g] = held[g] /\ task'[g] = task[g]
          \/ guess[g] = "open" /\ guess'[g] = "squashed" /\ ~held'[g] /\ task'[g] = task[g]
    BY <1>6, SquashLeaves
  <2> QED
    BY <2>1, <2>2
<1>7. ASSUME NEW k \in Guesses, CancelledAtFork(k)
      PROVE  Tasks'
  <2>1. UNCHANGED <<list, settled, turn, guessed, task, held>> /\ guess[k] = "forking" /\ task[k] = "none"
    BY <1>7, WrittenWhenDue DEF CancelledAtFork, Guessing, GuessOf
  <2>2. \A g \in Guesses : guess'[g] = guess[g] \/ g = k
    BY <1>7 DEF CancelledAtFork, TypeOK
  <2> QED
    BY <2>1, <2>2
<1>8. CASE CancelledAtAnswer
  BY <1>8, WrittenWhenDue, WrittenInTurn DEF CancelledAtAnswer
<1>9. CASE FailureWritten
  <2>1. UNCHANGED <<guessed, list, settled>> /\ turn' = "failed"
    BY <1>9 DEF FailureWritten, FailureSeen
  <2>2. \A g \in Guesses :
          \/ guess'[g] = guess[g] /\ held'[g] = held[g] /\ task'[g] = task[g]
          \/ guess[g] = "open" /\ guess'[g] = "squashed" /\ ~held'[g] /\ task'[g] = task[g]
    BY <1>9, SquashLeaves
  <2> QED
    BY <2>1, <2>2
<1>10. CASE FailureUnwritten
  <2>1. UNCHANGED <<guessed, list, settled, turn>>
    BY <1>10 DEF FailureUnwritten, FailureSeen
  <2>2. \A g \in Guesses :
          \/ guess'[g] = guess[g] /\ held'[g] = held[g] /\ task'[g] = task[g]
          \/ guess[g] = "open" /\ guess'[g] = "squashed" /\ ~held'[g] /\ task'[g] = task[g]
    BY <1>10, SquashLeaves
  <2> QED
    BY <2>1, <2>2
<1>11. CASE CleanUp
  <2>1. UNCHANGED <<guessed, list, settled, turn>> /\ \A g \in Guesses : task'[g] \in {task[g], "gone"}
    BY <1>11 DEF CleanUp, Abandon
  <2>2. \A g \in Guesses :
          \/ guess'[g] = guess[g] /\ held'[g] = held[g]
          \/ guess[g] \in {"confirmed", "dropped"} /\ guess'[g] = "dropped" /\ ~held'[g]
    BY <1>11, DropLeaves
  <2> QED
    BY <2>1, <2>2
<1>12. CASE AdoptNothing
  <2>1. UNCHANGED <<settled, turn, guessed, task>> /\ Adopt(at)
    BY <1>12 DEF AdoptNothing
  <2>2. guess[at] = "confirmed" /\ at \in Guesses
    BY <1>12 DEF Kept, AdoptNothing, Progress
  <2>3. guess'[at] = "adopted" /\ \A g \in Guesses : g # at => guess'[g] = guess[g]
    BY <2>1, <2>2 DEF Adopt, TypeOK
  <2>4. ~held'[at] /\ \A g \in Guesses : g # at => held'[g] = held[g]
    BY <2>1, <2>2 DEF Adopt, TypeOK
  <2>5. list \subseteq list' /\ (held[at] => at \in list')
    BY <2>1 DEF Adopt
  <2> QED
    BY <2>1, <2>2, <2>3, <2>4, <2>5
<1>13. ASSUME NEW k \in Guesses, AdoptionWritten(k)
      PROVE  Tasks'
  <2>1. UNCHANGED <<settled, turn, guessed, task>> /\ Adopt(at)
    BY <1>13, WrittenWhenDue DEF AdoptionWritten
  <2>2. guess[at] = "confirmed" /\ at \in Guesses
    BY <1>13 DEF Kept, AdoptionWritten, Progress
  <2>3. guess'[at] = "adopted" /\ \A g \in Guesses : g # at => guess'[g] = guess[g]
    BY <2>1, <2>2 DEF Adopt, TypeOK
  <2>4. ~held'[at] /\ \A g \in Guesses : g # at => held'[g] = held[g]
    BY <2>1, <2>2 DEF Adopt, TypeOK
  <2>5. list \subseteq list' /\ (held[at] => at \in list')
    BY <2>1 DEF Adopt
  <2> QED
    BY <2>1, <2>2, <2>3, <2>4, <2>5
<1>14. ASSUME NEW k \in Blocks, RequestWritten(k)
      PROVE  Tasks'
  <2>1. UNCHANGED <<settled, turn, guessed, task, guess, held>> /\ list \subseteq list'
    BY <1>14 DEF RequestWritten
  <2> QED
    BY <2>1
<1>15. CASE StopSettling
  <2>1. UNCHANGED <<guessed, list, settled, turn, task>>
    BY <1>15 DEF StopSettling
  <2>2. \A g \in Guesses :
          \/ guess'[g] = guess[g] /\ held'[g] = held[g]
          \/ guess[g] \in {"confirmed", "dropped"} /\ guess'[g] = "dropped" /\ ~held'[g]
    BY <1>15, DropLeaves
  <2> QED
    BY <2>1, <2>2
<1>16. CASE SettlingStopped
  BY <1>16 DEF SettlingStopped, Abandon
<1>17. ASSUME NEW k \in Guesses, NEW who \in {"turn", "node"}, DropDiscarded(who, k)
      PROVE  Tasks'
  <2>1. UNCHANGED <<guessed, list, settled, turn, task>>
    BY <1>17 DEF DropDiscarded
  <2>2. \A g \in Guesses :
          \/ guess'[g] = guess[g] /\ held'[g] = held[g]
          \/ guess[g] \in {"confirmed", "dropped"} /\ guess'[g] = "dropped" /\ ~held'[g]
    BY <1>17, DropLeaves
  <2> QED
    BY <2>1, <2>2
<1>18. ASSUME NEW k \in Guesses, NEW who \in {"turn", "node"}, DropResolved(who, k)
      PROVE  Tasks'
  <2>1. UNCHANGED <<guessed, list, settled, turn, task>>
    BY <1>18 DEF DropResolved
  <2>2. \A g \in Guesses :
          \/ guess'[g] = guess[g] /\ held'[g] = held[g]
          \/ guess[g] \in {"confirmed", "dropped"} /\ guess'[g] = "dropped" /\ ~held'[g]
    BY <1>18, DropLeaves
  <2> QED
    BY <2>1, <2>2
<1>19. ASSUME NEW k \in Guesses, GuessRequested(k)
      PROVE  Tasks'
  <2>1. UNCHANGED <<settled, list, turn, guessed, guess>> /\ task[k] = "request"
    BY <1>19 DEF GuessRequested
  <2>2. \A g \in Guesses :
          \/ task'[g] = task[g] /\ held'[g] = held[g]
          \/ /\ g = k
             /\ \/ task'[g] = "gone" /\ held'[g] = held[g]
                \/ task'[g] = "read" /\ held'[g] = held[g] /\ IsRead(guessed[g])
                \/ task'[g] = "stage" /\ held'[g]
    BY <1>19 DEF GuessRequested, TypeOK
  <2> QED
    BY <2>1, <2>2
<1>20. ASSUME NEW k \in Guesses, GuessReads(k)
      PROVE  Tasks'
  BY <1>20 DEF GuessReads
<1>21. ASSUME NEW k \in Guesses, GuessStaged(k)
      PROVE  Tasks'
  BY <1>21, WrittenWhenDue, WrittenInTurn DEF GuessStaged
<1>22. ASSUME NEW k \in Guesses, GuessReleased(k)
      PROVE  Tasks'
  BY <1>22 DEF GuessReleased
<1>23. CASE OwnRequested
  BY <1>23, WrittenWhenDue, WrittenInTurn DEF OwnRequested
<1>24. CASE NodeRequested
  BY <1>24, WrittenWhenDue, WrittenInTurn DEF NodeRequested
<1>25. CASE LeaveSquash
  <2>1. UNCHANGED <<guessed, list, settled, turn>>
    BY <1>25 DEF LeaveSquash
  <2>2. \A g \in Guesses :
          \/ guess'[g] = guess[g] /\ held'[g] = held[g] /\ task'[g] = task[g]
          \/ guess[g] = "open" /\ guess'[g] = "squashed" /\ ~held'[g] /\ task'[g] = task[g]
    BY <1>25, SquashLeaves
  <2> QED
    BY <2>1, <2>2
<1>26. CASE LeaveDrop
  <2>1. UNCHANGED <<guessed, list, settled, turn, task>>
    BY <1>26 DEF LeaveDrop
  <2>2. \A g \in Guesses :
          \/ guess'[g] = guess[g] /\ held'[g] = held[g]
          \/ guess[g] \in {"confirmed", "dropped"} /\ guess'[g] = "dropped" /\ ~held'[g]
    BY <1>26, DropLeaves
  <2> QED
    BY <2>1, <2>2
<1>27. CASE Settled
  BY <1>27, WrittenWhenDue, WrittenInTurn DEF Settled
<1>28. ASSUME NEW k \in Guesses, SquashDiscarded(k)
       PROVE  Tasks'
  <2>1. UNCHANGED <<settled, list, turn, guess, held>>
    BY <1>28 DEF SquashDiscarded
  <2>2. \A g \in Guesses :
          \/ task'[g] = task[g] /\ guessed'[g] = guessed[g]
          \/ task'[g] = "gone"
    BY <1>28 DEF SquashDiscarded, CallCancelled, TypeOK
  <2> QED
    BY <2>1, <2>2
<1> HIDE DEF Tasks, Closed, Right, IsRead, turnVars, guessVars, nodeVars, runVars,
    schedulerElse
<1> QED
  BY <1>1, <1>2, <1>3, <1>4, <1>5, <1>6, <1>7, <1>8, <1>9, <1>10, <1>11, <1>12, <1>13, <1>14,
    <1>15, <1>16, <1>17, <1>18, <1>19, <1>20, <1>21, <1>22, <1>23, <1>24, <1>25, <1>26, <1>27,
    <1>28, TaskSteps

\* Only the next block's guess is open, while the turn reads and its node waits.
LEMMA OneOpen ==
  ASSUME Guessing, Open # {}
  PROVE  /\ Open = {got + 1} /\ squashing = 0 /\ pc \in {"stream", "answered", "failing"}
         /\ node \in {"turn", "leaving"}
BY DEF Guessing, GuessOf, Open

\* A step that touches no guess, and keeps what its state says of the turn.
LEMMA GuessUntouched ==
  ASSUME TypeOK, Guessing, Phases, UNCHANGED <<guess, guessed, held, got>>, squashing' \in {squashing, 0},
         \A c \in Guesses : guess[c] \in {"none", "forking"} => task'[c] = task[c],
         \/ pc' = pc
         \/ /\ pc' \notin {"fork", "predict"}
            /\ pc \in Passed \cup {"failed"} => pc' \in Passed \cup {"failed"}
            /\ \/ pc \notin {"stream", "answered", "failing"} \/ pc' \in {"stream", "answered", "failing"}
               \/ node \notin {"turn", "leaving"}
            /\ pc \notin {"missed", "cut", "ended", "cleaning"} \/ squashing = 0,
         turn' = turn \/ pc \notin Passed \cup {"failed"},
         \/ node' = node
         \/ /\ node # "squashing" /\ pc # "fork"
            /\ node' = "leaving" \/ node \notin {"turn", "leaving"} \/ pc \notin {"stream", "answered", "failing"}
         \/ node = "turn" /\ node' = "leaving"
  PROVE  Guessing'
<1>1. Open' = Open
  BY DEF Open
<1>2. squashing' # 0 =>
        /\ Open = {}
        /\ pc' \in {"missed", "cut", "ended", "cleaning"} \/ (node' = "squashing" /\ pc' # "fork")
  BY DEF Guessing
<1>3. pc' = "fork" => pc = "fork"
  OBVIOUS
<1>4. ASSUME NEW c \in Guesses
      PROVE  GuessOf(c)'
  <2>1. GuessOf(c)
    BY DEF Guessing
  <2> QED
    BY <2>1 DEF GuessOf, Right, IsRead
<1> QED
  BY <1>1, <1>2, <1>3, <1>4 DEF Guessing

\* A block is taken when no guess at it is left open.
LEMMA GuessesPassed ==
  ASSUME TypeOK, Guessing, Open = {}, TakeBlock, UNCHANGED <<turn, guessVars, node, squashing>>,
         pc \in {"stream", "missed", "confirm"}, pc = "missed" => squashing = 0
  PROVE  Guessing'
<1>1. /\ pc' = "predict"
      /\ got' = got + 1
      /\ UNCHANGED <<turn, guess, guessed, task, held, node, squashing>>
      /\ got \in Nat
  BY Numbers DEF TakeBlock, guessVars, TypeOK
<1>2. Open' = Open
  BY <1>1 DEF Open
<1>3. ASSUME NEW c \in Guesses
      PROVE  GuessOf(c)'
  <2>1. GuessOf(c) /\ c \in Nat /\ guess[c] # "open"
    BY Numbers DEF Guessing, Open
  <2> QED
    BY <1>1, <2>1 DEF GuessOf, Right, IsRead, Passed, Settling
<1> QED
  BY <1>1, <1>2, <1>3 DEF Guessing

\* A squash leaves no guess open.
LEMMA GuessSquashed ==
  ASSUME TypeOK, Guessing, Phases,
         BlockMisses \/ AnswerWritten \/ FailureWritten \/ FailureUnwritten \/ LeaveSquash,
         UNCHANGED <<guessed, got>>, pc \in {"stream", "answered", "failing"},
         \/ node' = node /\ pc' \in {"missed", "ended", "cleaning"}
         \/ node' = node /\ squashing' = squashing /\ pc' \notin {"fork", "predict"}
         \/ node' = "squashing" /\ pc' = pc
  PROVE  Guessing'
<1>1. \A c \in Guesses :
        \/ guess'[c] = guess[c] /\ held'[c] = held[c] /\ task'[c] = task[c]
        \/ guess[c] = "open" /\ guess'[c] = "squashed" /\ ~held'[c] /\ task'[c] = task[c]
  BY SquashLeaves
<1>2. Open' = {}
  <2>1. (Open = {} /\ UNCHANGED guess) \/ \E k \in Open : Squash(k)
    BY DEF BlockMisses, AnswerWritten, FailureWritten, FailureUnwritten, FailureSeen, LeaveSquash
  <2>2. ASSUME NEW k \in Open, Squash(k)
        PROVE  Open' = {}
    BY <2>2, OneOpen DEF Squash, Open, TypeOK
  <2>3. Open = {} /\ UNCHANGED guess => Open' = {}
    BY DEF Open
  <2> QED
    BY <2>1, <2>2, <2>3
<1>3. ASSUME NEW c \in Guesses
      PROVE  GuessOf(c)'
  <2>1. GuessOf(c) /\ guess'[c] # "open"
    BY <1>2 DEF Guessing, Open
  <2> QED
    BY <1>1, <2>1 DEF GuessOf, Right, IsRead, Passed, Settling
<1>4. squashing' # 0 =>
        pc' \in {"missed", "cut", "ended", "cleaning"} \/ (node' = "squashing" /\ pc' # "fork")
  BY DEF Guessing
<1> QED
  BY <1>2, <1>3, <1>4 DEF Guessing

\* Who moves a guess, or what it is a guess at.
LEMMA GuessSteps ==
  ASSUME [Next]_vars
  PROVE  \/ UNCHANGED <<turn, pc, got, guess, guessed, task, held, squashing, node>>
        \/ BlockUnguessed \/ BlockConfirms \/ BlockMisses \/ MissIsOver
        \/ (\E k \in Guesses : ConfirmWritten(k)) \/ NoGuess
        \/ (\E hit \in BOOLEAN : Guess(hit)) \/ (\E k \in Guesses : ForkWritten(k))
        \/ CutIsOver \/ ReplyEnds \/ ReplyUnwritten \/ AnswerWritten \/ EndIsOver
        \/ StreamFails \/ (\E k \in Guesses : CancelledAtConfirm(k))
        \/ (\E k \in Guesses : CancelledAtFork(k)) \/ CancelledAtAnswer \/ FailureWritten
        \/ FailureUnwritten \/ CleanUp \/ TurnFails \/ BeginAdoption \/ AdoptNothing
        \/ (\E k \in Guesses : AdoptionWritten(k)) \/ AwaitEarly \/ SlotDone \/ MakeCall
        \/ (\E k \in Blocks : RequestWritten(k)) \/ ReadInOrder
        \/ (\E k \in Blocks : StageWritten(k)) \/ Acknowledged \/ TurnDone \/ SettleFails
        \/ StopSettling \/ SettlingStopped \/ CancelledAtEnd
        \/ (\E k \in Guesses : SquashDiscarded(k)) \/ (\E k \in Guesses : SquashResolved(k))
        \/ (\E k \in Guesses, who \in {"turn", "node"} : DropDiscarded(who, k))
        \/ (\E k \in Guesses, who \in {"turn", "node"} : DropResolved(who, k))
        \/ (\E k \in Guesses : GuessRequested(k)) \/ (\E k \in Guesses : GuessReads(k))
        \/ (\E k \in Guesses : GuessStaged(k)) \/ (\E k \in Guesses : GuessReleased(k))
        \/ NodeWrites \/ NodeRequested \/ NodeStaged \/ NodeReturns \/ LeaveSquash
        \/ LeaveDrop \/ NodeDone
<1>1. CASE TurnStep
  BY <1>1 DEF TurnStep, FailureSeen, StaysApart, turnVars, guessVars, nodeVars, runVars
<1>2. CASE Stopping
  BY <1>2 DEF Stopping, turnVars, guessVars, nodeVars, runVars
<1>3. CASE Written
  <2>1. CASE OwnRequested \/ OwnStaged \/ NobodyWaits \/ NodeConfirmed \/ Claimed
    BY <2>1 DEF OwnRequested, OwnStaged, NobodyWaits, NodeConfirmed, Claimed, FailureSeen,
      turnVars, guessVars, nodeVars, runVars, schedulerElse
  <2>2. CASE Settled \/ Retired
    BY <2>2 DEF Settled, Retired, FailureSeen, turnVars, guessVars, nodeVars, runVars,
      schedulerElse
  <2> QED
    BY <1>3, <2>1, <2>2 DEF Written
<1>4. CASE Beside
  BY <1>4 DEF Beside, EarlyRead, turnVars, guessVars, nodeVars, runVars
<1>5. CASE NodeStep
  BY <1>5 DEF NodeStep, turnVars, guessVars, nodeVars, runVars
<1>6. CASE RunStep
  BY <1>6 DEF RunStep, Wakes, Claim, Deliver, DrainOver, EndDrive, turnVars, guessVars,
    nodeVars, runVars, schedulerElse
<1> QED
  BY <1>1, <1>2, <1>3, <1>4, <1>5, <1>6 DEF Next, AnswerArrives, Finished, vars, turnVars,
    guessVars, nodeVars, runVars

\* One guess at a time.
LEMMA GuessingKept ==
  ASSUME TypeOK, EntriesAreDue, Phases, Discarding, Guessing, Tasks, Progress, Astray, [Next]_vars
  PROVE  Guessing'
<1> USE DEF turnVars, guessVars, nodeVars, runVars, schedulerElse
<1>1. CASE UNCHANGED <<turn, pc, got, guess, guessed, task, held, squashing, node>>
  BY <1>1, GuessUntouched
<1>2. CASE BlockUnguessed
  <2>1. Open = {} /\ TakeBlock /\ pc = "stream" /\ UNCHANGED <<turn, guessVars, node, squashing>>
    BY <1>2 DEF BlockUnguessed, AtBlock
  <2> QED
    BY <2>1, GuessesPassed
<1>3. CASE BlockConfirms
  <2>1. /\ got + 1 \in Open /\ Right(got + 1) /\ pc' = "confirm" /\ squashing' = squashing
        /\ UNCHANGED <<got, task, held, guessed, turn, node>>
        /\ guess' = [guess EXCEPT ![got + 1] = "confirmed"]
    BY <1>3 DEF BlockConfirms, StaysApart
  <2>2. squashing = 0 /\ Open = {got + 1}
    BY <2>1, OneOpen
  <2>3. guess'[got + 1] = "confirmed" /\ \A c \in Guesses : c # got + 1 => guess'[c] = guess[c]
    BY <2>1 DEF Open, TypeOK
  <2>4. ASSUME NEW c \in Guesses
        PROVE  GuessOf(c)'
    <3>1. GuessOf(c) /\ (c # got + 1 => guess[c] # "open")
      BY <2>2 DEF Guessing, Open
    <3>2. got + 1 \in Guesses /\ guess[got + 1] = "open"
      BY <2>1 DEF Open
    <3>3. c # got + 1 => GuessOf(c)'
      BY <2>1, <2>3, <3>1, OneOpen DEF GuessOf, Right, IsRead, Passed, Settling
    <3>4. c = got + 1 => GuessOf(c)'
      BY <2>1, <2>3, <3>1, <3>2 DEF GuessOf, Right, IsRead
    <3> QED
      BY <3>3, <3>4
  <2> QED
    BY <2>1, <2>2, <2>4 DEF Guessing
<1>4. CASE BlockMisses
  BY <1>4, GuessSquashed, OneOpen DEF BlockMisses, AtBlock, Squash, FailureSeen
<1>5. CASE MissIsOver
  BY <1>5, GuessesPassed, OneOpen DEF MissIsOver, AtBlock
<1>6. ASSUME NEW k \in Guesses, ConfirmWritten(k)
      PROVE  Guessing'
  BY <1>6, WrittenWhenDue, GuessesPassed, OneOpen DEF ConfirmWritten, AtBlock
<1>7. CASE NoGuess
  BY <1>7, GuessUntouched DEF NoGuess, Passed, Settling
<1>8. ASSUME NEW hit \in BOOLEAN, Guess(hit)
      PROVE  Guessing'
  <2>1. /\ pc = "predict" /\ pc' = "fork" /\ ~Returned /\ node # "squashing"
        /\ UNCHANGED <<got, task, held, turn, node, squashing>>
        /\ guess' = [guess EXCEPT ![got + 1] = "forking"]
    BY <1>8 DEF Guess, Returned
  <2>2. squashing = 0
    BY <2>1 DEF Guessing
  <2>3. got \in 1 .. Asked /\ got + 1 \in Guesses
    BY <2>1, Numbers DEF Phases, TypeOK
  <2>4. hit => got + 1 \in Blocks \ Dependent
    <3>1. hit => got + 1 \in Blocks /\ Hazard(Reply[got + 1], got) = "none"
      BY <1>8 DEF Guess
    <3> QED
      BY <2>3, <3>1, GuessableIsIndependent
  <2>5. guess[got + 1] = "none"
    BY <2>1, <2>3 DEF Guessing, GuessOf
  <2>6. /\ guess'[got + 1] = "forking" /\ (guessed'[got + 1] = got + 1 => hit)
        /\ guessed'[got + 1] \in {got + 1, Wrong(got + 1), Stray(got + 1)}
        /\ \A c \in Guesses : c # got + 1 => guess'[c] = guess[c] /\ guessed'[c] = guessed[c]
    <3>1. \E call \in {got + 1, Wrong(got + 1), Stray(got + 1)} :
            /\ guessed' = [guessed EXCEPT ![got + 1] = call]
            /\ call = got + 1 => hit
      <4>1. Wrong(got + 1) # got + 1 /\ Stray(got + 1) # got + 1
        BY <2>3, WrongGuesses, Numbers
      <4> QED
        BY <1>8, <4>1 DEF Guess, Misguess
    <3> QED
      BY <2>1, <2>3, <3>1 DEF TypeOK
  <2>7. ASSUME NEW c \in Guesses
        PROVE  GuessOf(c)'
    <3>1. GuessOf(c) /\ guess[c] # "open" /\ c \in Nat
      BY <2>1, OneOpen, Numbers DEF Guessing, Open
    <3>2. c # got + 1 => GuessOf(c)'
      BY <2>1, <2>3, <2>6, <3>1 DEF GuessOf, Right, IsRead, Passed, Settling
    <3>3. c = got + 1 => GuessOf(c)'
      BY <2>1, <2>3, <2>4, <2>5, <2>6, <3>1 DEF GuessOf, Right
    <3> QED
      BY <3>2, <3>3
  <2> QED
    BY <2>1, <2>2, <2>3, <2>6, <2>7 DEF Guessing
<1>9. ASSUME NEW k \in Guesses, ForkWritten(k)
      PROVE  Guessing'
  <2>1. pc = "fork" /\ k = got + 1 /\ UNCHANGED <<got, guessed, turn, node>>
    BY <1>9, WrittenWhenDue DEF ForkWritten
  <2>2. /\ /\ guess[k] = "forking"
        /\ task[k] = "none"
        /\ ~held[k]
        /\ squashing = 0
        /\ node \in {"turn", "leaving"}
        /\ turn = "none"
    BY <2>1 DEF Guessing, GuessOf, Phases, Streaming
  <2>3. /\ \A c \in Guesses : c # k => guess'[c] = guess[c] /\ held'[c] = held[c] /\ task'[c] = task[c]
        /\ ~held'[k]
    BY <1>9, <2>2 DEF ForkWritten, Squash, TypeOK
  <2>4. \/ pc' = "stream" /\ guess'[k] = "open" /\ squashing' = 0
        \/ pc' = "cut" /\ guess'[k] = "squashed"
    BY <1>9, <2>2 DEF ForkWritten, Squash, TypeOK
  <2>5. ASSUME NEW c \in Guesses
        PROVE  GuessOf(c)'
    <3>1. GuessOf(c) /\ guess[c] # "open"
      BY <2>1, OneOpen DEF Guessing, Open
    <3> QED
      BY <2>1, <2>2, <2>3, <2>4, <3>1 DEF GuessOf, Right, IsRead, Passed, Settling
  <2>6. squashing' # 0 => Open' = {}
    BY <2>1, <2>3, <2>4, OneOpen DEF Open
  <2> QED
    BY <2>4, <2>5, <2>6 DEF Guessing
<1>10. CASE CutIsOver
  BY <1>10, GuessUntouched DEF CutIsOver, Passed, Settling
<1>11. CASE ReplyEnds
  BY <1>11, GuessUntouched DEF ReplyEnds, Passed, Settling
<1>12. CASE ReplyUnwritten
  BY <1>12, GuessUntouched DEF ReplyUnwritten, Passed, Settling, Phases
<1>13. CASE AnswerWritten
  BY <1>13, WrittenWhenDue, GuessSquashed, OneOpen DEF AnswerWritten, Squash, FailureSeen
<1>14. CASE EndIsOver
  BY <1>14, GuessUntouched DEF EndIsOver, Passed, Settling
<1>15. CASE StreamFails
  BY <1>15, GuessUntouched DEF StreamFails, Passed, Settling
<1>16. ASSUME NEW k \in Guesses, CancelledAtConfirm(k)
      PROVE  Guessing'
  BY <1>16, WrittenWhenDue, GuessUntouched DEF CancelledAtConfirm, Passed, Settling
<1>17. ASSUME NEW k \in Guesses, CancelledAtFork(k)
      PROVE  Guessing'
  <2>1. pc = "fork" /\ k = got + 1 /\ UNCHANGED <<got, guessed, turn, node, held, task, squashing>>
    BY <1>17, WrittenWhenDue DEF CancelledAtFork
  <2>2. /\ /\ guess[k] = "forking"
        /\ task[k] = "none"
        /\ ~held[k]
        /\ squashing = 0
        /\ node \in {"turn", "leaving"}
        /\ turn = "none"
    BY <2>1 DEF Guessing, GuessOf, Phases, Streaming
  <2>3. \A c \in Guesses : c # k => guess'[c] = guess[c]
    BY <1>17 DEF CancelledAtFork, TypeOK
  <2>4. pc' = "failing" /\ guess'[k] = "open"
    BY <1>17 DEF CancelledAtFork, TypeOK
  <2>5. ASSUME NEW c \in Guesses
        PROVE  GuessOf(c)'
    <3>1. GuessOf(c) /\ guess[c] # "open"
      BY <2>1, OneOpen DEF Guessing, Open
    <3> QED
      BY <2>1, <2>2, <2>3, <2>4, <3>1 DEF GuessOf, Right, IsRead, Passed, Settling
  <2> QED
    BY <2>1, <2>2, <2>4, <2>5 DEF Guessing
<1>18. CASE CancelledAtAnswer
  BY <1>18, WrittenWhenDue, GuessUntouched DEF CancelledAtAnswer, Passed, Settling
<1>19. CASE FailureWritten
  BY <1>19, WrittenWhenDue, GuessSquashed, OneOpen DEF FailureWritten, FailureSeen, Squash
<1>20. CASE FailureUnwritten
  <2>1. UNCHANGED <<guessed, got>> /\ pc = "failing" /\ pc' = "cleaning" /\ node' = node
    BY <1>20 DEF FailureUnwritten, FailureSeen
  <2> QED
    BY <1>20, <2>1, GuessSquashed
<1>21. CASE CleanUp
  <2>1. /\ UNCHANGED <<guessed, turn, got, squashing>>
        /\ node' = node
        /\ pc = "cleaning"
        /\ pc' = "dropping"
        /\ squashing = 0
    BY <1>21 DEF CleanUp
  <2>2. \A c \in Guesses :
          \/ guess'[c] = guess[c] /\ held'[c] = held[c]
          \/ guess[c] \in {"confirmed", "dropped"} /\ guess'[c] = "dropped" /\ ~held'[c]
    BY <1>21, DropLeaves
  <2>3. \A c \in Guesses : task'[c] = task[c] \/ guess[c] \notin {"none", "forking"}
    BY <1>21 DEF CleanUp, Abandon
  <2>4. ASSUME NEW c \in Guesses
        PROVE  GuessOf(c)'
    <3>1. GuessOf(c) /\ (Open = {} => guess[c] # "open")
      BY DEF Guessing, Open
    <3> QED
      BY <2>1, <2>2, <2>3, <3>1 DEF GuessOf, Right, IsRead, Passed, Settling
  <2>5. Open' = Open
    BY <2>2 DEF Open
  <2>6. pc = "fork" => guess'[got + 1] = guess[got + 1]
    BY <2>2 DEF Guessing
  <2> QED
    BY <2>1, <2>4, <2>5, <2>6 DEF Guessing
<1>22. CASE TurnFails
  BY <1>22, GuessUntouched DEF TurnFails, Passed, Settling
<1>23. CASE BeginAdoption
  <2>1. /\ UNCHANGED <<guess, guessed, held, got, squashing, turn, task, node>>
        /\ pc = "settle" /\ pc' = "adopt"
    BY <1>23 DEF BeginAdoption, AtResult
  <2> QED
    BY <2>1, GuessUntouched DEF Passed, Settling
<1>24. CASE AdoptNothing
  <2>1. UNCHANGED <<squashing, turn, guessed, task, got, node>> /\ Adopt(at) /\ pc \in {"settle", "adopt"}
    BY <1>24 DEF AdoptNothing, AtResult
  <2>2. guess[at] = "confirmed" /\ at \in Guesses /\ turn = "answered"
    BY <1>24 DEF Kept, AdoptNothing, Progress, Phases, Passed, Settling, AtResult, Returned
  <2>3. guess'[at] = "adopted" /\ pc' = "slot" /\ \A g \in Guesses : g # at => guess'[g] = guess[g]
    BY <2>1, <2>2 DEF Adopt, TypeOK
  <2>4. ~held'[at] /\ \A g \in Guesses : g # at => held'[g] = held[g]
    BY <2>1, <2>2 DEF Adopt, TypeOK
  <2>5. ASSUME NEW c \in Guesses
        PROVE  GuessOf(c)'
    <3>1. GuessOf(c)
      BY DEF Guessing
    <3> QED
      BY <2>1, <2>2, <2>3, <2>4, <3>1 DEF GuessOf, Right, IsRead, Passed, Settling
  <2>6. Open' = Open
    BY <2>2, <2>3 DEF Open
  <2> QED
    BY <2>1, <2>3, <2>5, <2>6 DEF Guessing
<1>25. ASSUME NEW k \in Guesses, AdoptionWritten(k)
      PROVE  Guessing'
  <2>1. UNCHANGED <<squashing, turn, guessed, task, got, node>> /\ Adopt(at) /\ pc \in {"settle", "adopt"}
    BY <1>25, WrittenWhenDue DEF AdoptionWritten, AtResult
  <2>2. guess[at] = "confirmed" /\ at \in Guesses /\ turn = "answered"
    BY <1>25 DEF Kept, AdoptionWritten, Progress, Phases, Passed, Settling, AtResult, Returned
  <2>3. guess'[at] = "adopted" /\ pc' = "slot" /\ \A g \in Guesses : g # at => guess'[g] = guess[g]
    BY <2>1, <2>2 DEF Adopt, TypeOK
  <2>4. ~held'[at] /\ \A g \in Guesses : g # at => held'[g] = held[g]
    BY <2>1, <2>2 DEF Adopt, TypeOK
  <2>5. ASSUME NEW c \in Guesses
        PROVE  GuessOf(c)'
    <3>1. GuessOf(c)
      BY DEF Guessing
    <3> QED
      BY <2>1, <2>2, <2>3, <2>4, <3>1 DEF GuessOf, Right, IsRead, Passed, Settling
  <2>6. Open' = Open
    BY <2>2, <2>3 DEF Open
  <2> QED
    BY <2>1, <2>3, <2>5, <2>6 DEF Guessing
<1>26. CASE AwaitEarly
  BY <1>26, GuessUntouched DEF AwaitEarly, AtResult, Passed, Settling
<1>27. CASE SlotDone
  BY <1>27, GuessUntouched DEF SlotDone, Passed, Settling
<1>28. CASE MakeCall
  BY <1>28, GuessUntouched DEF MakeCall, AtResult, Passed, Settling
<1>29. ASSUME NEW k \in Blocks, RequestWritten(k)
      PROVE  Guessing'
  BY <1>29, WrittenWhenDue, GuessUntouched DEF RequestWritten, StillStages, Passed, Settling
<1>30. CASE ReadInOrder
  BY <1>30, GuessUntouched DEF ReadInOrder, Passed, Settling
<1>31. ASSUME NEW k \in Blocks, StageWritten(k)
      PROVE  Guessing'
  BY <1>31, WrittenWhenDue, GuessUntouched DEF StageWritten, Passed, Settling
<1>32. CASE Acknowledged
  BY <1>32, GuessUntouched DEF Acknowledged, Passed, Settling
<1>33. CASE TurnDone
  BY <1>33, GuessUntouched DEF TurnDone, Passed, Settling
<1>34. CASE SettleFails
  <2>1. /\ UNCHANGED <<guess, guessed, held, got, squashing, turn, task, node>>
        /\ pc \in Settling /\ pc' = "stopping"
    BY <1>34 DEF SettleFails, Settling
  <2> QED
    BY <2>1, GuessUntouched DEF Passed, Settling
<1>35. CASE StopSettling
  <2>1. UNCHANGED <<guessed, turn, got, squashing>> /\ node' = node /\ pc = "stopping" /\ pc' = "stopped"
    BY <1>35 DEF StopSettling
  <2>2. \A c \in Guesses :
          \/ guess'[c] = guess[c] /\ held'[c] = held[c]
          \/ guess[c] \in {"confirmed", "dropped"} /\ guess'[c] = "dropped" /\ ~held'[c]
    BY <1>35, DropLeaves
  <2>3. \A c \in Guesses : task'[c] = task[c] \/ guess[c] \notin {"none", "forking"}
    BY <1>35 DEF StopSettling
  <2>4. ASSUME NEW c \in Guesses
        PROVE  GuessOf(c)'
    <3>1. GuessOf(c) /\ (Open = {} => guess[c] # "open")
      BY DEF Guessing, Open
    <3> QED
      BY <2>1, <2>2, <2>3, <3>1 DEF GuessOf, Right, IsRead, Passed, Settling
  <2>5. Open' = Open
    BY <2>2 DEF Open
  <2>6. pc = "fork" => guess'[got + 1] = guess[got + 1]
    BY <2>2 DEF Guessing
  <2> QED
    BY <2>1, <2>4, <2>5, <2>6 DEF Guessing
<1>36. CASE SettlingStopped
  BY <1>36, GuessUntouched DEF SettlingStopped, Abandon, Passed, Settling
<1>37. CASE CancelledAtEnd
  BY <1>37, GuessUntouched DEF CancelledAtEnd, Passed, Settling
<1>38. ASSUME NEW k \in Guesses, SquashResolved(k)
      PROVE  Guessing'
  BY <1>38, WrittenWhenDue, GuessUntouched DEF SquashResolved, Passed, Settling
<1>39. ASSUME NEW k \in Guesses, NEW who \in {"turn", "node"}, DropDiscarded(who, k)
      PROVE  Guessing'
  <2>1. UNCHANGED <<guessed, turn, got, squashing>> /\ node' = node /\ pc' = pc
    BY <1>39 DEF DropDiscarded
  <2>2. \A c \in Guesses :
          \/ guess'[c] = guess[c] /\ held'[c] = held[c]
          \/ guess[c] \in {"confirmed", "dropped"} /\ guess'[c] = "dropped" /\ ~held'[c]
    BY <1>39, DropLeaves
  <2>3. \A c \in Guesses : task'[c] = task[c] \/ guess[c] \notin {"none", "forking"}
    BY <1>39 DEF DropDiscarded
  <2>4. ASSUME NEW c \in Guesses
        PROVE  GuessOf(c)'
    <3>1. GuessOf(c) /\ (Open = {} => guess[c] # "open")
      BY DEF Guessing, Open
    <3> QED
      BY <2>1, <2>2, <2>3, <3>1 DEF GuessOf, Right, IsRead, Passed, Settling
  <2>5. Open' = Open
    BY <2>2 DEF Open
  <2>6. pc = "fork" => guess'[got + 1] = guess[got + 1]
    BY <2>2 DEF Guessing
  <2> QED
    BY <2>1, <2>4, <2>5, <2>6 DEF Guessing
<1>40. ASSUME NEW k \in Guesses, NEW who \in {"turn", "node"}, DropResolved(who, k)
      PROVE  Guessing'
  <2>1. UNCHANGED <<guessed, turn, got, squashing>> /\ node' = node /\ pc' = pc
    BY <1>40 DEF DropResolved
  <2>2. \A c \in Guesses :
          \/ guess'[c] = guess[c] /\ held'[c] = held[c]
          \/ guess[c] \in {"confirmed", "dropped"} /\ guess'[c] = "dropped" /\ ~held'[c]
    BY <1>40, DropLeaves
  <2>3. \A c \in Guesses : task'[c] = task[c] \/ guess[c] \notin {"none", "forking"}
    BY <1>40 DEF DropResolved
  <2>4. ASSUME NEW c \in Guesses
        PROVE  GuessOf(c)'
    <3>1. GuessOf(c) /\ (Open = {} => guess[c] # "open")
      BY DEF Guessing, Open
    <3> QED
      BY <2>1, <2>2, <2>3, <3>1 DEF GuessOf, Right, IsRead, Passed, Settling
  <2>5. Open' = Open
    BY <2>2 DEF Open
  <2>6. pc = "fork" => guess'[got + 1] = guess[got + 1]
    BY <2>2 DEF Guessing
  <2> QED
    BY <2>1, <2>4, <2>5, <2>6 DEF Guessing
<1>41. ASSUME NEW k \in Guesses, GuessRequested(k)
      PROVE  Guessing'
  <2>1. UNCHANGED <<squashing, turn, pc, got, node, guessed, guess>> /\ task[k] = "request"
    BY <1>41 DEF GuessRequested
  <2>2. guess[k] \notin {"none", "forking", "adopted"}
    BY <2>1 DEF Guessing, GuessOf, Tasks
  <2>3. \A c \in Guesses : c # k => held'[c] = held[c] /\ task'[c] = task[c]
    BY <1>41 DEF GuessRequested, TypeOK
  <2>4. held'[k] => held[k] \/ (guess[k] \in {"open", "confirmed"} /\ ~IsRead(guessed[k]))
    BY <1>41, <2>2 DEF GuessRequested, TypeOK, Closed
  <2>5. ASSUME NEW c \in Guesses
        PROVE  GuessOf(c)'
    <3>1. GuessOf(c)
      BY DEF Guessing
    <3> QED
      BY <2>1, <2>2, <2>3, <2>4, <3>1 DEF GuessOf, Right, IsRead
  <2>6. Open' = Open
    BY <2>1 DEF Open
  <2> QED
    BY <2>1, <2>5, <2>6 DEF Guessing
<1>42. ASSUME NEW k \in Guesses, GuessReads(k)
      PROVE  Guessing'
  <2>1. UNCHANGED <<guess, guessed, held, got, squashing, pc, turn, node>> /\ task[k] # "none"
    BY <1>42 DEF GuessReads
  <2>2. guess[k] \notin {"none", "forking"}
    BY <2>1 DEF Guessing, GuessOf
  <2>3. \A c \in Guesses : c # k => task'[c] = task[c]
    BY <1>42 DEF GuessReads, TypeOK
  <2> QED
    BY <2>1, <2>2, <2>3, GuessUntouched
<1>43. ASSUME NEW k \in Guesses, GuessStaged(k)
      PROVE  Guessing'
  <2>1. UNCHANGED <<guess, guessed, held, got, squashing, pc, turn, node>> /\ task[k] # "none"
    BY <1>43 DEF GuessStaged
  <2>2. guess[k] \notin {"none", "forking"}
    BY <2>1 DEF Guessing, GuessOf
  <2>3. \A c \in Guesses : c # k => task'[c] = task[c]
    BY <1>43 DEF GuessStaged, TypeOK
  <2> QED
    BY <2>1, <2>2, <2>3, GuessUntouched
<1>44. ASSUME NEW k \in Guesses, GuessReleased(k)
      PROVE  Guessing'
  <2>1. UNCHANGED <<guess, guessed, held, got, squashing, pc, turn, node>> /\ task[k] # "none"
    BY <1>44 DEF GuessReleased
  <2>2. guess[k] \notin {"none", "forking"}
    BY <2>1 DEF Guessing, GuessOf
  <2>3. \A c \in Guesses : c # k => task'[c] = task[c]
    BY <1>44 DEF GuessReleased, TypeOK
  <2> QED
    BY <2>1, <2>2, <2>3, GuessUntouched
<1>45. CASE NodeWrites
  <2>1. /\ UNCHANGED <<guess, guessed, held, got, squashing, pc, turn, task>>
        /\ node = "turn"
        /\ pc \in {"done", "failed"}
    BY <1>45 DEF NodeWrites, UnderWay
  <2> QED
    BY <2>1, GuessUntouched
<1>46. CASE NodeRequested
  <2>1. UNCHANGED <<guess, guessed, held, got, squashing, pc, turn, task>> /\ node = "request" /\ pc # "fork"
    BY <1>46, WrittenWhenDue DEF NodeRequested, Phases
  <2> QED
    BY <2>1, GuessUntouched
<1>47. CASE NodeStaged
  <2>1. UNCHANGED <<guess, guessed, held, got, squashing, pc, turn, task>> /\ node = "stage" /\ pc # "fork"
    BY <1>47, WrittenWhenDue DEF NodeStaged, Phases
  <2> QED
    BY <2>1, GuessUntouched
<1>48. CASE NodeReturns
  <2>1. /\ UNCHANGED <<guess, guessed, held, got, squashing, pc, turn, task>>
        /\ node' = "leaving"
        /\ (node = "turn" \/ (node = "ack" /\ pc # "fork"))
    BY <1>48 DEF NodeReturns, Phases
  <2> QED
    BY <2>1, GuessUntouched
<1>49. CASE LeaveSquash
  <2>1. UNCHANGED <<guessed, got, pc>> /\ Open # {} /\ node' = "squashing"
    BY <1>49 DEF LeaveSquash
  <2> QED
    BY <1>49, <2>1, OneOpen, GuessSquashed
<1>50. CASE LeaveDrop
  <2>1. /\ UNCHANGED <<guessed, turn, got, squashing>>
        /\ node \in {"leaving", "squashing"}
        /\ (node = "leaving" => Open = {})
        /\ pc' = pc
        /\ squashing = 0
        /\ (node = "leaving" => pc # "fork")
    BY <1>50 DEF LeaveDrop, NothingUnderWay
  <2>2. \A c \in Guesses :
          \/ guess'[c] = guess[c] /\ held'[c] = held[c]
          \/ guess[c] \in {"confirmed", "dropped"} /\ guess'[c] = "dropped" /\ ~held'[c]
    BY <1>50, DropLeaves
  <2>3. \A c \in Guesses : task'[c] = task[c] \/ guess[c] \notin {"none", "forking"}
    BY <1>50 DEF LeaveDrop
  <2>4. ASSUME NEW c \in Guesses
        PROVE  GuessOf(c)'
    <3>1. GuessOf(c) /\ (Open = {} => guess[c] # "open")
      BY DEF Guessing, Open
    <3> QED
      BY <2>1, <2>2, <2>3, <3>1 DEF GuessOf, Right, IsRead, Passed, Settling
  <2>5. Open' = Open
    BY <2>2 DEF Open
  <2>6. pc = "fork" => guess'[got + 1] = guess[got + 1]
    BY <2>2 DEF Guessing
  <2> QED
    BY <2>1, <2>4, <2>5, <2>6 DEF Guessing
<1>51. CASE NodeDone
  <2>1. UNCHANGED <<guess, guessed, held, got, squashing, pc, turn, task>> /\ node = "dropping" /\ pc # "fork"
    BY <1>51 DEF NodeDone, Phases
  <2> QED
    BY <2>1, GuessUntouched
<1>52. ASSUME NEW k \in Guesses, SquashDiscarded(k)
       PROVE  Guessing'
  <2>1. UNCHANGED <<turn, pc, got, guess, held, squashing, node>> /\ guess[k] = "squashed"
    BY <1>52, WrittenWhenDue DEF SquashDiscarded, Astray
  <2>2. /\ \A c \in Guesses : c # k => task'[c] = task[c] /\ guessed'[c] = guessed[c]
        /\ guessed'[k] = Own /\ k # Own
    BY <1>52, Numbers DEF SquashDiscarded, CallCancelled, TypeOK
  <2>3. ASSUME NEW c \in Guesses
        PROVE  GuessOf(c)'
    <3>1. GuessOf(c)
      BY DEF Guessing
    <3> QED
      BY <2>1, <2>2, <3>1 DEF GuessOf, Right, IsRead
  <2>4. Open' = Open
    BY <2>1 DEF Open
  <2> QED
    BY <2>1, <2>3, <2>4 DEF Guessing
<1> HIDE DEF turnVars, guessVars, nodeVars, runVars, schedulerElse
<1> QED
  BY <1>1, <1>2, <1>3, <1>4, <1>5, <1>6, <1>7, <1>8, <1>9, <1>10, <1>11, <1>12, <1>13, <1>14,
    <1>15, <1>16, <1>17, <1>18, <1>19, <1>20, <1>21, <1>22, <1>23, <1>24, <1>25, <1>26, <1>27,
    <1>28, <1>29, <1>30, <1>31, <1>32, <1>33, <1>34, <1>35, <1>36, <1>37, <1>38, <1>39, <1>40,
    <1>41, <1>42, <1>43, <1>44, <1>45, <1>46, <1>47, <1>48, <1>49, <1>50, <1>51, <1>52, GuessSteps

\* One more call upstream: what it adds, and when the order stands.
LEMMA CallAdded ==
  ASSUME NEW x, world \in Seq(Calls), world' = Append(world, x),
         \A i, j \in DOMAIN world :
           i < j /\ OrderMatters(world[i]) /\ OrderMatters(world[j]) => world[i] < world[j],
         OrderMatters(x) => \A c \in InWorld : OrderMatters(c) => c < x
  PROVE  /\ InWorld' = InWorld \cup {x}
         /\ (\A i, j \in DOMAIN world :
               i < j /\ OrderMatters(world[i]) /\ OrderMatters(world[j]) => world[i] < world[j])'
<1>1. /\ DOMAIN world' = 1 .. Len(world) + 1 /\ DOMAIN world = 1 .. Len(world) /\ Len(world) \in Nat
      /\ \A i \in DOMAIN world : world'[i] = world[i]
      /\ world'[Len(world) + 1] = x
  OBVIOUS
<1>2. InWorld' = InWorld \cup {x}
  BY <1>1 DEF InWorld
<1>3. ASSUME NEW i \in DOMAIN world', NEW j \in DOMAIN world', i < j,
             OrderMatters(world'[i]), OrderMatters(world'[j])
      PROVE  world'[i] < world'[j]
  <2>1. i \in DOMAIN world
    BY <1>1, <1>3
  <2>2. CASE j \in DOMAIN world
    BY <1>1, <1>3, <2>1, <2>2
  <2>3. CASE j = Len(world) + 1
    <3>1. world[i] \in InWorld
      BY <2>1 DEF InWorld
    <3> QED
      BY <1>1, <1>3, <2>1, <2>3, <3>1
  <2> QED
    BY <1>1, <2>2, <2>3
<1>4. (\A i, j \in DOMAIN world :
         i < j /\ OrderMatters(world[i]) /\ OrderMatters(world[j]) => world[i] < world[j])'
  BY <1>3 DEF OrderMatters
<1> QED
  BY <1>2, <1>4

\* A read nothing depends on leaves the record of the calls that matter as it was.
LEMMA FreeReadAdded ==
  ASSUME TypeOK, Upstream, NEW x \in Free, world' = Append(world, x),
         UNCHANGED <<settled, sending, run, at>>
  PROVE  Upstream'
<1>1. ~OrderMatters(x)
  BY DEF OrderMatters, Free
<1>2. /\ InWorld' = InWorld \cup {x}
      /\ (\A i, j \in DOMAIN world :
            i < j /\ OrderMatters(world[i]) /\ OrderMatters(world[j]) => world[i] < world[j])'
  BY <1>1, CallAdded DEF Upstream, TypeOK
<1>3. x \in (Own .. Later) \cup Strays
  BY Numbers DEF Free
<1>4. Sent' = Sent
  BY DEF Sent
<1> QED
  BY <1>2, <1>3, <1>4 DEF Upstream

\* Who reaches the world, and who moves what is to reach it.
LEMMA WorldSteps ==
  ASSUME [Next]_vars
  PROVE  \/ UNCHANGED <<at, settled, world, run, sending>>
        \/ AnswerWritten \/ SlotDone \/ ReadInOrder \/ Acknowledged
        \/ (\E k \in Blocks : EarlyRead(k)) \/ (\E k \in Guesses : GuessReads(k)) \/ Wakes
        \/ NodeConfirmed \/ (\E e \in Calls : Claim(e)) \/ Claimed \/ Deliver \/ Settled
        \/ DrainOver \/ Retired
<1>1. CASE TurnStep
  BY <1>1 DEF TurnStep, BlockUnguessed, BlockConfirms, BlockMisses, MissIsOver, NoGuess, Guess,
    CutIsOver, ReplyEnds, ReplyUnwritten, EndIsOver, FailureUnwritten, CleanUp, TurnFails,
    BeginAdoption, AdoptNothing, AwaitEarly, MakeCall, TurnDone, SettleFails, StopSettling,
    SettlingStopped, TakeBlock, FailureSeen, turnVars, guessVars, nodeVars, runVars
<1>2. CASE Stopping
  BY <1>2 DEF Stopping, StreamFails, CancelledAtEnd, SettleFails, TakeBlock, turnVars,
    guessVars, nodeVars, runVars
<1>3. CASE Written
  <2>1. CASE \/ (\E k \in Guesses : ConfirmWritten(k))
             \/ (\E k \in Guesses : ForkWritten(k))
             \/ (\E k \in Guesses : CancelledAtConfirm(k))
             \/ (\E k \in Guesses : CancelledAtFork(k))
             \/ (\E k \in Guesses : AdoptionWritten(k))
    BY <2>1 DEF ConfirmWritten, ForkWritten, CancelledAtConfirm, CancelledAtFork,
      AdoptionWritten, TakeBlock, FailureSeen, turnVars, guessVars, nodeVars, runVars,
      schedulerElse
  <2>2. CASE \/ (\E k \in Guesses : SquashDiscarded(k))
             \/ (\E k \in Guesses : SquashResolved(k))
             \/ (\E k \in Guesses, who \in {"turn", "node"} : DropDiscarded(who, k))
             \/ (\E k \in Guesses, who \in {"turn", "node"} : DropResolved(who, k))
             \/ (\E k \in Guesses : GuessRequested(k))
    BY <2>2 DEF SquashDiscarded, SquashResolved, DropDiscarded, DropResolved, GuessRequested,
      TakeBlock, FailureSeen, turnVars, guessVars, nodeVars, runVars, schedulerElse
  <2>3. CASE (\E k \in Guesses : GuessStaged(k))
    BY <2>3 DEF GuessStaged, TakeBlock, FailureSeen, turnVars, guessVars, nodeVars, runVars,
      schedulerElse
  <2>4. CASE (\E k \in Blocks : RequestWritten(k)) \/ (\E k \in Blocks : StageWritten(k))
    BY <2>4 DEF RequestWritten, StageWritten, TakeBlock, FailureSeen, turnVars, guessVars,
      nodeVars, runVars, schedulerElse
  <2>5. CASE CancelledAtAnswer \/ FailureWritten \/ OwnRequested \/ OwnStaged \/ NobodyWaits
    BY <2>5 DEF CancelledAtAnswer, FailureWritten, OwnRequested, OwnStaged, NobodyWaits,
      TakeBlock, FailureSeen, turnVars, guessVars, nodeVars, runVars, schedulerElse
  <2>6. CASE NodeRequested \/ NodeStaged
    BY <2>6 DEF NodeRequested, NodeStaged, TakeBlock, FailureSeen, turnVars, guessVars,
      nodeVars, runVars, schedulerElse
  <2> QED
    BY <1>3, <2>1, <2>2, <2>3, <2>4, <2>5, <2>6 DEF Written
<1>4. CASE Beside
  BY <1>4 DEF Beside, GuessReleased, TakeBlock, turnVars, guessVars, nodeVars, runVars
<1>5. CASE NodeStep
  BY <1>5 DEF NodeStep, NodeWrites, LeaveSquash, LeaveDrop, NodeDone, TakeBlock, turnVars,
    guessVars, nodeVars, runVars
<1>6. CASE RunStep
  BY <1>6 DEF RunStep, EndDrive, TakeBlock, turnVars, guessVars, nodeVars, runVars,
    schedulerElse
<1> QED
  BY <1>1, <1>2, <1>3, <1>4, <1>5, <1>6 DEF Next, AnswerArrives, NodeReturns, Finished, vars,
    turnVars, guessVars, nodeVars, runVars

\* A read that was guessed is the block's own, which no write can change, or is none
\* of the turn's.
LEMMA ReadsGuessed ==
  ASSUME Guessing, NEW k \in Guesses, IsRead(guessed[k])
  PROVE  \/ guessed[k] = Stray(k) /\ Stray(k) \in Strays
         \/ guessed[k] = k /\ k \in Reads \ Dependent /\ k \in Reads \ TrulyDependent
<1>1. GuessOf(k)
  BY DEF Guessing
<1>2. Own \notin Reads \cup Strays /\ Wrong(k) \notin Reads \cup Strays
  BY WrongGuesses, Numbers
<1>3. guessed[k] \in {k, Stray(k)}
  BY <1>1, <1>2 DEF GuessOf, IsRead
<1> QED
  BY <1>1, <1>3, WrongGuesses, TrulyDependentIsDependent, Numbers DEF GuessOf, IsRead, Right

\* What has reached the world, and in which order.
LEMMA UpstreamKept ==
  ASSUME TypeOK, EntriesAreDue, Phases, Guessing, Tasks, Progress, LaterLast, Draining, Upstream, [Next]_vars
  PROVE  Upstream'
<1> USE DEF turnVars, guessVars, nodeVars, runVars, schedulerElse
<1>1. CASE UNCHANGED <<at, settled, world, run, sending>>
  BY <1>1 DEF Upstream, InWorld, Sent, OrderMatters
<1>2. CASE AnswerWritten
  <2>1. pc = "answered" /\ at' = 1 /\ UNCHANGED <<world, settled, sending, run>>
    BY <1>2, WrittenWhenDue DEF AnswerWritten
  <2>2. at = 1
    BY <2>1 DEF Progress, Undecided, Passed, Settling
  <2>3. InWorld' = InWorld /\ Sent' = Sent
    BY <2>1 DEF InWorld, Sent
  <2> QED
    BY <2>1, <2>2, <2>3 DEF Upstream, OrderMatters
<1>3. CASE SlotDone
  <2>1. pc = "slot" /\ at' = at + 1 /\ UNCHANGED <<world, settled, sending, run>>
    BY <1>3 DEF SlotDone
  <2>2. at \notin TrulyDependent
    BY <2>1, TrulyDependentIsDependent DEF Progress, Guessing, GuessOf
  <2>3. InWorld' = InWorld /\ Sent' = Sent
    BY <2>1 DEF InWorld, Sent
  <2>4. {c \in TrulyDependent : c < at'} = {c \in TrulyDependent : c < at}
    <3>1. \A c \in TrulyDependent : c \in Nat /\ at \in Nat /\ c # at
      BY <2>2, Numbers DEF TypeOK
    <3>2. \A c \in TrulyDependent : c < at' <=> c < at
      BY <2>1, <3>1
    <3> QED
      BY <3>2
  <2> QED
    BY <2>1, <2>3, <2>4 DEF Upstream, OrderMatters
<1>4. CASE ReadInOrder
  <2>1. pc = "read" /\ world' = Append(world, at) /\ at' = at + 1 /\ UNCHANGED <<settled, sending, run>>
    BY <1>4 DEF ReadInOrder
  <2>2. at \in Reads /\ at \in Nat
    BY <2>1, Numbers DEF Progress, TypeOK
  <2>3. \A c \in list : c < at
    BY <2>1, NextComesLast DEF UnderWay
  <2>4. Sent \subseteq list /\ Sent' = Sent
    BY <2>1 DEF Sent, Draining, TypeOK
  <2>5. \A c \in InWorld : OrderMatters(c) => c < at
    BY <2>3, <2>4 DEF Upstream, OrderMatters, Free
  <2>6. /\ InWorld' = InWorld \cup {at}
        /\ (\A i, j \in DOMAIN world :
              i < j /\ OrderMatters(world[i]) /\ OrderMatters(world[j]) => world[i] < world[j])'
    BY <2>1, <2>5, CallAdded DEF Upstream, TypeOK
  <2>7. {c \in TrulyDependent : c < at'} = {c \in TrulyDependent : c < at} \cup ({at} \cap TrulyDependent)
    <3>1. \A c \in TrulyDependent : c \in Nat
      BY Numbers
    <3>2. \A c \in TrulyDependent : c < at' <=> c < at \/ c = at
      BY <2>1, <2>2, <3>1
    <3> QED
      BY <3>2
  <2>8. at \in Own .. Later
    BY <2>2, Numbers
  <2>9. at \notin Strays
    BY <2>2, WrongGuesses, Numbers
  <2> QED
    BY <2>1, <2>2, <2>4, <2>6, <2>7, <2>8, <2>9 DEF Upstream, Free
<1>5. CASE Acknowledged
  <2>1. at \in settled /\ at' = at + 1 /\ UNCHANGED <<world, settled, sending, run>>
    BY <1>5 DEF Acknowledged
  <2>2. at \notin TrulyDependent
    <3>1. at \in Reads => at \notin list
      BY Numbers DEF Progress
    <3> QED
      BY <2>1, <3>1, Numbers DEF TypeOK
  <2>3. InWorld' = InWorld /\ Sent' = Sent
    BY <2>1 DEF InWorld, Sent
  <2>4. {c \in TrulyDependent : c < at'} = {c \in TrulyDependent : c < at}
    <3>1. \A c \in TrulyDependent : c \in Nat /\ at \in Nat /\ c # at
      BY <2>2, Numbers DEF TypeOK
    <3>2. \A c \in TrulyDependent : c < at' <=> c < at
      BY <2>1, <3>1
    <3> QED
      BY <3>2
  <2> QED
    BY <2>1, <2>3, <2>4 DEF Upstream, OrderMatters
<1>6. ASSUME NEW k \in Blocks, EarlyRead(k)
      PROVE  Upstream'
  <2>1. k \in Reads \ TrulyDependent
    BY <1>6, TrulyDependentIsDependent DEF EarlyRead, TypeOK
  <2> QED
    BY <1>6, <2>1, FreeReadAdded DEF EarlyRead, Free
<1>7. ASSUME NEW k \in Guesses, GuessReads(k)
      PROVE  Upstream'
  <2>1. IsRead(guessed[k]) /\ world' = Append(world, guessed[k]) /\ UNCHANGED <<settled, sending, run, at>>
    BY <1>7 DEF GuessReads, Tasks
  <2>2. guessed[k] \in Free
    BY <2>1, ReadsGuessed DEF Free
  <2> QED
    BY <2>1, <2>2, FreeReadAdded
<1>8. CASE Wakes
  <2>1. UNCHANGED <<world, at>> /\ Sent' = Sent
    BY <1>8 DEF Wakes, Sent
  <2>2. InWorld' = InWorld
    BY <2>1 DEF InWorld
  <2> QED
    BY <2>1, <2>2 DEF Upstream, OrderMatters
<1>9. CASE NodeConfirmed
  <2>1. UNCHANGED <<world, at>> /\ Sent' = Sent
    BY <1>9, WrittenWhenDue DEF NodeConfirmed, Sent
  <2>2. InWorld' = InWorld
    BY <2>1 DEF InWorld
  <2> QED
    BY <2>1, <2>2 DEF Upstream, OrderMatters
<1>10. ASSUME NEW e \in Calls, Claim(e)
      PROVE  Upstream'
  <2>1. UNCHANGED <<world, at>> /\ Sent' = Sent
    BY <1>10 DEF Claim, Sent
  <2>2. InWorld' = InWorld
    BY <2>1 DEF InWorld
  <2> QED
    BY <2>1, <2>2 DEF Upstream, OrderMatters
<1>11. CASE Claimed
  <2>1. UNCHANGED <<world, at>> /\ Sent' = Sent
    BY <1>11, WrittenWhenDue DEF Claimed, Sent
  <2>2. InWorld' = InWorld
    BY <2>1 DEF InWorld
  <2> QED
    BY <2>1, <2>2 DEF Upstream, OrderMatters
<1>12. CASE Deliver
  <2>1. /\ run = "send"
        /\ run' = "settle"
        /\ world' = Append(world, sending)
        /\ UNCHANGED <<settled, sending, at>>
    BY <1>12 DEF Deliver
  <2>2. /\ sending \in list \ settled /\ Sent = settled /\ Sent' = settled \cup {sending}
        /\ sending \in Own .. Later /\ at \in Nat
    BY <2>1, Numbers DEF Draining, Sent, TypeOK
  <2>3. ASSUME NEW c \in TrulyDependent, c < at
        PROVE  c < sending
    <3>1. c \in Blocks /\ c \in Reads
      BY Numbers
    <3>2. CASE sending = Own
      <4>1. PICK j \in (1 .. c - 1) \ Reads : TRUE
        BY DEF TrulyDependent
      <4>2. j \in Blocks \ Reads /\ j < at /\ j > 0 /\ j \in Nat
        BY <2>2, <2>3, <3>1, <4>1, Numbers
      <4>3. j \in Sent
        BY <2>2, <4>2 DEF Progress
      <4>4. j < Own
        BY <2>2, <3>2, <4>3 DEF Draining
      <4> QED
        BY <4>2, <4>4, Numbers
    <3>3. CASE sending = Later
      BY <3>1, <3>3, Numbers
    <3>4. CASE sending \in Blocks
      <4>1. sending \notin Reads
        BY <2>2, <3>4 DEF Progress
      <4>2. ~(sending < at)
        BY <2>2, <3>4, <4>1 DEF Progress
      <4> QED
        BY <2>2, <2>3, <3>1, <3>4, <4>2, Numbers
    <3> QED
      BY <2>2, <3>2, <3>3, <3>4, Numbers
  <2>4. \A c \in settled : c < sending
    BY <2>2 DEF Draining
  <2>5. \A c \in InWorld : OrderMatters(c) => c < sending
    BY <2>2, <2>3, <2>4 DEF Upstream, OrderMatters, Free
  <2>6. /\ InWorld' = InWorld \cup {sending}
        /\ (\A i, j \in DOMAIN world :
              i < j /\ OrderMatters(world[i]) /\ OrderMatters(world[j]) => world[i] < world[j])'
    BY <2>1, <2>5, CallAdded DEF Upstream, TypeOK
  <2>7. sending \notin Reads /\ sending \notin Strays
    BY <2>2, WrongGuesses, Numbers DEF Progress
  <2> QED
    BY <2>1, <2>2, <2>6, <2>7 DEF Upstream, Free
<1>13. CASE Settled
  <2>1. UNCHANGED <<world, at>> /\ Sent' = Sent
    BY <1>13, WrittenWhenDue DEF Settled, Sent
  <2>2. InWorld' = InWorld
    BY <2>1 DEF InWorld
  <2> QED
    BY <2>1, <2>2 DEF Upstream, OrderMatters
<1>14. CASE DrainOver
  <2>1. UNCHANGED <<world, at>> /\ Sent' = Sent
    BY <1>14 DEF DrainOver, Sent
  <2>2. InWorld' = InWorld
    BY <2>1 DEF InWorld
  <2> QED
    BY <2>1, <2>2 DEF Upstream, OrderMatters
<1>15. CASE Retired
  <2>1. UNCHANGED <<world, at>> /\ Sent' = Sent
    BY <1>15, WrittenWhenDue DEF Retired, Sent
  <2>2. InWorld' = InWorld
    BY <2>1 DEF InWorld
  <2> QED
    BY <2>1, <2>2 DEF Upstream, OrderMatters
<1> HIDE DEF turnVars, guessVars, nodeVars, runVars, schedulerElse
<1> QED
  BY <1>1, <1>2, <1>3, <1>4, <1>5, <1>6, <1>7, <1>8, <1>9, <1>10, <1>11, <1>12, <1>13, <1>14,
    <1>15, WorldSteps

LEMMA JobIs ==
  ASSUME NEW by \in {"own", "turn", "node", "guess", "squash", "run"},
         NEW what \in {"request", "stage", "confirm", "fork", "answered", "failed",
                       "adopt", "discard", "resolve", "claim", "settle", "retire"},
         NEW k \in Calls
  PROVE  Job(by, what, k) \in Jobs
BY DEF Job, Jobs

\* The queue after a step, by what the step does to it.
LEMMA EntriesStay ==
  ASSUME EntriesAreDue, queue' = queue,
         \A e \in Jobs : e \in {queue[i] : i \in DOMAIN queue} /\ Due(e) => Due(e)'
  PROVE  EntriesAreDue'
<1> DEFINE due == {e \in DueJobs : e \in {queue[i] : i \in DOMAIN queue}}
<1>1. Queued(queue, due)
  BY DEF EntriesAreDue, Queued
<1>2. \A e \in due : e \in DueJobs'
  BY DEF DueJobs, Jobs
<1> QED
  BY <1>1, <1>2, QueueStays DEF EntriesAreDue

LEMMA EntriesGrow ==
  ASSUME EntriesAreDue, NEW j \in Jobs, queue' = queue \o <<j>>, Due(j)',
         \A e \in Jobs : e \in {queue[i] : i \in DOMAIN queue} /\ Due(e) => Due(e)' /\ ~SameLane(e, j)
  PROVE  EntriesAreDue'
<1> DEFINE due == {e \in DueJobs : e \in {queue[i] : i \in DOMAIN queue}}
<1>1. Queued(queue, due) /\ queue \in Seq(Jobs)
  BY DEF EntriesAreDue, Queued
<1>2. queue' = Append(queue, j)
  BY <1>1
<1>3. \A e \in due : e \in DueJobs' /\ ~SameLane(e, j)
  BY DEF DueJobs, Jobs
<1>4. j \in DueJobs'
  BY DEF DueJobs, Jobs
<1> HIDE DEF due
<1> QED
  BY <1>1, <1>2, <1>3, <1>4, QueueGrows DEF EntriesAreDue

LEMMA EntriesShrink ==
  ASSUME EntriesAreDue, NEW h, NextWritten(h), queue' = Tail(queue),
         \A e \in Jobs : Due(e) /\ ~SameLane(e, h) => Due(e)'
  PROVE  EntriesAreDue'
<1>1. \A e \in DueJobs : ~SameLane(e, Head(queue)) => e \in DueJobs'
  BY DEF DueJobs, Jobs, NextWritten
<1> QED
  BY <1>1, QueueShrinks DEF EntriesAreDue, NextWritten

LEMMA EntriesMove ==
  ASSUME EntriesAreDue, NEW h, NextWritten(h), NEW j \in Jobs, queue' = Tail(queue) \o <<j>>, Due(j)',
         \A e \in Jobs : Due(e) /\ ~SameLane(e, h) => Due(e)' /\ ~SameLane(e, j)
  PROVE  EntriesAreDue'
<1>1. queue # <<>> /\ Head(queue) = h
  BY DEF NextWritten
<1>2. queue' = Append(Tail(queue), j)
  BY <1>1, HeadIsDue
<1>3. \A e \in DueJobs : ~SameLane(e, Head(queue)) => e \in DueJobs' /\ ~SameLane(e, j)
  BY <1>1 DEF DueJobs, Jobs
<1>4. j \in DueJobs'
  BY DEF DueJobs, Jobs
<1>5. Queued(queue, DueJobs)
  BY DEF EntriesAreDue
<1>6. Queued(Append(Tail(queue), j), DueJobs')
  BY <1>1, <1>3, <1>4, <1>5, QueueMoves
<1> QED
  BY <1>2, <1>6 DEF EntriesAreDue

\* The entry of a squash, and what the squash leaves of the others.
LEMMA SquashDue ==
  ASSUME TypeOK, NEW k \in Guesses, Squash(k), guess[k] # "dropped",
         NEW j, j = Job("squash", "discard", k)
  PROVE  /\ j \in Jobs /\ Due(j)' /\ squashing' = k /\ k # 0
         /\ \A g \in Guesses : guess[g] = "dropped" => guess'[g] = "dropped"
         /\ \A g \in Guesses : task'[g] \in {task[g], "gone"}
         /\ dropping \in [{"turn", "node"} -> SUBSET Guesses]
<1>1. j \in Jobs /\ k # 0
  BY JobIs, Numbers
<1>2. squashing' = k
  BY DEF Squash
<1>3. j.by = "squash" /\ j.what = "discard" /\ j.of = k
  BY DEF Job
<1>4. Due(j)'
  BY <1>1, <1>2, <1>3 DEF Due, Ends
<1> QED
  BY <1>1, <1>2, <1>4 DEF Squash, TypeOK

LEMMA NothingAdded ==
  ASSUME EntriesAreDue
  PROVE  queue \o <<>> = queue /\ (queue # <<>> => Tail(queue) \o <<>> = Tail(queue))
BY HeadIsDue DEF EntriesAreDue, Queued

\* A discard begins: nobody else's entries, nor any guess's, are touched.
LEMMA DropGrows ==
  ASSUME TypeOK, EntriesAreDue, Discarding, NEW who \in {"turn", "node"}, Drop(who, Kept, queue),
         UNCHANGED <<got, at, squashing, own, run, sending>>,
         \A g \in Guesses : task'[g] \in {task[g], "gone"},
         \/ who = "turn" /\ pc = "cleaning" /\ pc' = "dropping" /\ node' = node
         \/ who = "turn" /\ pc = "stopping" /\ pc' = "stopped" /\ node' = node
         \/ who = "node" /\ pc' = pc /\ node \in {"leaving", "squashing"} /\ node' = "dropping"
  PROVE  EntriesAreDue'
<1>1. Kept \in SUBSET Guesses /\ dropping[who] = {}
  BY DEF Kept, Discarding
<1>2. /\ Closes(Kept) \subseteq Kept
      /\ ~over /\ Kept # {} => Closes(Kept) = {Least(Kept)} /\ Least(Kept) \in Kept
      /\ dropping' = [dropping EXCEPT ![who] = IF over THEN {} ELSE Kept]
      /\ guess' = [g \in Guesses |-> IF g \in Closes(Kept) THEN "dropped" ELSE guess[g]]
      /\ queue' = IF over \/ Kept = {} THEN queue
                  ELSE Append(queue, Job(who, IF held[Least(Kept)] THEN "discard" ELSE "resolve", Least(Kept)))
  BY <1>1, DropEffect
<1>3. /\ \A g \in Guesses : guess[g] = "dropped" => guess'[g] = "dropped"
      /\ dropping \in [{"turn", "node"} -> SUBSET Guesses] /\ squashing \in Guesses \cup {0}
      /\ \A w \in {"turn", "node"} : w # who => dropping'[w] = dropping[w]
  BY <1>2 DEF TypeOK
<1> HIDE DEF Kept
<1>4. ASSUME NEW e \in Jobs, Due(e)
      PROVE  Due(e)' /\ (e.by = who => e.what \notin Ends)
  BY <1>1, <1>3, <1>4 DEF Due, DueOfTurn, DueOfDrop, DueOfRun, DueOfNode, Ends
<1>5. CASE over \/ Kept = {}
  BY <1>2, <1>4, <1>5, EntriesStay
<1>6. CASE ~(over \/ Kept = {})
  <2>1. PICK j : j = Job(who, IF held[Least(Kept)] THEN "discard" ELSE "resolve", Least(Kept))
    OBVIOUS
  <2>2. Least(Kept) \in Guesses /\ guess'[Least(Kept)] = "dropped" /\ Least(Kept) \in dropping'[who]
    BY <1>1, <1>2, <1>3, <1>6 DEF TypeOK
  <2>3. j \in Jobs /\ j.by = who /\ j.what \in Ends /\ j.of = Least(Kept)
    BY <2>1, <2>2, JobIs, Numbers DEF Job, Ends
  <2>4. Due(j)'
    BY <2>2, <2>3 DEF Due, DueOfTurn, DueOfDrop, DueOfRun, DueOfNode, Ends
  <2>5. queue' = queue \o <<j>>
    BY <1>2, <1>6, <2>1 DEF EntriesAreDue, Queued
  <2> QED
    BY <1>4, <2>3, <2>4, <2>5, EntriesGrow DEF SameLane
<1> QED
  BY <1>5, <1>6

\* A discard goes on with the next of its guesses, or is over.
LEMMA DropMoves ==
  ASSUME TypeOK, EntriesAreDue, Discarding, NEW who \in {"turn", "node"}, NEW k \in Guesses,
         NEW what \in Ends, NEW h, h = Job(who, what, k), NextWritten(h),
         Drop(who, dropping[who] \ {k}, Tail(queue)),
         UNCHANGED <<pc, got, at, task, squashing, own, node, run, sending>>
  PROVE  EntriesAreDue'
<1> DEFINE D == dropping[who] \ {k}
<1>1. D \in SUBSET Guesses /\ Drop(who, D, Tail(queue))
  BY DEF TypeOK
<1> HIDE DEF D
<1>2. /\ Closes(D) \subseteq D
      /\ ~over /\ D # {} => Closes(D) = {Least(D)} /\ Least(D) \in D
      /\ dropping' = [dropping EXCEPT ![who] = IF over THEN {} ELSE D]
      /\ guess' = [g \in Guesses |-> IF g \in Closes(D) THEN "dropped" ELSE guess[g]]
      /\ queue' = IF over \/ D = {} THEN Tail(queue)
                  ELSE Append(Tail(queue), Job(who, IF held[Least(D)] THEN "discard" ELSE "resolve", Least(D)))
  BY <1>1, DropEffect
<1>3. /\ \A g \in Guesses : guess[g] = "dropped" => guess'[g] = "dropped"
      /\ dropping \in [{"turn", "node"} -> SUBSET Guesses]
      /\ \A w \in {"turn", "node"} : w # who => dropping'[w] = dropping[w]
  BY <1>2 DEF TypeOK
<1>4. ASSUME NEW e \in Jobs, Due(e), ~SameLane(e, h)
      PROVE  Due(e)' /\ (e.by = who => e.what \notin Ends)
  BY <1>3, <1>4 DEF Due, DueOfTurn, DueOfDrop, DueOfRun, DueOfNode, Ends, SameLane, Job
<1>5. CASE over \/ D = {}
  BY <1>2, <1>4, <1>5, EntriesShrink
<1>6. CASE ~(over \/ D = {})
  <2>1. PICK j : j = Job(who, IF held[Least(D)] THEN "discard" ELSE "resolve", Least(D))
    OBVIOUS
  <2>2. Least(D) \in Guesses /\ guess'[Least(D)] = "dropped" /\ Least(D) \in dropping'[who]
    BY <1>1, <1>2, <1>3, <1>6 DEF TypeOK
  <2>3. j \in Jobs /\ j.by = who /\ j.what \in Ends /\ j.of = Least(D)
    BY <2>1, <2>2, JobIs, Numbers DEF Job, Ends
  <2>4. Due(j)'
    BY <2>2, <2>3 DEF Due, DueOfTurn, DueOfDrop, DueOfRun, DueOfNode, Ends
  <2>5. queue' = Tail(queue) \o <<j>>
    BY <1>2, <1>6, <2>1, HeadIsDue DEF NextWritten
  <2> QED
    BY <1>4, <2>3, <2>4, <2>5, EntriesMove DEF SameLane
<1> QED
  BY <1>5, <1>6

\* Who hands entries over, or moves what they are due to.
LEMMA QueueSteps ==
  ASSUME [Next]_vars
  PROVE  \/ UNCHANGED <<queue, pc, got, at, guess, task, squashing, dropping, own, node, run, sending>>
        \/ BlockUnguessed \/ BlockConfirms \/ BlockMisses \/ MissIsOver
        \/ (\E k \in Guesses : ConfirmWritten(k)) \/ NoGuess
        \/ (\E hit \in BOOLEAN : Guess(hit)) \/ (\E k \in Guesses : ForkWritten(k))
        \/ CutIsOver \/ ReplyEnds \/ ReplyUnwritten \/ AnswerWritten \/ EndIsOver
        \/ StreamFails \/ (\E k \in Guesses : CancelledAtConfirm(k))
        \/ (\E k \in Guesses : CancelledAtFork(k)) \/ CancelledAtAnswer \/ FailureWritten
        \/ FailureUnwritten \/ CleanUp \/ TurnFails \/ BeginAdoption \/ AdoptNothing
        \/ (\E k \in Guesses : AdoptionWritten(k)) \/ AwaitEarly \/ SlotDone \/ MakeCall
        \/ (\E k \in Blocks : RequestWritten(k)) \/ ReadInOrder
        \/ (\E k \in Blocks : StageWritten(k)) \/ Acknowledged \/ TurnDone \/ SettleFails
        \/ StopSettling \/ SettlingStopped \/ CancelledAtEnd
        \/ (\E k \in Guesses : SquashDiscarded(k))
        \/ (\E k \in Guesses : SquashResolved(k))
        \/ (\E k \in Guesses, who \in {"turn", "node"} : DropDiscarded(who, k))
        \/ (\E k \in Guesses, who \in {"turn", "node"} : DropResolved(who, k))
        \/ (\E k \in Guesses : GuessRequested(k)) \/ (\E k \in Guesses : GuessReads(k))
        \/ (\E k \in Guesses : GuessStaged(k)) \/ (\E k \in Guesses : GuessReleased(k))
        \/ OwnRequested \/ OwnStaged \/ NobodyWaits \/ NodeWrites \/ NodeRequested
        \/ NodeStaged \/ NodeReturns \/ LeaveSquash \/ LeaveDrop \/ NodeDone \/ Wakes
        \/ NodeConfirmed \/ (\E e \in Calls : Claim(e)) \/ Claimed \/ Deliver \/ Settled
        \/ DrainOver \/ Retired
<1>1. CASE TurnStep
  BY <1>1 DEF TurnStep, TakeBlock, FailureSeen, turnVars, guessVars, nodeVars, runVars
<1>2. CASE Stopping
  BY <1>2 DEF Stopping, TakeBlock, turnVars, guessVars, nodeVars, runVars
<1>3. CASE Written
  <2> QED
    BY <1>3 DEF Written
<1>4. CASE Beside
  BY <1>4 DEF Beside, EarlyRead, TakeBlock, turnVars, guessVars, nodeVars, runVars
<1>5. CASE NodeStep
  BY <1>5 DEF NodeStep, TakeBlock, turnVars, guessVars, nodeVars, runVars
<1>6. CASE RunStep
  BY <1>6 DEF RunStep, EndDrive, TakeBlock, turnVars, guessVars, nodeVars, runVars,
    schedulerElse
<1> QED
  BY <1>1, <1>2, <1>3, <1>4, <1>5, <1>6 DEF Next, AnswerArrives, Finished, vars, turnVars,
    guessVars, nodeVars, runVars

\* Every entry in the queue is due.
LEMMA EntriesKept ==
  ASSUME TypeOK, EntriesAreDue, Phases, Discarding, Guessing, Tasks, Progress, [Next]_vars
  PROVE  EntriesAreDue'
<1> USE DEF turnVars, guessVars, nodeVars, runVars, schedulerElse
<1>1. CASE UNCHANGED <<queue, pc, got, at, guess, task, squashing, dropping, own, node, run, sending>>
  BY <1>1, EntriesStay DEF Due, DueOfTurn, DueOfDrop, DueOfRun, DueOfNode, Ends
<1>2. CASE BlockUnguessed
  <2>1. /\ UNCHANGED <<at, guess, task, squashing, dropping, own, node, run, sending>>
        /\ queue' = queue /\ pc = "stream" /\ pc' = "predict"
    BY <1>2 DEF BlockUnguessed, AtBlock, TakeBlock
  <2>2. ASSUME NEW e \in Jobs, Due(e)
        PROVE  Due(e)'
    BY <2>1, <2>2 DEF Due, DueOfTurn, DueOfDrop, DueOfRun, DueOfNode, Ends
  <2> QED
    BY <2>1, <2>2, EntriesStay
<1>3. CASE BlockConfirms
  <2>1. PICK j : j = Job("turn", "confirm", got + 1)
    OBVIOUS
  <2>2. /\ UNCHANGED <<got, at, task, squashing, dropping, own, node, run, sending>>
        /\ pc = "stream"
        /\ pc' = "confirm"
        /\ got + 1 \in Guesses
        /\ dropping \in [{"turn", "node"} -> SUBSET Guesses]
        /\ \A g \in Guesses : guess[g] = "dropped" => guess'[g] = "dropped"
    BY <1>3 DEF BlockConfirms, AtBlock, Open, TypeOK
  <2>3. queue' = queue \o <<j>> /\ j \in Jobs
    BY <1>3, <2>1, JobIs, Numbers DEF BlockConfirms, Journal, TypeOK, AtBlock, Open
  <2>4. Due(j)'
    BY <2>1, <2>2 DEF Due, DueOfTurn, DueOfDrop, DueOfRun, DueOfNode, Ends, Job
  <2>5. ASSUME NEW e \in Jobs, Due(e)
        PROVE  Due(e)' /\ ~SameLane(e, j)
    BY <2>1, <2>2, <2>5 DEF Due, DueOfTurn, DueOfDrop, DueOfRun, DueOfNode, Ends, Job, SameLane
  <2> QED
    BY <2>3, <2>4, <2>5, EntriesGrow
<1>4. CASE BlockMisses
  <2>1. PICK k \in Open : Squash(k) /\ Journal(SquashEntry(k))
    BY <1>4 DEF BlockMisses, AtBlock
  <2>2. PICK j : j = Job("squash", "discard", k)
    OBVIOUS
  <2>3. k \in Guesses /\ guess[k] # "dropped" /\ squashing = 0 /\ Squash(k)
    BY <2>1, OneOpen DEF Open
  <2>4. /\ UNCHANGED <<got, at, dropping, own, node, run, sending>>
        /\ pc = "stream" /\ pc' = "missed"
    BY <1>4 DEF BlockMisses, AtBlock
  <2>5. /\ j \in Jobs /\ Due(j)' /\ squashing' = k /\ k # 0
        /\ \A g \in Guesses : guess[g] = "dropped" => guess'[g] = "dropped"
        /\ \A g \in Guesses : task'[g] \in {task[g], "gone"}
        /\ dropping \in [{"turn", "node"} -> SUBSET Guesses]
    BY <2>2, <2>3, SquashDue
  <2>6. queue' = queue \o <<j>>
    BY <2>1, <2>2 DEF Journal, SquashEntry
  <2>7. ASSUME NEW e \in Jobs, Due(e)
        PROVE  Due(e)' /\ ~SameLane(e, j)
    BY <2>2, <2>3, <2>4, <2>5, <2>7 DEF Due, DueOfTurn, DueOfDrop, DueOfRun, DueOfNode, Ends, Job,
      Jobs, SameLane
  <2> QED
    BY <1>4, <2>5, <2>6, <2>7, EntriesGrow
<1>5. CASE MissIsOver
  <2>1. /\ UNCHANGED <<at, guess, task, squashing, dropping, own, node, run, sending>>
        /\ queue' = queue /\ pc = "missed" /\ pc' = "predict"
    BY <1>5 DEF MissIsOver, TakeBlock
  <2>2. ASSUME NEW e \in Jobs, Due(e)
        PROVE  Due(e)'
    BY <2>1, <2>2 DEF Due, DueOfTurn, DueOfDrop, DueOfRun, DueOfNode, Ends
  <2> QED
    BY <2>1, <2>2, EntriesStay
<1>6. ASSUME NEW k \in Guesses, ConfirmWritten(k)
      PROVE  EntriesAreDue'
  <2>1. PICK h : h = Job("turn", "confirm", k)
    OBVIOUS
  <2>2. /\ UNCHANGED <<at, guess, task, squashing, dropping, own, node, run, sending>>
        /\ pc = "confirm" /\ pc' = "predict"
    BY <1>6, WrittenWhenDue DEF ConfirmWritten, TakeBlock
  <2>3. NextWritten(h) /\ queue' = Tail(queue)
    BY <1>6, <2>1, NothingAdded DEF ConfirmWritten, WrittenThen, NextWritten
  <2>4. ASSUME NEW e \in Jobs, Due(e), ~SameLane(e, h)
        PROVE  Due(e)'
    BY <2>1, <2>2, <2>4 DEF Due, DueOfTurn, DueOfDrop, DueOfRun, DueOfNode, Ends, Job, SameLane
  <2> QED
    BY <2>3, <2>4, EntriesShrink
<1>7. CASE NoGuess
  <2>1. /\ UNCHANGED <<got, at, guess, task, squashing, dropping, own, node, run, sending>>
        /\ queue' = queue /\ pc = "predict" /\ pc' = "stream"
    BY <1>7 DEF NoGuess
  <2>2. ASSUME NEW e \in Jobs, Due(e)
        PROVE  Due(e)'
    BY <2>1, <2>2 DEF Due, DueOfTurn, DueOfDrop, DueOfRun, DueOfNode, Ends
  <2> QED
    BY <2>1, <2>2, EntriesStay
<1>8. ASSUME NEW hit \in BOOLEAN, Guess(hit)
      PROVE  EntriesAreDue'
  <2>1. PICK j : j = Job("turn", "fork", got + 1)
    OBVIOUS
  <2>2. /\ UNCHANGED <<got, at, task, squashing, dropping, own, node, run, sending>>
        /\ pc = "predict" /\ pc' = "fork" /\ dropping \in [{"turn", "node"} -> SUBSET Guesses]
        /\ \A g \in Guesses : guess[g] = "dropped" => guess'[g] = "dropped"
    BY <1>8 DEF Guess, Guessing, GuessOf, TypeOK
  <2>3. queue' = queue \o <<j>> /\ j \in Jobs
    BY <1>8, <2>1, JobIs, Numbers DEF Guess, Journal, TypeOK
  <2>4. Due(j)'
    BY <2>1, <2>2 DEF Due, DueOfTurn, DueOfDrop, DueOfRun, DueOfNode, Ends, Job
  <2>5. ASSUME NEW e \in Jobs, Due(e)
        PROVE  Due(e)' /\ ~SameLane(e, j)
    BY <2>1, <2>2, <2>5 DEF Due, DueOfTurn, DueOfDrop, DueOfRun, DueOfNode, Ends, Job, SameLane
  <2> QED
    BY <2>3, <2>4, <2>5, EntriesGrow
<1>9. ASSUME NEW k \in Guesses, ForkWritten(k)
      PROVE  EntriesAreDue'
  <2>1. PICK h : h = Job("turn", "fork", k)
    OBVIOUS
  <2>2. pc = "fork" /\ k = got + 1 /\ NextWritten(h)
    BY <1>9, <2>1, WrittenWhenDue DEF ForkWritten
  <2>3. squashing = 0 /\ guess[k] = "forking" /\ task[k] = "none"
    BY <2>2 DEF Guessing, GuessOf, Phases
  <2>4. UNCHANGED <<got, at, dropping, own, node, run, sending>>
    BY <1>9 DEF ForkWritten
  <2>5. CASE ~Returned
    <3>1. PICK j : j = Job("guess", "request", k)
      OBVIOUS
    <3>2. /\ pc' = "stream" /\ task'[k] = "request" /\ squashing' = squashing
          /\ dropping \in [{"turn", "node"} -> SUBSET Guesses]
          /\ \A g \in Guesses : g # k => guess'[g] = guess[g] /\ task'[g] = task[g]
      BY <1>9, <2>5 DEF ForkWritten, TypeOK
    <3>3. queue' = Tail(queue) \o <<j>> /\ j \in Jobs
      BY <1>9, <2>5, <3>1, JobIs, Numbers DEF ForkWritten, WrittenThen
    <3>4. Due(j)'
      BY <3>1, <3>2 DEF Due, Job
    <3>5. ASSUME NEW e \in Jobs, Due(e), ~SameLane(e, h)
          PROVE  Due(e)' /\ ~SameLane(e, j)
      BY <2>1, <2>2, <2>3, <2>4, <3>1, <3>2, <3>5 DEF Due, DueOfTurn, DueOfDrop, DueOfRun,
        DueOfNode, Ends, Job, SameLane
    <3> QED
      BY <2>2, <3>3, <3>4, <3>5, EntriesMove
  <2>6. CASE Returned
    <3>1. PICK j : j = Job("squash", "discard", k)
      OBVIOUS
    <3>2. Squash(k) /\ pc' = "cut" /\ queue' = Tail(queue) \o <<j>>
      BY <1>9, <2>6, <3>1 DEF ForkWritten, WrittenThen, SquashEntry
    <3>3. /\ j \in Jobs /\ Due(j)' /\ squashing' = k /\ k # 0
          /\ \A g \in Guesses : guess[g] = "dropped" => guess'[g] = "dropped"
          /\ \A g \in Guesses : task'[g] \in {task[g], "gone"}
          /\ dropping \in [{"turn", "node"} -> SUBSET Guesses]
      BY <2>3, <3>1, <3>2, SquashDue
    <3>4. ASSUME NEW e \in Jobs, Due(e), ~SameLane(e, h)
          PROVE  Due(e)' /\ ~SameLane(e, j)
      BY <2>1, <2>2, <2>3, <2>4, <3>1, <3>2, <3>3, <3>4 DEF Due, DueOfTurn, DueOfDrop, DueOfRun,
        DueOfNode, Ends, Job, SameLane
    <3> QED
      BY <2>2, <3>2, <3>3, <3>4, EntriesMove
  <2> QED
    BY <2>5, <2>6
<1>10. CASE CutIsOver
  <2>1. /\ UNCHANGED <<got, at, guess, task, squashing, dropping, own, node, run, sending>>
        /\ queue' = queue /\ pc = "cut" /\ pc' = "stream"
    BY <1>10 DEF CutIsOver
  <2>2. ASSUME NEW e \in Jobs, Due(e)
        PROVE  Due(e)'
    BY <2>1, <2>2 DEF Due, DueOfTurn, DueOfDrop, DueOfRun, DueOfNode, Ends
  <2> QED
    BY <2>1, <2>2, EntriesStay
<1>11. CASE ReplyEnds
  <2>1. PICK j : j = Job("turn", "answered", 0)
    OBVIOUS
  <2>2. /\ UNCHANGED <<got, at, guess, task, squashing, dropping, own, node, run, sending>>
        /\ pc = "stream" /\ pc' = "answered"
    BY <1>11 DEF ReplyEnds
  <2>3. queue' = queue \o <<j>> /\ j \in Jobs
    BY <1>11, <2>1, JobIs, Numbers DEF ReplyEnds, Journal, TypeOK, Own
  <2>4. Due(j)'
    BY <2>1, <2>2 DEF Due, DueOfTurn, DueOfDrop, DueOfRun, DueOfNode, Ends, Job
  <2>5. ASSUME NEW e \in Jobs, Due(e)
        PROVE  Due(e)' /\ ~SameLane(e, j)
    BY <2>1, <2>2, <2>5 DEF Due, DueOfTurn, DueOfDrop, DueOfRun, DueOfNode, Ends, Job, SameLane
  <2> QED
    BY <2>3, <2>4, <2>5, EntriesGrow
<1>12. CASE ReplyUnwritten
  <2>1. /\ UNCHANGED <<got, at, guess, task, squashing, dropping, own, node, run, sending>>
        /\ queue' = queue /\ pc = "stream" /\ pc' = "settle"
    BY <1>12 DEF ReplyUnwritten
  <2>2. ASSUME NEW e \in Jobs, Due(e)
        PROVE  Due(e)'
    BY <2>1, <2>2 DEF Due, DueOfTurn, DueOfDrop, DueOfRun, DueOfNode, Ends
  <2> QED
    BY <2>1, <2>2, EntriesStay
<1>13. CASE AnswerWritten
  <2>1. CASE Open = {}
    <3>1. PICK h : h = Job("turn", "answered", 0)
      OBVIOUS
    <3>2. /\ UNCHANGED <<got, dropping, own, node, run, sending>>
          /\ pc = "answered" /\ pc' = "settle" /\ UNCHANGED <<guess, task, squashing>>
      BY <1>13, <2>1, WrittenWhenDue DEF AnswerWritten
    <3>3. NextWritten(h) /\ queue' = Tail(queue)
      BY <1>13, <2>1, <3>1, NothingAdded DEF AnswerWritten, WrittenThen, NextWritten
    <3>4. ASSUME NEW e \in Jobs, Due(e), ~SameLane(e, h)
          PROVE  Due(e)'
      BY <3>1, <3>2, <3>4 DEF Due, DueOfTurn, DueOfDrop, DueOfRun, DueOfNode, Ends, Job, SameLane
    <3> QED
      BY <3>3, <3>4, EntriesShrink
  <2>2. CASE Open # {}
    <3>1. PICK k \in Open : Squash(k) /\ WrittenThen(SquashEntry(k))
      BY <1>13, <2>2 DEF AnswerWritten
    <3>2. PICK j : j = Job("squash", "discard", k)
      OBVIOUS
    <3>3. k \in Guesses /\ guess[k] # "dropped" /\ squashing = 0 /\ Squash(k)
      BY <3>1, OneOpen DEF Open
    <3>4. /\ UNCHANGED <<got, dropping, own, node, run, sending>>
          /\ pc = "answered" /\ pc' = "ended"
      BY <1>13, <2>2, WrittenWhenDue DEF AnswerWritten
    <3>5. /\ j \in Jobs /\ Due(j)' /\ squashing' = k /\ k # 0
          /\ \A g \in Guesses : guess[g] = "dropped" => guess'[g] = "dropped"
          /\ \A g \in Guesses : task'[g] \in {task[g], "gone"}
          /\ dropping \in [{"turn", "node"} -> SUBSET Guesses]
      BY <3>2, <3>3, SquashDue
    <3>6. PICK h : h = Job("turn", "answered", 0)
      OBVIOUS
    <3>7. queue' = Tail(queue) \o <<j>> /\ NextWritten(h)
      BY <1>13, <2>2, <3>1, <3>2, <3>6 DEF WrittenThen, SquashEntry, AnswerWritten
    <3>8. ASSUME NEW e \in Jobs, Due(e), ~SameLane(e, h)
          PROVE  Due(e)' /\ ~SameLane(e, j)
      BY <3>2, <3>3, <3>4, <3>5, <3>6, <3>8 DEF Due, DueOfTurn, DueOfDrop, DueOfRun, DueOfNode,
        Ends, Job, SameLane
    <3> QED
      BY <3>5, <3>7, <3>8, EntriesMove
  <2> QED
    BY <2>1, <2>2
<1>14. CASE EndIsOver
  <2>1. /\ UNCHANGED <<got, at, guess, task, squashing, dropping, own, node, run, sending>>
        /\ queue' = queue /\ pc = "ended" /\ pc' = "settle"
    BY <1>14 DEF EndIsOver
  <2>2. ASSUME NEW e \in Jobs, Due(e)
        PROVE  Due(e)'
    BY <2>1, <2>2 DEF Due, DueOfTurn, DueOfDrop, DueOfRun, DueOfNode, Ends
  <2> QED
    BY <2>1, <2>2, EntriesStay
<1>15. CASE StreamFails
  <2>1. CASE over
    <3>1. /\ UNCHANGED <<got, at, guess, task, squashing, dropping, own, node, run, sending>>
          /\ queue' = queue /\ (pc \in {"stream", "predict", "missed", "cut"}) /\ pc' = "failing"
      BY <1>15, <2>1, NothingAdded DEF StreamFails, Journal, FailedEntry
    <3>2. ASSUME NEW e \in Jobs, Due(e)
          PROVE  Due(e)'
      BY <3>1, <3>2 DEF Due, DueOfTurn, DueOfDrop, DueOfRun, DueOfNode, Ends
    <3> QED
      BY <3>1, <3>2, EntriesStay
  <2>2. CASE ~over
    <3>1. PICK j : j = Job("turn", "failed", 0)
      OBVIOUS
    <3>2. /\ UNCHANGED <<got, at, guess, task, squashing, dropping, own, node, run, sending>>
          /\ (pc \in {"stream", "predict", "missed", "cut"}) /\ pc' = "failing"
      BY <1>15, <2>2 DEF StreamFails
    <3>3. queue' = queue \o <<j>> /\ j \in Jobs
      BY <1>15, <2>2, <3>1, JobIs, Numbers DEF StreamFails, Journal, TypeOK, FailedEntry, Own
    <3>4. Due(j)'
      BY <3>1, <3>2 DEF Due, DueOfTurn, DueOfDrop, DueOfRun, DueOfNode, Ends, Job
    <3>5. ASSUME NEW e \in Jobs, Due(e)
          PROVE  Due(e)' /\ ~SameLane(e, j)
      BY <3>1, <3>2, <3>5 DEF Due, DueOfTurn, DueOfDrop, DueOfRun, DueOfNode, Ends, Job, SameLane
    <3> QED
      BY <3>3, <3>4, <3>5, EntriesGrow
  <2> QED
    BY <2>1, <2>2
<1>16. ASSUME NEW k \in Guesses, CancelledAtConfirm(k)
      PROVE  EntriesAreDue'
  <2>1. CASE over
    <3>1. PICK h : h = Job("turn", "confirm", k)
      OBVIOUS
    <3>2. /\ UNCHANGED <<got, at, guess, task, squashing, dropping, own, node, run, sending>>
          /\ pc = "confirm" /\ pc' = "failing"
      BY <1>16, <2>1, WrittenWhenDue DEF CancelledAtConfirm
    <3>3. NextWritten(h) /\ queue' = Tail(queue)
      BY <1>16, <2>1, <3>1, NothingAdded DEF CancelledAtConfirm, WrittenThen, FailedEntry, NextWritten
    <3>4. ASSUME NEW e \in Jobs, Due(e), ~SameLane(e, h)
          PROVE  Due(e)'
      BY <3>1, <3>2, <3>4 DEF Due, DueOfTurn, DueOfDrop, DueOfRun, DueOfNode, Ends, Job, SameLane
    <3> QED
      BY <3>3, <3>4, EntriesShrink
  <2>2. CASE ~over
    <3>1. PICK h : h = Job("turn", "confirm", k)
      OBVIOUS
    <3>2. PICK j : j = Job("turn", "failed", 0)
      OBVIOUS
    <3>3. /\ UNCHANGED <<got, at, guess, task, squashing, dropping, own, node, run, sending>>
          /\ pc = "confirm" /\ pc' = "failing"
      BY <1>16, <2>2, WrittenWhenDue DEF CancelledAtConfirm
    <3>4. NextWritten(h) /\ queue' = Tail(queue) \o <<j>> /\ j \in Jobs
      BY <1>16, <2>2, <3>1, <3>2, JobIs, Numbers DEF CancelledAtConfirm, WrittenThen, TypeOK, FailedEntry, Own
    <3>5. Due(j)'
      BY <3>2, <3>3 DEF Due, DueOfTurn, DueOfDrop, DueOfRun, DueOfNode, Ends, Job
    <3>6. ASSUME NEW e \in Jobs, Due(e), ~SameLane(e, h)
          PROVE  Due(e)' /\ ~SameLane(e, j)
      BY <3>1, <3>2, <3>3, <3>6 DEF Due, DueOfTurn, DueOfDrop, DueOfRun, DueOfNode, Ends, Job, SameLane
    <3> QED
      BY <3>4, <3>5, <3>6, EntriesMove
  <2> QED
    BY <2>1, <2>2
<1>17. ASSUME NEW k \in Guesses, CancelledAtFork(k)
      PROVE  EntriesAreDue'
  <2>1. CASE over
    <3>1. PICK h : h = Job("turn", "fork", k)
      OBVIOUS
    <3>2. /\ UNCHANGED <<got, at, task, squashing, dropping, own, node, run, sending>>
          /\ pc = "fork" /\ pc' = "failing" /\ dropping \in [{"turn", "node"} -> SUBSET Guesses]
          /\ \A g \in Guesses : guess[g] = "dropped" => guess'[g] = "dropped"
      BY <1>17, <2>1, WrittenWhenDue DEF CancelledAtFork, Guessing, GuessOf, TypeOK
    <3>3. NextWritten(h) /\ queue' = Tail(queue)
      BY <1>17, <2>1, <3>1, NothingAdded DEF CancelledAtFork, WrittenThen, FailedEntry, NextWritten
    <3>4. ASSUME NEW e \in Jobs, Due(e), ~SameLane(e, h)
          PROVE  Due(e)'
      BY <3>1, <3>2, <3>4 DEF Due, DueOfTurn, DueOfDrop, DueOfRun, DueOfNode, Ends, Job, SameLane
    <3> QED
      BY <3>3, <3>4, EntriesShrink
  <2>2. CASE ~over
    <3>1. PICK h : h = Job("turn", "fork", k)
      OBVIOUS
    <3>2. PICK j : j = Job("turn", "failed", 0)
      OBVIOUS
    <3>3. /\ UNCHANGED <<got, at, task, squashing, dropping, own, node, run, sending>>
          /\ pc = "fork" /\ pc' = "failing" /\ dropping \in [{"turn", "node"} -> SUBSET Guesses]
          /\ \A g \in Guesses : guess[g] = "dropped" => guess'[g] = "dropped"
      BY <1>17, <2>2, WrittenWhenDue DEF CancelledAtFork, Guessing, GuessOf, TypeOK
    <3>4. NextWritten(h) /\ queue' = Tail(queue) \o <<j>> /\ j \in Jobs
      BY <1>17, <2>2, <3>1, <3>2, JobIs, Numbers DEF CancelledAtFork, WrittenThen, TypeOK, FailedEntry, Own
    <3>5. Due(j)'
      BY <3>2, <3>3 DEF Due, DueOfTurn, DueOfDrop, DueOfRun, DueOfNode, Ends, Job
    <3>6. ASSUME NEW e \in Jobs, Due(e), ~SameLane(e, h)
          PROVE  Due(e)' /\ ~SameLane(e, j)
      BY <3>1, <3>2, <3>3, <3>6 DEF Due, DueOfTurn, DueOfDrop, DueOfRun, DueOfNode, Ends, Job, SameLane
    <3> QED
      BY <3>4, <3>5, <3>6, EntriesMove
  <2> QED
    BY <2>1, <2>2
<1>18. CASE CancelledAtAnswer
  <2>1. CASE over
    <3>1. PICK h : h = Job("turn", "answered", 0)
      OBVIOUS
    <3>2. /\ UNCHANGED <<got, at, guess, task, squashing, dropping, own, node, run, sending>>
          /\ pc = "answered" /\ pc' = "failing"
      BY <1>18, <2>1, WrittenWhenDue DEF CancelledAtAnswer
    <3>3. NextWritten(h) /\ queue' = Tail(queue)
      BY <1>18, <2>1, <3>1, NothingAdded DEF CancelledAtAnswer, WrittenThen, FailedEntry, NextWritten
    <3>4. ASSUME NEW e \in Jobs, Due(e), ~SameLane(e, h)
          PROVE  Due(e)'
      BY <3>1, <3>2, <3>4 DEF Due, DueOfTurn, DueOfDrop, DueOfRun, DueOfNode, Ends, Job, SameLane
    <3> QED
      BY <3>3, <3>4, EntriesShrink
  <2>2. CASE ~over
    <3>1. PICK h : h = Job("turn", "answered", 0)
      OBVIOUS
    <3>2. PICK j : j = Job("turn", "failed", 0)
      OBVIOUS
    <3>3. /\ UNCHANGED <<got, at, guess, task, squashing, dropping, own, node, run, sending>>
          /\ pc = "answered" /\ pc' = "failing"
      BY <1>18, <2>2, WrittenWhenDue DEF CancelledAtAnswer
    <3>4. NextWritten(h) /\ queue' = Tail(queue) \o <<j>> /\ j \in Jobs
      BY <1>18, <2>2, <3>1, <3>2, JobIs, Numbers DEF CancelledAtAnswer, WrittenThen, TypeOK, FailedEntry, Own
    <3>5. Due(j)'
      BY <3>2, <3>3 DEF Due, DueOfTurn, DueOfDrop, DueOfRun, DueOfNode, Ends, Job
    <3>6. ASSUME NEW e \in Jobs, Due(e), ~SameLane(e, h)
          PROVE  Due(e)' /\ ~SameLane(e, j)
      BY <3>1, <3>2, <3>3, <3>6 DEF Due, DueOfTurn, DueOfDrop, DueOfRun, DueOfNode, Ends, Job, SameLane
    <3> QED
      BY <3>4, <3>5, <3>6, EntriesMove
  <2> QED
    BY <2>1, <2>2
<1>19. CASE FailureWritten
  <2>1. CASE Open = {}
    <3>1. PICK h : h = Job("turn", "failed", 0)
      OBVIOUS
    <3>2. /\ UNCHANGED <<got, at, dropping, own, node, run, sending>>
          /\ pc = "failing" /\ pc' = "cleaning" /\ UNCHANGED <<guess, task, squashing>>
      BY <1>19, <2>1, WrittenWhenDue DEF FailureWritten, FailureSeen
    <3>3. NextWritten(h) /\ queue' = Tail(queue)
      BY <1>19, <2>1, <3>1, NothingAdded DEF FailureWritten, FailureSeen, WrittenThen, NextWritten
    <3>4. ASSUME NEW e \in Jobs, Due(e), ~SameLane(e, h)
          PROVE  Due(e)'
      BY <3>1, <3>2, <3>4 DEF Due, DueOfTurn, DueOfDrop, DueOfRun, DueOfNode, Ends, Job, SameLane
    <3> QED
      BY <3>3, <3>4, EntriesShrink
  <2>2. CASE Open # {}
    <3>1. PICK k \in Open : Squash(k) /\ queue' = Tail(queue) \o SquashEntry(k)
      BY <1>19, <2>2 DEF FailureWritten, FailureSeen
    <3>2. PICK j : j = Job("squash", "discard", k)
      OBVIOUS
    <3>3. k \in Guesses /\ guess[k] # "dropped" /\ squashing = 0 /\ Squash(k)
      BY <3>1, OneOpen DEF Open
    <3>4. /\ UNCHANGED <<got, at, dropping, own, node, run, sending>>
          /\ pc = "failing" /\ pc' = "cleaning"
      BY <1>19, <2>2, WrittenWhenDue DEF FailureWritten, FailureSeen
    <3>5. /\ j \in Jobs /\ Due(j)' /\ squashing' = k /\ k # 0
          /\ \A g \in Guesses : guess[g] = "dropped" => guess'[g] = "dropped"
          /\ \A g \in Guesses : task'[g] \in {task[g], "gone"}
          /\ dropping \in [{"turn", "node"} -> SUBSET Guesses]
      BY <3>2, <3>3, SquashDue
    <3>6. PICK h : h = Job("turn", "failed", 0)
      OBVIOUS
    <3>7. queue' = Tail(queue) \o <<j>> /\ NextWritten(h)
      BY <1>19, <2>2, <3>1, <3>2, <3>6 DEF WrittenThen, SquashEntry, FailureWritten
    <3>8. ASSUME NEW e \in Jobs, Due(e), ~SameLane(e, h)
          PROVE  Due(e)' /\ ~SameLane(e, j)
      BY <3>2, <3>3, <3>4, <3>5, <3>6, <3>8 DEF Due, DueOfTurn, DueOfDrop, DueOfRun, DueOfNode,
        Ends, Job, SameLane
    <3> QED
      BY <3>5, <3>7, <3>8, EntriesMove
  <2> QED
    BY <2>1, <2>2
<1>20. CASE FailureUnwritten
  <2>1. CASE Open = {}
    <3>1. /\ UNCHANGED <<got, at, dropping, own, node, run, sending>>
          /\ queue' = queue /\ pc = "failing" /\ pc' = "cleaning" /\ UNCHANGED <<guess, task, squashing>>
      BY <1>20, <2>1 DEF FailureUnwritten, FailureSeen
    <3>2. ASSUME NEW e \in Jobs, Due(e), e # Job("turn", "failed", 0)
          PROVE  Due(e)'
      BY <3>1, <3>2 DEF Due, DueOfTurn, DueOfDrop, DueOfRun, DueOfNode, Ends, Job, Jobs
    <3> QED
      BY <1>20, <2>1, <3>1, <3>2, EntriesStay DEF FailureUnwritten
  <2>2. CASE Open # {}
    <3>1. PICK k \in Open : Squash(k) /\ queue' = queue \o SquashEntry(k)
      BY <1>20, <2>2 DEF FailureUnwritten, FailureSeen
    <3>2. PICK j : j = Job("squash", "discard", k)
      OBVIOUS
    <3>3. k \in Guesses /\ guess[k] # "dropped" /\ squashing = 0 /\ Squash(k)
      BY <3>1, OneOpen DEF Open
    <3>4. /\ UNCHANGED <<got, at, dropping, own, node, run, sending>>
          /\ pc = "failing" /\ pc' = "cleaning"
      BY <1>20, <2>2 DEF FailureUnwritten, FailureSeen
    <3>5. /\ j \in Jobs /\ Due(j)' /\ squashing' = k /\ k # 0
          /\ \A g \in Guesses : guess[g] = "dropped" => guess'[g] = "dropped"
          /\ \A g \in Guesses : task'[g] \in {task[g], "gone"}
          /\ dropping \in [{"turn", "node"} -> SUBSET Guesses]
      BY <3>2, <3>3, SquashDue
    <3>6. queue' = queue \o <<j>>
      BY <3>1, <3>2 DEF Journal, SquashEntry
    <3>7. ASSUME NEW e \in Jobs, Due(e), e # Job("turn", "failed", 0)
          PROVE  Due(e)' /\ ~SameLane(e, j)
      BY <3>2, <3>3, <3>4, <3>5, <3>7 DEF Due, DueOfTurn, DueOfDrop, DueOfRun, DueOfNode, Ends,
        Job, Jobs, SameLane
    <3> QED
      BY <1>20, <2>2, <3>5, <3>6, <3>7, EntriesGrow DEF FailureUnwritten
  <2> QED
    BY <2>1, <2>2
<1>21. CASE CleanUp
  <2>1. Kept \in SUBSET Guesses /\ Drop("turn", Kept, queue)
    BY <1>21 DEF Kept, CleanUp
  <2>2. /\ UNCHANGED <<got, at, squashing, own, node, run, sending>>
        /\ pc = "cleaning" /\ pc' = "dropping" /\ \A g \in Guesses : task'[g] \in {task[g], "gone"}
    BY <1>21 DEF CleanUp, Abandon
  <2> QED
    BY <2>1, <2>2, DropGrows
<1>22. CASE TurnFails
  <2>1. /\ UNCHANGED <<got, at, guess, task, squashing, dropping, own, node, run, sending>>
        /\ queue' = queue /\ pc = "dropping" /\ pc' = "failed"
    BY <1>22 DEF TurnFails
  <2>2. ASSUME NEW e \in Jobs, Due(e)
        PROVE  Due(e)'
    BY <2>1, <2>2 DEF Due, DueOfTurn, DueOfDrop, DueOfRun, DueOfNode, Ends
  <2> QED
    BY <2>1, <2>2, EntriesStay
<1>23. CASE BeginAdoption
  <2>1. PICK j : j = Job("turn", "adopt", at)
    OBVIOUS
  <2>2. /\ UNCHANGED <<got, at, guess, task, squashing, dropping, own, node, run, sending>>
        /\ pc = "settle" /\ pc' = "adopt"
    BY <1>23 DEF BeginAdoption, AtResult
  <2>3. queue' = queue \o <<j>> /\ j \in Jobs
    BY <1>23, <2>1, JobIs, Numbers DEF BeginAdoption, Journal, TypeOK, AtResult
  <2>4. Due(j)'
    BY <2>1, <2>2 DEF Due, DueOfTurn, DueOfDrop, DueOfRun, DueOfNode, Ends, Job
  <2>5. ASSUME NEW e \in Jobs, Due(e)
        PROVE  Due(e)' /\ ~SameLane(e, j)
    BY <2>1, <2>2, <2>5 DEF Due, DueOfTurn, DueOfDrop, DueOfRun, DueOfNode, Ends, Job, SameLane
  <2> QED
    BY <2>3, <2>4, <2>5, EntriesGrow
<1>24. CASE AdoptNothing
  <2>1. /\ UNCHANGED <<got, at, task, squashing, dropping, own, node, run, sending>>
        /\ queue' = queue
        /\ pc = "settle"
        /\ pc' = "slot"
        /\ dropping \in [{"turn", "node"} -> SUBSET Guesses]
        /\ \A g \in Guesses : guess[g] = "dropped" => guess'[g] = "dropped"
    BY <1>24 DEF AdoptNothing, AtResult, Adopt, Kept, TypeOK
  <2>2. ASSUME NEW e \in Jobs, Due(e)
        PROVE  Due(e)'
    BY <2>1, <2>2 DEF Due, DueOfTurn, DueOfDrop, DueOfRun, DueOfNode, Ends
  <2> QED
    BY <2>1, <2>2, EntriesStay
<1>25. ASSUME NEW k \in Guesses, AdoptionWritten(k)
      PROVE  EntriesAreDue'
  <2>1. PICK h : h = Job("turn", "adopt", k)
    OBVIOUS
  <2>2. /\ UNCHANGED <<got, at, task, squashing, dropping, own, node, run, sending>>
        /\ pc = "adopt" /\ pc' = "slot" /\ dropping \in [{"turn", "node"} -> SUBSET Guesses]
        /\ \A g \in Guesses : guess[g] = "dropped" => guess'[g] = "dropped"
    BY <1>25, WrittenWhenDue DEF AdoptionWritten, Adopt, TypeOK, Progress, Kept
  <2>3. NextWritten(h) /\ queue' = Tail(queue)
    BY <1>25, <2>1, NothingAdded DEF AdoptionWritten, WrittenThen, NextWritten
  <2>4. ASSUME NEW e \in Jobs, Due(e), ~SameLane(e, h)
        PROVE  Due(e)'
    BY <2>1, <2>2, <2>4 DEF Due, DueOfTurn, DueOfDrop, DueOfRun, DueOfNode, Ends, Job, SameLane
  <2> QED
    BY <2>3, <2>4, EntriesShrink
<1>26. CASE AwaitEarly
  <2>1. /\ UNCHANGED <<got, at, guess, task, squashing, dropping, own, node, run, sending>>
        /\ queue' = queue /\ pc = "settle" /\ pc' = "slot"
    BY <1>26 DEF AwaitEarly, AtResult
  <2>2. ASSUME NEW e \in Jobs, Due(e)
        PROVE  Due(e)'
    BY <2>1, <2>2 DEF Due, DueOfTurn, DueOfDrop, DueOfRun, DueOfNode, Ends
  <2> QED
    BY <2>1, <2>2, EntriesStay
<1>27. CASE SlotDone
  <2>1. /\ UNCHANGED <<got, guess, task, squashing, dropping, own, node, run, sending>>
        /\ queue' = queue /\ pc = "slot" /\ pc' = "settle"
    BY <1>27 DEF SlotDone
  <2>2. ASSUME NEW e \in Jobs, Due(e)
        PROVE  Due(e)'
    BY <2>1, <2>2 DEF Due, DueOfTurn, DueOfDrop, DueOfRun, DueOfNode, Ends
  <2> QED
    BY <2>1, <2>2, EntriesStay
<1>28. CASE MakeCall
  <2>1. PICK j : j = Job("turn", "request", at)
    OBVIOUS
  <2>2. /\ UNCHANGED <<got, at, guess, task, squashing, dropping, own, node, run, sending>>
        /\ pc = "settle" /\ pc' = "request"
    BY <1>28 DEF MakeCall, AtResult
  <2>3. queue' = queue \o <<j>> /\ j \in Jobs
    BY <1>28, <2>1, JobIs, Numbers DEF MakeCall, Journal, TypeOK, AtResult
  <2>4. Due(j)'
    BY <2>1, <2>2 DEF Due, DueOfTurn, DueOfDrop, DueOfRun, DueOfNode, Ends, Job
  <2>5. ASSUME NEW e \in Jobs, Due(e)
        PROVE  Due(e)' /\ ~SameLane(e, j)
    BY <2>1, <2>2, <2>5 DEF Due, DueOfTurn, DueOfDrop, DueOfRun, DueOfNode, Ends, Job, SameLane
  <2> QED
    BY <2>3, <2>4, <2>5, EntriesGrow
<1>29. ASSUME NEW k \in Blocks, RequestWritten(k)
      PROVE  EntriesAreDue'
  <2>1. PICK h : h = Job("turn", "request", k)
    OBVIOUS
  <2>2. /\ NextWritten(h)
        /\ pc = "request"
        /\ k = at
        /\ UNCHANGED <<got, at, guess, task, squashing, dropping, own, node, run, sending>>
    BY <1>29, <2>1, WrittenWhenDue DEF RequestWritten
  <2>3. CASE ~IsRead(k) /\ StillStages
    <3>1. PICK j : j = Job("turn", "stage", k)
      OBVIOUS
    <3>2. pc' = "stage" /\ queue' = Tail(queue) \o <<j>> /\ j \in Jobs
      BY <1>29, <2>3, <3>1, JobIs, Numbers DEF RequestWritten, WrittenThen
    <3>3. Due(j)'
      BY <2>2, <3>1, <3>2 DEF Due, DueOfTurn, DueOfDrop, DueOfRun, DueOfNode, Ends, Job
    <3>4. ASSUME NEW e \in Jobs, Due(e), ~SameLane(e, h)
          PROVE  Due(e)' /\ ~SameLane(e, j)
      BY <2>1, <2>2, <3>1, <3>2, <3>4 DEF Due, DueOfTurn, DueOfDrop, DueOfRun, DueOfNode, Ends, Job, SameLane
    <3> QED
      BY <2>2, <3>2, <3>3, <3>4, EntriesMove
  <2>4. CASE IsRead(k) \/ ~StillStages
    <3>1. pc' \in {"read", "stopping"} /\ queue' = Tail(queue)
      BY <1>29, <2>2, <2>4, NothingAdded DEF RequestWritten, WrittenThen, NextWritten
    <3>2. ASSUME NEW e \in Jobs, Due(e), ~SameLane(e, h)
          PROVE  Due(e)'
      BY <2>1, <2>2, <3>1, <3>2 DEF Due, DueOfTurn, DueOfDrop, DueOfRun, DueOfNode, Ends, Job, SameLane
    <3> QED
      BY <2>2, <3>1, <3>2, EntriesShrink
  <2> QED
    BY <2>3, <2>4
<1>30. CASE ReadInOrder
  <2>1. /\ UNCHANGED <<got, guess, task, squashing, dropping, own, node, run, sending>>
        /\ queue' = queue /\ pc = "read" /\ pc' = "settle"
    BY <1>30 DEF ReadInOrder
  <2>2. ASSUME NEW e \in Jobs, Due(e)
        PROVE  Due(e)'
    BY <2>1, <2>2 DEF Due, DueOfTurn, DueOfDrop, DueOfRun, DueOfNode, Ends
  <2> QED
    BY <2>1, <2>2, EntriesStay
<1>31. ASSUME NEW k \in Blocks, StageWritten(k)
      PROVE  EntriesAreDue'
  <2>1. PICK h : h = Job("turn", "stage", k)
    OBVIOUS
  <2>2. /\ UNCHANGED <<got, at, guess, task, squashing, dropping, own, node, run, sending>>
        /\ pc = "stage" /\ pc' = "ack"
    BY <1>31, WrittenWhenDue DEF StageWritten
  <2>3. NextWritten(h) /\ queue' = Tail(queue)
    BY <1>31, <2>1, NothingAdded DEF StageWritten, WrittenThen, NextWritten
  <2>4. ASSUME NEW e \in Jobs, Due(e), ~SameLane(e, h)
        PROVE  Due(e)'
    BY <2>1, <2>2, <2>4 DEF Due, DueOfTurn, DueOfDrop, DueOfRun, DueOfNode, Ends, Job, SameLane
  <2> QED
    BY <2>3, <2>4, EntriesShrink
<1>32. CASE Acknowledged
  <2>1. /\ UNCHANGED <<got, guess, task, squashing, dropping, own, node, run, sending>>
        /\ queue' = queue /\ pc = "ack" /\ pc' = "settle"
    BY <1>32 DEF Acknowledged
  <2>2. ASSUME NEW e \in Jobs, Due(e)
        PROVE  Due(e)'
    BY <2>1, <2>2 DEF Due, DueOfTurn, DueOfDrop, DueOfRun, DueOfNode, Ends
  <2> QED
    BY <2>1, <2>2, EntriesStay
<1>33. CASE TurnDone
  <2>1. /\ UNCHANGED <<got, at, guess, task, squashing, dropping, own, node, run, sending>>
        /\ queue' = queue /\ pc = "settle" /\ pc' = "done"
    BY <1>33 DEF TurnDone
  <2>2. ASSUME NEW e \in Jobs, Due(e)
        PROVE  Due(e)'
    BY <2>1, <2>2 DEF Due, DueOfTurn, DueOfDrop, DueOfRun, DueOfNode, Ends
  <2> QED
    BY <2>1, <2>2, EntriesStay
<1>34. CASE SettleFails
  <2>1. /\ UNCHANGED <<got, at, guess, task, squashing, dropping, own, node, run, sending>>
        /\ queue' = queue
        /\ pc \in {"settle", "adopt", "slot", "request", "read", "stage", "ack"}
        /\ pc' = "stopping"
    BY <1>34 DEF SettleFails
  <2>2. ASSUME NEW e \in Jobs, Due(e)
        PROVE  Due(e)'
    BY <2>1, <2>2 DEF Due, DueOfTurn, DueOfDrop, DueOfRun, DueOfNode, Ends
  <2> QED
    BY <2>1, <2>2, EntriesStay
<1>35. CASE StopSettling
  <2>1. Kept \in SUBSET Guesses /\ Drop("turn", Kept, queue)
    BY <1>35 DEF Kept, StopSettling
  <2>2. /\ UNCHANGED <<got, at, task, squashing, own, node, run, sending>>
        /\ pc = "stopping" /\ pc' = "stopped"
    BY <1>35 DEF StopSettling
  <2> QED
    BY <2>1, <2>2, DropGrows
<1>36. CASE SettlingStopped
  <2>1. /\ UNCHANGED <<got, at, guess, squashing, dropping, own, node, run, sending>>
        /\ queue' = queue
        /\ pc = "stopped"
        /\ pc' = "failed"
        /\ squashing \in Guesses \cup {0}
        /\ \A g \in Guesses : task'[g] \in {task[g], "gone"}
    BY <1>36 DEF SettlingStopped, Abandon, TypeOK
  <2>2. ASSUME NEW e \in Jobs, Due(e)
        PROVE  Due(e)'
    BY <2>1, <2>2 DEF Due, DueOfTurn, DueOfDrop, DueOfRun, DueOfNode, Ends
  <2> QED
    BY <2>1, <2>2, EntriesStay
<1>37. CASE CancelledAtEnd
  <2>1. /\ UNCHANGED <<got, at, guess, task, squashing, dropping, own, node, run, sending>>
        /\ queue' = queue /\ pc = "ended" /\ pc' = "failed"
    BY <1>37 DEF CancelledAtEnd
  <2>2. ASSUME NEW e \in Jobs, Due(e)
        PROVE  Due(e)'
    BY <2>1, <2>2 DEF Due, DueOfTurn, DueOfDrop, DueOfRun, DueOfNode, Ends
  <2> QED
    BY <2>1, <2>2, EntriesStay
<1>38. ASSUME NEW k \in Guesses, SquashDiscarded(k)
      PROVE  EntriesAreDue'
  <2>1. PICK h : h = Job("squash", "discard", k)
    OBVIOUS
  <2>2. PICK j : j = Job("squash", "resolve", k)
    OBVIOUS
  <2>3. /\ UNCHANGED <<pc, got, at, guess, squashing, dropping, own, node, run, sending>>
        /\ k = squashing /\ squashing # 0 /\ task'[k] = "gone"
        /\ \A g \in Guesses : g # k => task'[g] = task[g]
    BY <1>38, WrittenWhenDue DEF SquashDiscarded, CallCancelled, TypeOK
  <2>4. NextWritten(h) /\ queue' = Tail(queue) \o <<j>> /\ j \in Jobs
    BY <1>38, <2>1, <2>2, JobIs, Numbers DEF SquashDiscarded, WrittenThen, TypeOK
  <2>5. Due(j)'
    BY <2>2, <2>3 DEF Due, DueOfTurn, DueOfDrop, DueOfRun, DueOfNode, Ends, Job
  <2>6. ASSUME NEW e \in Jobs, Due(e), ~SameLane(e, h)
        PROVE  Due(e)' /\ ~SameLane(e, j)
    BY <2>1, <2>2, <2>3, <2>6 DEF Due, DueOfTurn, DueOfDrop, DueOfRun, DueOfNode, Ends, Job, SameLane
  <2> QED
    BY <2>4, <2>5, <2>6, EntriesMove
<1>39. ASSUME NEW k \in Guesses, SquashResolved(k)
      PROVE  EntriesAreDue'
  <2>1. PICK h : h = Job("squash", "resolve", k)
    OBVIOUS
  <2>2. /\ UNCHANGED <<pc, got, at, guess, task, dropping, own, node, run, sending>>
    BY <1>39, WrittenWhenDue DEF SquashResolved
  <2>3. NextWritten(h) /\ queue' = Tail(queue)
    BY <1>39, <2>1, NothingAdded DEF SquashResolved, WrittenThen, NextWritten
  <2>4. ASSUME NEW e \in Jobs, Due(e), ~SameLane(e, h)
        PROVE  Due(e)'
    BY <2>1, <2>2, <2>4 DEF Due, DueOfTurn, DueOfDrop, DueOfRun, DueOfNode, Ends, Job, SameLane
  <2> QED
    BY <2>3, <2>4, EntriesShrink
<1>40. ASSUME NEW k \in Guesses, NEW who \in {"turn", "node"}, DropDiscarded(who, k)
      PROVE  EntriesAreDue'
  <2>1. PICK h : h = Job(who, "discard", k)
    OBVIOUS
  <2>2. NextWritten(h) /\ UNCHANGED <<pc, got, at, task, squashing, own, node, run, sending>>
    BY <1>40, <2>1 DEF DropDiscarded
  <2>3. CASE over
    <3>1. Drop(who, dropping[who] \ {k}, Tail(queue))
      BY <1>40, <2>3 DEF DropDiscarded
    <3> QED
      BY <2>1, <2>2, <3>1, DropMoves DEF Ends
  <2>4. CASE ~over
    <3>1. PICK j : j = Job(who, "resolve", k)
      OBVIOUS
    <3>2. /\ queue' = Tail(queue) \o <<j>> /\ j \in Jobs /\ UNCHANGED <<dropping, guess>>
          /\ k \in dropping[who] /\ guess[k] = "dropped"
      BY <1>40, <2>4, <3>1, JobIs, Numbers, WrittenWhenDue DEF DropDiscarded, WrittenThen, Ends
    <3>3. Due(j)'
      BY <2>2, <3>1, <3>2 DEF Due, DueOfTurn, DueOfDrop, DueOfRun, DueOfNode, Ends, Job
    <3>4. ASSUME NEW e \in Jobs, Due(e), ~SameLane(e, h)
          PROVE  Due(e)' /\ ~SameLane(e, j)
      BY <2>1, <2>2, <3>1, <3>2, <3>4 DEF Due, DueOfTurn, DueOfDrop, DueOfRun, DueOfNode, Ends, Job, SameLane
    <3> QED
      BY <2>2, <3>2, <3>3, <3>4, EntriesMove
  <2> QED
    BY <2>3, <2>4
<1>41. ASSUME NEW k \in Guesses, NEW who \in {"turn", "node"}, DropResolved(who, k)
      PROVE  EntriesAreDue'
  <2>1. PICK h : h = Job(who, "resolve", k)
    OBVIOUS
  <2>2. /\ NextWritten(h)
        /\ Drop(who, dropping[who] \ {k}, Tail(queue))
        /\ UNCHANGED <<pc, got, at, task, squashing, own, node, run, sending>>
    BY <1>41, <2>1 DEF DropResolved
  <2> QED
    BY <2>1, <2>2, DropMoves DEF Ends
<1>42. ASSUME NEW k \in Guesses, GuessRequested(k)
      PROVE  EntriesAreDue'
  <2>1. PICK h : h = Job("guess", "request", k)
    OBVIOUS
  <2>2. /\ NextWritten(h) /\ UNCHANGED <<pc, got, at, guess, squashing, dropping, own, node, run, sending>>
        /\ task[k] = "request" /\ squashing \in Guesses \cup {0}
        /\ \A g \in Guesses : g # k => task'[g] = task[g]
    BY <1>42, <2>1 DEF GuessRequested, TypeOK
  <2>3. CASE ~Closed(k) /\ ~IsRead(guessed[k])
    <3>1. PICK j : j = Job("guess", "stage", k)
      OBVIOUS
    <3>2. task'[k] = "stage" /\ queue' = Tail(queue) \o <<j>> /\ j \in Jobs
      BY <1>42, <2>3, <3>1, JobIs, Numbers DEF GuessRequested, WrittenThen, TypeOK
    <3>3. Due(j)'
      BY <3>1, <3>2 DEF Due, Job
    <3>4. ASSUME NEW e \in Jobs, Due(e), ~SameLane(e, h)
          PROVE  Due(e)' /\ ~SameLane(e, j)
      BY <2>1, <2>2, <3>1, <3>2, <3>4 DEF Due, DueOfTurn, DueOfDrop, DueOfRun, DueOfNode, Ends, Job, SameLane
    <3> QED
      BY <2>2, <3>2, <3>3, <3>4, EntriesMove
  <2>4. CASE Closed(k) \/ IsRead(guessed[k])
    <3>1. queue' = Tail(queue)
      BY <1>42, <2>2, <2>4, NothingAdded DEF GuessRequested, WrittenThen, NextWritten
    <3>2. ASSUME NEW e \in Jobs, Due(e), ~SameLane(e, h)
          PROVE  Due(e)'
      BY <2>1, <2>2, <3>1, <3>2 DEF Due, DueOfTurn, DueOfDrop, DueOfRun, DueOfNode, Ends, Job, SameLane
    <3> QED
      BY <2>2, <3>1, <3>2, EntriesShrink
  <2> QED
    BY <2>3, <2>4
<1>43. ASSUME NEW k \in Guesses, GuessReads(k)
      PROVE  EntriesAreDue'
  <2>1. /\ UNCHANGED <<pc, got, at, guess, squashing, dropping, own, node, run, sending>>
        /\ queue' = queue /\ task[k] = "read" /\ squashing \in Guesses \cup {0}
        /\ \A g \in Guesses : g # k => task'[g] = task[g]
    BY <1>43 DEF GuessReads, TypeOK
  <2>2. ASSUME NEW e \in Jobs, Due(e)
        PROVE  Due(e)'
    BY <2>1, <2>2 DEF Due, DueOfTurn, DueOfDrop, DueOfRun, DueOfNode, Ends
  <2> QED
    BY <2>1, <2>2, EntriesStay
<1>44. ASSUME NEW k \in Guesses, GuessStaged(k)
      PROVE  EntriesAreDue'
  <2>1. PICK h : h = Job("guess", "stage", k)
    OBVIOUS
  <2>2. /\ UNCHANGED <<pc, got, at, guess, squashing, dropping, own, node, run, sending>>
        /\ task[k] = "stage" /\ squashing \in Guesses \cup {0}
        /\ \A g \in Guesses : g # k => task'[g] = task[g]
    BY <1>44, WrittenWhenDue DEF GuessStaged, TypeOK
  <2>3. NextWritten(h) /\ queue' = Tail(queue)
    BY <1>44, <2>1, NothingAdded DEF GuessStaged, WrittenThen, NextWritten
  <2>4. ASSUME NEW e \in Jobs, Due(e), ~SameLane(e, h)
        PROVE  Due(e)'
    BY <2>1, <2>2, <2>4 DEF Due, DueOfTurn, DueOfDrop, DueOfRun, DueOfNode, Ends, Job, SameLane
  <2> QED
    BY <2>3, <2>4, EntriesShrink
<1>45. ASSUME NEW k \in Guesses, GuessReleased(k)
      PROVE  EntriesAreDue'
  <2>1. /\ UNCHANGED <<pc, got, at, guess, squashing, dropping, own, node, run, sending>>
        /\ queue' = queue /\ task[k] = "ack" /\ squashing \in Guesses \cup {0}
        /\ \A g \in Guesses : g # k => task'[g] = task[g]
    BY <1>45 DEF GuessReleased, TypeOK
  <2>2. ASSUME NEW e \in Jobs, Due(e)
        PROVE  Due(e)'
    BY <2>1, <2>2 DEF Due, DueOfTurn, DueOfDrop, DueOfRun, DueOfNode, Ends
  <2> QED
    BY <2>1, <2>2, EntriesStay
<1>46. CASE OwnRequested
  <2>1. CASE Returned
    <3>1. PICK h : h = Job("own", "request", 0)
      OBVIOUS
    <3>2. /\ UNCHANGED <<pc, got, at, guess, task, squashing, dropping, node, run, sending>>
          /\ own = "request"
      BY <1>46, <2>1, WrittenWhenDue DEF OwnRequested
    <3>3. NextWritten(h) /\ queue' = Tail(queue)
      BY <1>46, <2>1, <3>1, NothingAdded DEF OwnRequested, WrittenThen, NextWritten
    <3>4. ASSUME NEW e \in Jobs, Due(e), ~SameLane(e, h)
          PROVE  Due(e)'
      BY <3>1, <3>2, <3>4 DEF Due, DueOfTurn, DueOfDrop, DueOfRun, DueOfNode, Ends, Job, SameLane
    <3> QED
      BY <3>3, <3>4, EntriesShrink
  <2>2. CASE ~Returned
    <3>1. PICK h : h = Job("own", "request", 0)
      OBVIOUS
    <3>2. PICK j : j = Job("own", "stage", 0)
      OBVIOUS
    <3>3. /\ UNCHANGED <<pc, got, at, guess, task, squashing, dropping, node, run, sending>>
          /\ own = "request" /\ own' = "stage"
      BY <1>46, <2>2, WrittenWhenDue DEF OwnRequested
    <3>4. NextWritten(h) /\ queue' = Tail(queue) \o <<j>> /\ j \in Jobs
      BY <1>46, <2>2, <3>1, <3>2, JobIs, Numbers DEF OwnRequested, WrittenThen, TypeOK, Own
    <3>5. Due(j)'
      BY <3>2, <3>3 DEF Due, DueOfTurn, DueOfDrop, DueOfRun, DueOfNode, Ends, Job
    <3>6. ASSUME NEW e \in Jobs, Due(e), ~SameLane(e, h)
          PROVE  Due(e)' /\ ~SameLane(e, j)
      BY <3>1, <3>2, <3>3, <3>6 DEF Due, DueOfTurn, DueOfDrop, DueOfRun, DueOfNode, Ends, Job, SameLane
    <3> QED
      BY <3>4, <3>5, <3>6, EntriesMove
  <2> QED
    BY <2>1, <2>2
<1>47. CASE OwnStaged
  <2>1. PICK h : h = Job("own", "stage", 0)
    OBVIOUS
  <2>2. /\ UNCHANGED <<pc, got, at, guess, task, squashing, dropping, node, run, sending>>
        /\ own = "stage"
    BY <1>47, WrittenWhenDue DEF OwnStaged
  <2>3. NextWritten(h) /\ queue' = Tail(queue)
    BY <1>47, <2>1, NothingAdded DEF OwnStaged, WrittenThen, NextWritten
  <2>4. ASSUME NEW e \in Jobs, Due(e), ~SameLane(e, h)
        PROVE  Due(e)'
    BY <2>1, <2>2, <2>4 DEF Due, DueOfTurn, DueOfDrop, DueOfRun, DueOfNode, Ends, Job, SameLane
  <2> QED
    BY <2>3, <2>4, EntriesShrink
<1>48. CASE NobodyWaits
  <2>1. /\ UNCHANGED <<pc, got, at, guess, task, squashing, dropping, own, node, run, sending>>
        /\ queue # <<>>
    BY <1>48 DEF NobodyWaits
  <2>2. NextWritten(Head(queue)) /\ queue' = Tail(queue)
    BY <1>48, NothingAdded DEF NobodyWaits, WrittenThen, NextWritten
  <2>3. \A e \in Jobs : Due(e) => Due(e)'
    BY <2>1 DEF Due, DueOfTurn, DueOfDrop, DueOfRun, DueOfNode, Ends
  <2> QED
    BY <2>2, <2>3, EntriesShrink
<1>49. CASE NodeWrites
  <2>1. PICK j : j = Job("node", "request", 0)
    OBVIOUS
  <2>2. /\ UNCHANGED <<pc, got, at, guess, task, squashing, dropping, own, run, sending>>
        /\ node = "turn" /\ node' = "request"
    BY <1>49 DEF NodeWrites
  <2>3. queue' = queue \o <<j>> /\ j \in Jobs
    BY <1>49, <2>1, JobIs, Numbers DEF NodeWrites, Journal, TypeOK, Own
  <2>4. Due(j)'
    BY <2>1, <2>2 DEF Due, DueOfTurn, DueOfDrop, DueOfRun, DueOfNode, Ends, Job
  <2>5. ASSUME NEW e \in Jobs, Due(e)
        PROVE  Due(e)' /\ ~SameLane(e, j)
    BY <2>1, <2>2, <2>5 DEF Due, DueOfTurn, DueOfDrop, DueOfRun, DueOfNode, Ends, Job, SameLane
  <2> QED
    BY <2>3, <2>4, <2>5, EntriesGrow
<1>50. CASE NodeRequested
  <2>1. PICK h : h = Job("node", "request", 0)
    OBVIOUS
  <2>2. PICK j : j = Job("node", "stage", 0)
    OBVIOUS
  <2>3. /\ UNCHANGED <<pc, got, at, guess, task, squashing, dropping, own, run, sending>>
        /\ node' = "stage"
    BY <1>50, WrittenWhenDue DEF NodeRequested
  <2>4. NextWritten(h) /\ queue' = Tail(queue) \o <<j>> /\ j \in Jobs
    BY <1>50, <2>1, <2>2, JobIs, Numbers DEF NodeRequested, WrittenThen, TypeOK, Own
  <2>5. Due(j)'
    BY <2>2, <2>3 DEF Due, DueOfTurn, DueOfDrop, DueOfRun, DueOfNode, Ends, Job
  <2>6. ASSUME NEW e \in Jobs, Due(e), ~SameLane(e, h)
        PROVE  Due(e)' /\ ~SameLane(e, j)
    BY <2>1, <2>2, <2>3, <2>6 DEF Due, DueOfTurn, DueOfDrop, DueOfRun, DueOfNode, Ends, Job, SameLane
  <2> QED
    BY <2>4, <2>5, <2>6, EntriesMove
<1>51. CASE NodeStaged
  <2>1. PICK h : h = Job("node", "stage", 0)
    OBVIOUS
  <2>2. /\ UNCHANGED <<pc, got, at, guess, task, squashing, dropping, own, run, sending>>
        /\ node = "stage"
    BY <1>51, WrittenWhenDue DEF NodeStaged
  <2>3. NextWritten(h) /\ queue' = Tail(queue)
    BY <1>51, <2>1, NothingAdded DEF NodeStaged, WrittenThen, NextWritten
  <2>4. ASSUME NEW e \in Jobs, Due(e), ~SameLane(e, h)
        PROVE  Due(e)'
    BY <2>1, <2>2, <2>4 DEF Due, DueOfTurn, DueOfDrop, DueOfRun, DueOfNode, Ends, Job, SameLane
  <2> QED
    BY <2>3, <2>4, EntriesShrink
<1>52. CASE NodeReturns
  <2>1. /\ UNCHANGED <<pc, got, at, guess, task, squashing, dropping, own, run, sending>>
        /\ queue' = queue /\ node \in {"turn", "ack"} /\ node' = "leaving"
    BY <1>52 DEF NodeReturns
  <2>2. ASSUME NEW e \in Jobs, Due(e)
        PROVE  Due(e)'
    BY <2>1, <2>2 DEF Due, DueOfTurn, DueOfDrop, DueOfRun, DueOfNode, Ends
  <2> QED
    BY <2>1, <2>2, EntriesStay
<1>53. CASE LeaveSquash
  <2>1. PICK k \in Open : Squash(k) /\ Journal(SquashEntry(k))
    BY <1>53 DEF LeaveSquash
  <2>2. PICK j : j = Job("squash", "discard", k)
    OBVIOUS
  <2>3. k \in Guesses /\ guess[k] # "dropped" /\ squashing = 0 /\ Squash(k)
    BY <2>1, OneOpen DEF Open
  <2>4. /\ UNCHANGED <<pc, got, at, dropping, own, run, sending>>
        /\ node = "leaving" /\ node' = "squashing"
    BY <1>53 DEF LeaveSquash
  <2>5. /\ j \in Jobs /\ Due(j)' /\ squashing' = k /\ k # 0
        /\ \A g \in Guesses : guess[g] = "dropped" => guess'[g] = "dropped"
        /\ \A g \in Guesses : task'[g] \in {task[g], "gone"}
        /\ dropping \in [{"turn", "node"} -> SUBSET Guesses]
    BY <2>2, <2>3, SquashDue
  <2>6. queue' = queue \o <<j>>
    BY <2>1, <2>2 DEF Journal, SquashEntry
  <2>7. ASSUME NEW e \in Jobs, Due(e)
        PROVE  Due(e)' /\ ~SameLane(e, j)
    BY <2>2, <2>3, <2>4, <2>5, <2>7 DEF Due, DueOfTurn, DueOfDrop, DueOfRun, DueOfNode, Ends, Job,
      Jobs, SameLane
  <2> QED
    BY <1>53, <2>5, <2>6, <2>7, EntriesGrow
<1>54. CASE LeaveDrop
  <2>1. Kept \in SUBSET Guesses /\ Drop("node", Kept, queue)
    BY <1>54 DEF Kept, LeaveDrop
  <2>2. /\ UNCHANGED <<pc, got, at, task, squashing, own, run, sending>>
        /\ node \in {"leaving", "squashing"} /\ node' = "dropping"
    BY <1>54 DEF LeaveDrop
  <2> QED
    BY <2>1, <2>2, DropGrows
<1>55. CASE NodeDone
  <2>1. /\ UNCHANGED <<pc, got, at, guess, task, squashing, dropping, own, run, sending>>
        /\ queue' = queue /\ node = "dropping" /\ node' = "done"
    BY <1>55 DEF NodeDone
  <2>2. ASSUME NEW e \in Jobs, Due(e)
        PROVE  Due(e)'
    BY <2>1, <2>2 DEF Due, DueOfTurn, DueOfDrop, DueOfRun, DueOfNode, Ends
  <2> QED
    BY <2>1, <2>2, EntriesStay
<1>56. CASE Wakes
  <2>1. CASE confirmed
    <3>1. /\ UNCHANGED <<pc, got, at, guess, task, squashing, dropping, own, node, sending>>
          /\ queue' = queue /\ run = "quiesce" /\ run' = "drain"
      BY <1>56, <2>1 DEF Wakes
    <3>2. ASSUME NEW e \in Jobs, Due(e)
          PROVE  Due(e)'
      BY <3>1, <3>2 DEF Due, DueOfTurn, DueOfDrop, DueOfRun, DueOfNode, Ends
    <3> QED
      BY <3>1, <3>2, EntriesStay
  <2>2. CASE ~confirmed
    <3>1. PICK j : j = Job("run", "confirm", 0)
      OBVIOUS
    <3>2. /\ UNCHANGED <<pc, got, at, guess, task, squashing, dropping, own, node, sending>>
          /\ run = "quiesce" /\ run' = "confirm"
      BY <1>56, <2>2 DEF Wakes
    <3>3. queue' = queue \o <<j>> /\ j \in Jobs
      BY <1>56, <2>2, <3>1, JobIs, Numbers DEF Wakes, Journal, TypeOK, Own
    <3>4. Due(j)'
      BY <3>1, <3>2 DEF Due, DueOfTurn, DueOfDrop, DueOfRun, DueOfNode, Ends, Job
    <3>5. ASSUME NEW e \in Jobs, Due(e)
          PROVE  Due(e)' /\ ~SameLane(e, j)
      BY <3>1, <3>2, <3>5 DEF Due, DueOfTurn, DueOfDrop, DueOfRun, DueOfNode, Ends, Job, SameLane
    <3> QED
      BY <3>3, <3>4, <3>5, EntriesGrow
  <2> QED
    BY <2>1, <2>2
<1>57. CASE NodeConfirmed
  <2>1. PICK h : h = Job("run", "confirm", 0)
    OBVIOUS
  <2>2. /\ UNCHANGED <<pc, got, at, guess, task, squashing, dropping, own, node, sending>>
        /\ run = "confirm"
    BY <1>57, WrittenWhenDue DEF NodeConfirmed
  <2>3. NextWritten(h) /\ queue' = Tail(queue)
    BY <1>57, <2>1, NothingAdded DEF NodeConfirmed, WrittenThen, NextWritten
  <2>4. ASSUME NEW e \in Jobs, Due(e), ~SameLane(e, h)
        PROVE  Due(e)'
    BY <2>1, <2>2, <2>4 DEF Due, DueOfTurn, DueOfDrop, DueOfRun, DueOfNode, Ends, Job, SameLane
  <2> QED
    BY <2>3, <2>4, EntriesShrink
<1>58. ASSUME NEW e \in Calls, Claim(e)
      PROVE  EntriesAreDue'
  <2>1. PICK j : j = Job("run", "claim", e)
    OBVIOUS
  <2>2. /\ UNCHANGED <<pc, got, at, guess, task, squashing, dropping, own, node>>
        /\ run = "drain" /\ run' = "claim" /\ sending' = e
    BY <1>58 DEF Claim
  <2>3. queue' = queue \o <<j>> /\ j \in Jobs
    BY <1>58, <2>1, JobIs, Numbers DEF Claim, Journal, TypeOK
  <2>4. Due(j)'
    BY <2>1, <2>2 DEF Due, DueOfTurn, DueOfDrop, DueOfRun, DueOfNode, Ends, Job
  <2>5. ASSUME NEW d \in Jobs, Due(d)
        PROVE  Due(d)' /\ ~SameLane(d, j)
    BY <2>1, <2>2, <2>5 DEF Due, DueOfTurn, DueOfDrop, DueOfRun, DueOfNode, Ends, Job, SameLane
  <2> QED
    BY <2>3, <2>4, <2>5, EntriesGrow
<1>59. CASE Claimed
  <2>1. PICK h : h = Job("run", "claim", sending)
    OBVIOUS
  <2>2. /\ UNCHANGED <<pc, got, at, guess, task, squashing, dropping, own, node, sending>>
        /\ run = "claim"
    BY <1>59, WrittenWhenDue DEF Claimed
  <2>3. NextWritten(h) /\ queue' = Tail(queue)
    BY <1>59, <2>1, NothingAdded DEF Claimed, WrittenThen, NextWritten
  <2>4. ASSUME NEW e \in Jobs, Due(e), ~SameLane(e, h)
        PROVE  Due(e)'
    BY <2>1, <2>2, <2>4 DEF Due, DueOfTurn, DueOfDrop, DueOfRun, DueOfNode, Ends, Job, SameLane
  <2> QED
    BY <2>3, <2>4, EntriesShrink
<1>60. CASE Deliver
  <2>1. PICK j : j = Job("run", "settle", sending)
    OBVIOUS
  <2>2. /\ UNCHANGED <<pc, got, at, guess, task, squashing, dropping, own, node, sending>>
        /\ run = "send" /\ run' = "settle"
    BY <1>60 DEF Deliver
  <2>3. queue' = queue \o <<j>> /\ j \in Jobs
    BY <1>60, <2>1, JobIs, Numbers DEF Deliver, Journal, TypeOK
  <2>4. Due(j)'
    BY <2>1, <2>2 DEF Due, DueOfTurn, DueOfDrop, DueOfRun, DueOfNode, Ends, Job
  <2>5. ASSUME NEW e \in Jobs, Due(e)
        PROVE  Due(e)' /\ ~SameLane(e, j)
    BY <2>1, <2>2, <2>5 DEF Due, DueOfTurn, DueOfDrop, DueOfRun, DueOfNode, Ends, Job, SameLane
  <2> QED
    BY <2>3, <2>4, <2>5, EntriesGrow
<1>61. CASE Settled
  <2>1. PICK h : h = Job("run", "settle", sending)
    OBVIOUS
  <2>2. /\ UNCHANGED <<pc, got, at, guess, task, squashing, dropping, own, node, sending>>
        /\ run = "settle"
    BY <1>61, WrittenWhenDue DEF Settled
  <2>3. NextWritten(h) /\ queue' = Tail(queue)
    BY <1>61, <2>1, NothingAdded DEF Settled, WrittenThen, NextWritten
  <2>4. ASSUME NEW e \in Jobs, Due(e), ~SameLane(e, h)
        PROVE  Due(e)'
    BY <2>1, <2>2, <2>4 DEF Due, DueOfTurn, DueOfDrop, DueOfRun, DueOfNode, Ends, Job, SameLane
  <2> QED
    BY <2>3, <2>4, EntriesShrink
<1>62. CASE DrainOver
  <2>1. CASE node # "done"
    <3>1. /\ UNCHANGED <<pc, got, at, guess, task, squashing, dropping, own, node, sending>>
          /\ queue' = queue /\ run = "drain" /\ run' = "quiesce"
      BY <1>62, <2>1 DEF DrainOver
    <3>2. ASSUME NEW e \in Jobs, Due(e)
          PROVE  Due(e)'
      BY <3>1, <3>2 DEF Due, DueOfTurn, DueOfDrop, DueOfRun, DueOfNode, Ends
    <3> QED
      BY <3>1, <3>2, EntriesStay
  <2>2. CASE node = "done"
    <3>1. PICK j : j = Job("run", "retire", 0)
      OBVIOUS
    <3>2. /\ UNCHANGED <<pc, got, at, guess, task, squashing, dropping, own, node, sending>>
          /\ run = "drain" /\ run' = "retire"
      BY <1>62, <2>2 DEF DrainOver
    <3>3. queue' = queue \o <<j>> /\ j \in Jobs
      BY <1>62, <2>2, <3>1, JobIs, Numbers DEF DrainOver, Journal, TypeOK, Own
    <3>4. Due(j)'
      BY <3>1, <3>2 DEF Due, DueOfTurn, DueOfDrop, DueOfRun, DueOfNode, Ends, Job
    <3>5. ASSUME NEW e \in Jobs, Due(e)
          PROVE  Due(e)' /\ ~SameLane(e, j)
      BY <3>1, <3>2, <3>5 DEF Due, DueOfTurn, DueOfDrop, DueOfRun, DueOfNode, Ends, Job, SameLane
    <3> QED
      BY <3>3, <3>4, <3>5, EntriesGrow
  <2> QED
    BY <2>1, <2>2
<1>63. CASE Retired
  <2>1. PICK h : h = Job("run", "retire", 0)
    OBVIOUS
  <2>2. /\ UNCHANGED <<pc, got, at, guess, task, squashing, dropping, own, node, sending>>
        /\ run = "retire"
    BY <1>63, WrittenWhenDue DEF Retired
  <2>3. NextWritten(h) /\ queue' = Tail(queue)
    BY <1>63, <2>1, NothingAdded DEF Retired, WrittenThen, NextWritten
  <2>4. ASSUME NEW e \in Jobs, Due(e), ~SameLane(e, h)
        PROVE  Due(e)'
    BY <2>1, <2>2, <2>4 DEF Due, DueOfTurn, DueOfDrop, DueOfRun, DueOfNode, Ends, Job, SameLane
  <2> QED
    BY <2>3, <2>4, EntriesShrink
<1> HIDE DEF turnVars, guessVars, nodeVars, runVars, schedulerElse
<1> QED
  BY <1>1, <1>2, <1>3, <1>4, <1>5, <1>6, <1>7, <1>8, <1>9, <1>10, <1>11, <1>12, <1>13, <1>14,
    <1>15, <1>16, <1>17, <1>18, <1>19, <1>20, <1>21, <1>22, <1>23, <1>24, <1>25, <1>26, <1>27,
    <1>28, <1>29, <1>30, <1>31, <1>32, <1>33, <1>34, <1>35, <1>36, <1>37, <1>38, <1>39, <1>40,
    <1>41, <1>42, <1>43, <1>44, <1>45, <1>46, <1>47, <1>48, <1>49, <1>50, <1>51, <1>52, <1>53,
    <1>54, <1>55, <1>56, <1>57, <1>58, <1>59, <1>60, <1>61, <1>62, <1>63, QueueSteps

\* The entries keep their order while the node's own write, and no guess, begins.
NoneBegins ==
  own' \in {own, "done"} /\ \A k \in Guesses : task'[k] = "request" => task[k] = "request"

LEMMA TurnStays ==
  ASSUME InTurn, NoneBegins, queue' = queue
  PROVE  InTurn'
BY DEF InTurn, NoneBegins, Ahead, Answer, RunJobs

LEMMA TurnGrows ==
  ASSUME EntriesAreDue, InTurn, NoneBegins, \E j : queue' = queue \o <<j>>
  PROVE  InTurn'
<1>1. PICK j : queue' = queue \o <<j>>
  OBVIOUS
<1>2. queue \in Seq(Jobs) /\ queue' = Append(queue, j)
  BY <1>1 DEF EntriesAreDue, Queued
<1>3. queue # <<>> => queue' # <<>> /\ Head(queue') = Head(queue)
  BY <1>2
<1>4. \A a, rest : Ahead(queue, a, rest) => Ahead(queue', a, rest)
  BY <1>2, AheadGrows
<1>5. own' = "request" => queue' # <<>> /\ Head(queue') = Job("own", "request", 0)
  BY <1>3 DEF InTurn, NoneBegins
<1>6. own' = "stage" => Ahead(queue', Job("own", "stage", 0), RunJobs)
  BY <1>4 DEF InTurn, NoneBegins
<1>7. \A k \in Guesses : task'[k] = "request" => Ahead(queue', Job("guess", "request", k), {Answer})
  BY <1>4 DEF InTurn, NoneBegins
<1> QED
  BY <1>5, <1>6, <1>7 DEF InTurn, Job, RunJobs, Jobs, Answer

\* ... and the entry written is not one that is waited for still.
LEMMA TurnMoves ==
  ASSUME EntriesAreDue, InTurn, NoneBegins, NEW h, NextWritten(h),
         queue' = Tail(queue) \/ \E j : queue' = Tail(queue) \o <<j>>,
         h.by = "own" => own' = "done",
         h.by = "guess" /\ h.what = "request" /\ h.of \in Guesses => task'[h.of] # "request"
  PROVE  InTurn'
<1>1. queue \in Seq(Jobs) /\ queue # <<>> /\ Head(queue) = h /\ Tail(queue) \in Seq(Jobs)
  BY HeadIsDue DEF NextWritten
<1>2. ASSUME NEW a, NEW rest, Ahead(queue, a, rest), h # a
      PROVE  Ahead(queue', a, rest)
  <2>1. Ahead(Tail(queue), a, rest)
    BY <1>1, <1>2, AheadShrinks
  <2>2. ASSUME NEW j, queue' = Tail(queue) \o <<j>>
        PROVE  Ahead(queue', a, rest)
    <3>1. queue' = Append(Tail(queue), j)
      BY <1>1, <2>2
    <3> QED
      BY <1>1, <2>1, <3>1, AheadGrows
  <2> QED
    BY <2>1, <2>2
<1>3. own' # "request"
  BY <1>1 DEF InTurn, NoneBegins, Job
<1>4. own' = "stage" => Ahead(queue', Job("own", "stage", 0), RunJobs)
  BY <1>2 DEF InTurn, NoneBegins, Job
<1>5. ASSUME NEW k \in Guesses, task'[k] = "request"
      PROVE  Ahead(queue', Job("guess", "request", k), {Answer})
  <2>1. PICK a : a = Job("guess", "request", k)
    OBVIOUS
  <2>2. Ahead(queue, a, {Answer})
    BY <1>5, <2>1 DEF InTurn, NoneBegins
  <2>3. h # a
    BY <1>5, <2>1 DEF Job
  <2> QED
    BY <1>2, <2>1, <2>2, <2>3
<1> QED
  BY <1>3, <1>4, <1>5 DEF InTurn, Job, RunJobs, Jobs, Answer

\* A discard hands over one entry at most.
LEMMA DropQueue ==
  ASSUME NEW who, NEW D, NEW written \in Seq(Jobs), Drop(who, D, written)
  PROVE  queue' = written \/ \E j : queue' = written \o <<j>>
<1>1. ASSUME NEW j
      PROVE  Append(written, j) = written \o <<j>>
  OBVIOUS
<1> QED
  BY <1>1 DEF Drop

\* Who hands entries over, or begins a call.
LEMMA EntrySteps ==
  ASSUME [Next]_vars
  PROVE  \/ UNCHANGED <<queue, task, own>>
        \/ BlockConfirms \/ BlockMisses \/ (\E k \in Guesses : ConfirmWritten(k))
        \/ (\E hit \in BOOLEAN : Guess(hit)) \/ (\E k \in Guesses : ForkWritten(k))
        \/ ReplyEnds \/ AnswerWritten \/ StreamFails
        \/ (\E k \in Guesses : CancelledAtConfirm(k))
        \/ (\E k \in Guesses : CancelledAtFork(k)) \/ CancelledAtAnswer \/ FailureWritten
        \/ FailureUnwritten \/ CleanUp \/ BeginAdoption
        \/ (\E k \in Guesses : AdoptionWritten(k)) \/ MakeCall
        \/ (\E k \in Blocks : RequestWritten(k)) \/ (\E k \in Blocks : StageWritten(k))
        \/ StopSettling \/ SettlingStopped \/ (\E k \in Guesses : SquashDiscarded(k))
        \/ (\E k \in Guesses : SquashResolved(k))
        \/ (\E k \in Guesses, who \in {"turn", "node"} : DropDiscarded(who, k))
        \/ (\E k \in Guesses, who \in {"turn", "node"} : DropResolved(who, k))
        \/ (\E k \in Guesses : GuessRequested(k)) \/ (\E k \in Guesses : GuessReads(k))
        \/ (\E k \in Guesses : GuessStaged(k)) \/ (\E k \in Guesses : GuessReleased(k))
        \/ OwnRequested \/ OwnStaged \/ NobodyWaits \/ NodeWrites \/ NodeRequested
        \/ NodeStaged \/ LeaveSquash \/ LeaveDrop \/ Wakes \/ NodeConfirmed
        \/ (\E e \in Calls : Claim(e)) \/ Claimed \/ Deliver \/ Settled \/ DrainOver
        \/ Retired
<1>1. CASE TurnStep
  BY <1>1 DEF TurnStep, BlockUnguessed, MissIsOver, NoGuess, CutIsOver, ReplyUnwritten,
    EndIsOver, TurnFails, AdoptNothing, AwaitEarly, SlotDone, ReadInOrder, Acknowledged,
    TurnDone, SettleFails, FailureSeen, turnVars, guessVars, nodeVars, runVars
<1>2. CASE Stopping
  BY <1>2 DEF Stopping, CancelledAtEnd, SettleFails, turnVars, guessVars, nodeVars, runVars
<1>3. CASE Written
  <2> QED
    BY <1>3 DEF Written
<1>4. CASE Beside
  BY <1>4 DEF Beside, EarlyRead, turnVars, guessVars, nodeVars, runVars
<1>5. CASE NodeStep
  BY <1>5 DEF NodeStep, NodeDone, turnVars, guessVars, nodeVars, runVars
<1>6. CASE RunStep
  BY <1>6 DEF RunStep, EndDrive, turnVars, guessVars, nodeVars, runVars, schedulerElse
<1> QED
  BY <1>1, <1>2, <1>3, <1>4, <1>5, <1>6 DEF Next, AnswerArrives, NodeReturns, Finished, vars,
    turnVars, guessVars, nodeVars, runVars

\* The own write's entries come first, and a guess's request comes before the reply.
LEMMA InTurnKept ==
  ASSUME TypeOK, EntriesAreDue, InTurn, OwnFirst, [Next]_vars
  PROVE  InTurn'
<1> USE DEF turnVars, guessVars, nodeVars, runVars, schedulerElse
<1>1. CASE UNCHANGED <<queue, task, own>>
  BY <1>1, TurnStays DEF NoneBegins
<1>2. CASE BlockConfirms
  <2>1. NoneBegins
    BY <1>2 DEF NoneBegins, BlockConfirms
  <2>2. queue' = queue \/ \E j : queue' = queue \o <<j>>
    BY <1>2, NothingAdded DEF Journal, BlockConfirms
  <2> QED
    BY <2>1, <2>2, TurnStays, TurnGrows
<1>3. CASE BlockMisses
  <2>1. NoneBegins
    BY <1>3 DEF NoneBegins, BlockMisses, Squash, SquashEntry, TypeOK
  <2>2. queue' = queue \/ \E j : queue' = queue \o <<j>>
    BY <1>3, NothingAdded DEF Journal, BlockMisses, Squash, SquashEntry, TypeOK
  <2> QED
    BY <2>1, <2>2, TurnStays, TurnGrows
<1>4. ASSUME NEW k \in Guesses, ConfirmWritten(k)
      PROVE  InTurn'
  <2>1. PICK h : h = Job("turn", "confirm", k)
    OBVIOUS
  <2>2. NoneBegins
    BY <1>4 DEF NoneBegins, ConfirmWritten
  <2>3. NextWritten(h) /\ (queue' = Tail(queue) \/ \E j : queue' = Tail(queue) \o <<j>>)
    BY <1>4, <2>1, NothingAdded DEF WrittenThen, NextWritten, ConfirmWritten
  <2> QED
    BY <2>1, <2>2, <2>3, TurnMoves DEF Job
<1>5. ASSUME NEW hit \in BOOLEAN, Guess(hit)
      PROVE  InTurn'
  <2>1. NoneBegins
    BY <1>5 DEF NoneBegins, Guess
  <2>2. queue' = queue \/ \E j : queue' = queue \o <<j>>
    BY <1>5, NothingAdded DEF Journal, Guess
  <2> QED
    BY <2>1, <2>2, TurnStays, TurnGrows
<1>6. ASSUME NEW k \in Guesses, ForkWritten(k)
      PROVE  InTurn'
  <2>1. PICK h : h = Job("turn", "fork", k)
    OBVIOUS
  <2>2. NextWritten(h) /\ pc = "fork" /\ own' = own
    BY <1>6, <2>1, WrittenWhenDue DEF ForkWritten
  <2>3. queue \in Seq(Jobs) /\ Tail(queue) \in Seq(Jobs) /\ queue # <<>> /\ Head(queue) = h
    BY <2>2, HeadIsDue DEF NextWritten
  <2>4. CASE Returned
    <3>1. NoneBegins
      BY <1>6, <2>2, <2>4 DEF NoneBegins, ForkWritten, Squash, TypeOK
    <3>2. queue' = Tail(queue) \/ \E j : queue' = Tail(queue) \o <<j>>
      BY <1>6, <2>4 DEF ForkWritten, SquashEntry, WrittenThen
    <3> QED
      BY <2>1, <2>2, <3>1, <3>2, TurnMoves DEF Job
  <2>5. CASE ~Returned
    <3>1. PICK j : j = Job("guess", "request", k)
      OBVIOUS
    <3>2. queue' = Append(Tail(queue), j)
      BY <1>6, <2>3, <2>5, <3>1 DEF ForkWritten, WrittenThen
    <3>20. \A g \in Guesses : g # k => task'[g] = task[g]
      BY <1>6, <2>5 DEF ForkWritten, TypeOK
    <3>3. ASSUME NEW i \in DOMAIN queue
          PROVE  queue[i] # Answer
      BY <2>2, <3>3 DEF EntriesAreDue, Queued, DueJobs, Due, DueOfTurn, DueOfDrop, DueOfRun,
        DueOfNode, Answer, Job, Ends
    <3>4. /\ DOMAIN Tail(queue) = 1 .. Len(queue) - 1 /\ DOMAIN queue = 1 .. Len(queue) /\ Len(queue) \in Nat
          /\ \A i \in 1 .. Len(queue) - 1 : Tail(queue)[i] = queue[i + 1]
      BY <2>3
    <3>5. \A i \in DOMAIN Tail(queue) : Tail(queue)[i] \notin {Answer}
      BY <3>3, <3>4
    <3>6. j \notin {Answer}
      BY <3>1 DEF Answer, Job
    <3>7. Ahead(queue', j, {Answer})
      BY <2>3, <3>2, <3>5, <3>6, AheadStarts
    <3>8. ASSUME NEW a, NEW rest, Ahead(queue, a, rest), h # a
          PROVE  Ahead(queue', a, rest)
      <4>1. Ahead(Tail(queue), a, rest)
        BY <2>3, <3>8, AheadShrinks
      <4> QED
        BY <2>3, <3>2, <4>1, AheadGrows
    <3>9. own # "request"
      BY <2>1, <2>3 DEF InTurn, Job
    <3>10. own = "stage" => Ahead(queue', Job("own", "stage", 0), RunJobs)
      BY <2>1, <3>8 DEF InTurn, Job
    <3>11. ASSUME NEW g \in Guesses, task'[g] = "request"
           PROVE  Ahead(queue', Job("guess", "request", g), {Answer})
      BY <2>1, <3>1, <3>20, <3>7, <3>8, <3>11 DEF InTurn, Job
    <3> QED
      BY <2>2, <3>9, <3>10, <3>11 DEF InTurn, Job, RunJobs, Jobs, Answer
  <2> QED
    BY <2>4, <2>5
<1>7. CASE ReplyEnds
  <2>1. NoneBegins
    BY <1>7 DEF NoneBegins, ReplyEnds
  <2>2. queue' = queue \/ \E j : queue' = queue \o <<j>>
    BY <1>7, NothingAdded DEF Journal, ReplyEnds
  <2> QED
    BY <2>1, <2>2, TurnStays, TurnGrows
<1>8. CASE AnswerWritten
  <2>1. PICK h : h = Job("turn", "answered", 0)
    OBVIOUS
  <2>2. NoneBegins
    BY <1>8 DEF NoneBegins, AnswerWritten, Squash, SquashEntry, TypeOK
  <2>3. NextWritten(h) /\ (queue' = Tail(queue) \/ \E j : queue' = Tail(queue) \o <<j>>)
    BY <1>8, <2>1, NothingAdded DEF WrittenThen, NextWritten, AnswerWritten, Squash, SquashEntry, TypeOK
  <2> QED
    BY <2>1, <2>2, <2>3, TurnMoves DEF Job
<1>9. CASE StreamFails
  <2>1. NoneBegins
    BY <1>9 DEF NoneBegins, StreamFails, FailedEntry
  <2>2. queue' = queue \/ \E j : queue' = queue \o <<j>>
    BY <1>9, NothingAdded DEF Journal, StreamFails, FailedEntry
  <2> QED
    BY <2>1, <2>2, TurnStays, TurnGrows
<1>10. ASSUME NEW k \in Guesses, CancelledAtConfirm(k)
      PROVE  InTurn'
  <2>1. PICK h : h = Job("turn", "confirm", k)
    OBVIOUS
  <2>2. NoneBegins
    BY <1>10 DEF NoneBegins, CancelledAtConfirm, FailedEntry
  <2>3. NextWritten(h) /\ (queue' = Tail(queue) \/ \E j : queue' = Tail(queue) \o <<j>>)
    BY <1>10, <2>1, NothingAdded DEF WrittenThen, NextWritten, CancelledAtConfirm, FailedEntry
  <2> QED
    BY <2>1, <2>2, <2>3, TurnMoves DEF Job
<1>11. ASSUME NEW k \in Guesses, CancelledAtFork(k)
      PROVE  InTurn'
  <2>1. PICK h : h = Job("turn", "fork", k)
    OBVIOUS
  <2>2. NoneBegins
    BY <1>11 DEF NoneBegins, CancelledAtFork, FailedEntry
  <2>3. NextWritten(h) /\ (queue' = Tail(queue) \/ \E j : queue' = Tail(queue) \o <<j>>)
    BY <1>11, <2>1, NothingAdded DEF WrittenThen, NextWritten, CancelledAtFork, FailedEntry
  <2> QED
    BY <2>1, <2>2, <2>3, TurnMoves DEF Job
<1>12. CASE CancelledAtAnswer
  <2>1. PICK h : h = Job("turn", "answered", 0)
    OBVIOUS
  <2>2. NoneBegins
    BY <1>12 DEF NoneBegins, CancelledAtAnswer, FailedEntry
  <2>3. NextWritten(h) /\ (queue' = Tail(queue) \/ \E j : queue' = Tail(queue) \o <<j>>)
    BY <1>12, <2>1, NothingAdded DEF WrittenThen, NextWritten, CancelledAtAnswer, FailedEntry
  <2> QED
    BY <2>1, <2>2, <2>3, TurnMoves DEF Job
<1>13. CASE FailureWritten
  <2>1. PICK h : h = Job("turn", "failed", 0)
    OBVIOUS
  <2>2. NoneBegins
    BY <1>13 DEF NoneBegins, FailureWritten, FailureSeen, Squash, SquashEntry, TypeOK
  <2>3. NextWritten(h) /\ (queue' = Tail(queue) \/ \E j : queue' = Tail(queue) \o <<j>>)
    BY <1>13, <2>1, NothingAdded DEF WrittenThen, NextWritten, FailureWritten, FailureSeen, Squash,
      SquashEntry, TypeOK
  <2> QED
    BY <2>1, <2>2, <2>3, TurnMoves DEF Job
<1>14. CASE FailureUnwritten
  <2>1. NoneBegins
    <3>1. CASE Open = {}
      BY <1>14, <3>1 DEF NoneBegins, FailureUnwritten, FailureSeen
    <3>2. ASSUME NEW k \in Open, Squash(k)
          PROVE  \A g \in Guesses : task'[g] = "request" => task[g] = "request"
      BY <3>2 DEF Squash, TypeOK
    <3> QED
      BY <1>14, <3>1, <3>2 DEF NoneBegins, FailureUnwritten, FailureSeen
  <2>2. queue' = queue \/ \E j : queue' = queue \o <<j>>
    BY <1>14, NothingAdded DEF Journal, FailureUnwritten, FailureSeen, Squash, SquashEntry, TypeOK
  <2> QED
    BY <2>1, <2>2, TurnStays, TurnGrows
<1>15. CASE CleanUp
  <2>1. NoneBegins
    BY <1>15 DEF NoneBegins, TypeOK, CleanUp, Abandon
  <2>2. queue \in Seq(Jobs) /\ Drop("turn", Kept, queue)
    BY <1>15 DEF CleanUp, TypeOK
  <2>3. queue' = queue \/ \E j : queue' = queue \o <<j>>
    BY <2>2, DropQueue
  <2> QED
    BY <2>1, <2>3, TurnStays, TurnGrows
<1>16. CASE BeginAdoption
  <2>1. NoneBegins
    BY <1>16 DEF NoneBegins, BeginAdoption
  <2>2. queue' = queue \/ \E j : queue' = queue \o <<j>>
    BY <1>16, NothingAdded DEF Journal, BeginAdoption
  <2> QED
    BY <2>1, <2>2, TurnStays, TurnGrows
<1>17. ASSUME NEW k \in Guesses, AdoptionWritten(k)
      PROVE  InTurn'
  <2>1. PICK h : h = Job("turn", "adopt", k)
    OBVIOUS
  <2>2. NoneBegins
    BY <1>17 DEF NoneBegins, AdoptionWritten
  <2>3. NextWritten(h) /\ (queue' = Tail(queue) \/ \E j : queue' = Tail(queue) \o <<j>>)
    BY <1>17, <2>1, NothingAdded DEF WrittenThen, NextWritten, AdoptionWritten
  <2> QED
    BY <2>1, <2>2, <2>3, TurnMoves DEF Job
<1>18. CASE MakeCall
  <2>1. NoneBegins
    BY <1>18 DEF NoneBegins, MakeCall
  <2>2. queue' = queue \/ \E j : queue' = queue \o <<j>>
    BY <1>18, NothingAdded DEF Journal, MakeCall
  <2> QED
    BY <2>1, <2>2, TurnStays, TurnGrows
<1>19. ASSUME NEW k \in Blocks, RequestWritten(k)
      PROVE  InTurn'
  <2>1. PICK h : h = Job("turn", "request", k)
    OBVIOUS
  <2>2. NoneBegins
    BY <1>19 DEF NoneBegins, RequestWritten
  <2>3. NextWritten(h) /\ (queue' = Tail(queue) \/ \E j : queue' = Tail(queue) \o <<j>>)
    BY <1>19, <2>1, NothingAdded DEF WrittenThen, NextWritten, RequestWritten
  <2> QED
    BY <2>1, <2>2, <2>3, TurnMoves DEF Job
<1>20. ASSUME NEW k \in Blocks, StageWritten(k)
      PROVE  InTurn'
  <2>1. PICK h : h = Job("turn", "stage", k)
    OBVIOUS
  <2>2. NoneBegins
    BY <1>20 DEF NoneBegins, StageWritten
  <2>3. NextWritten(h) /\ (queue' = Tail(queue) \/ \E j : queue' = Tail(queue) \o <<j>>)
    BY <1>20, <2>1, NothingAdded DEF WrittenThen, NextWritten, StageWritten
  <2> QED
    BY <2>1, <2>2, <2>3, TurnMoves DEF Job
<1>21. CASE StopSettling
  <2>1. NoneBegins
    BY <1>21 DEF NoneBegins, TypeOK, StopSettling
  <2>2. queue \in Seq(Jobs) /\ Drop("turn", Kept, queue)
    BY <1>21 DEF StopSettling, TypeOK
  <2>3. queue' = queue \/ \E j : queue' = queue \o <<j>>
    BY <2>2, DropQueue
  <2> QED
    BY <2>1, <2>3, TurnStays, TurnGrows
<1>22. CASE SettlingStopped
  <2>1. NoneBegins /\ queue' = queue
    BY <1>22 DEF NoneBegins, TypeOK, SettlingStopped, Abandon
  <2> QED
    BY <2>1, TurnStays
<1>23. ASSUME NEW k \in Guesses, SquashDiscarded(k)
      PROVE  InTurn'
  <2>1. PICK h : h = Job("squash", "discard", k)
    OBVIOUS
  <2>2. NoneBegins
    BY <1>23 DEF NoneBegins, SquashDiscarded, CallCancelled, TypeOK
  <2>3. NextWritten(h) /\ (queue' = Tail(queue) \/ \E j : queue' = Tail(queue) \o <<j>>)
    BY <1>23, <2>1, NothingAdded DEF WrittenThen, NextWritten, SquashDiscarded
  <2> QED
    BY <2>1, <2>2, <2>3, TurnMoves DEF Job
<1>24. ASSUME NEW k \in Guesses, SquashResolved(k)
      PROVE  InTurn'
  <2>1. PICK h : h = Job("squash", "resolve", k)
    OBVIOUS
  <2>2. NoneBegins
    BY <1>24 DEF NoneBegins, SquashResolved
  <2>3. NextWritten(h) /\ (queue' = Tail(queue) \/ \E j : queue' = Tail(queue) \o <<j>>)
    BY <1>24, <2>1, NothingAdded DEF WrittenThen, NextWritten, SquashResolved
  <2> QED
    BY <2>1, <2>2, <2>3, TurnMoves DEF Job
<1>25. ASSUME NEW k \in Guesses, NEW who \in {"turn", "node"}, DropDiscarded(who, k)
      PROVE  InTurn'
  <2>1. PICK h : h = Job(who, "discard", k)
    OBVIOUS
  <2>2. NoneBegins /\ NextWritten(h)
    BY <1>25, <2>1 DEF NoneBegins, DropDiscarded
  <2>3. queue' = Tail(queue) \/ \E j : queue' = Tail(queue) \o <<j>>
    BY <1>25, <2>2, HeadIsDue, DropQueue DEF WrittenThen, NextWritten, DropDiscarded
  <2> QED
    BY <2>1, <2>2, <2>3, TurnMoves DEF Job
<1>26. ASSUME NEW k \in Guesses, NEW who \in {"turn", "node"}, DropResolved(who, k)
      PROVE  InTurn'
  <2>1. PICK h : h = Job(who, "resolve", k)
    OBVIOUS
  <2>2. NoneBegins /\ NextWritten(h)
    BY <1>26, <2>1 DEF NoneBegins, DropResolved
  <2>3. queue' = Tail(queue) \/ \E j : queue' = Tail(queue) \o <<j>>
    BY <1>26, <2>2, HeadIsDue, DropQueue DEF WrittenThen, NextWritten, DropResolved
  <2> QED
    BY <2>1, <2>2, <2>3, TurnMoves DEF Job
<1>27. ASSUME NEW k \in Guesses, GuessRequested(k)
      PROVE  InTurn'
  <2>1. PICK h : h = Job("guess", "request", k)
    OBVIOUS
  <2>2. NoneBegins
    BY <1>27 DEF NoneBegins, GuessRequested, TypeOK
  <2>3. NextWritten(h) /\ (queue' = Tail(queue) \/ \E j : queue' = Tail(queue) \o <<j>>)
    BY <1>27, <2>1, NothingAdded DEF WrittenThen, NextWritten, GuessRequested, TypeOK
  <2>4. task'[k] # "request"
    BY <1>27 DEF GuessRequested, TypeOK
  <2> QED
    BY <2>1, <2>2, <2>3, <2>4, TurnMoves DEF Job
<1>28. ASSUME NEW k \in Guesses, GuessReads(k)
      PROVE  InTurn'
  <2>1. NoneBegins /\ queue' = queue
    BY <1>28 DEF NoneBegins, TypeOK, GuessReads
  <2> QED
    BY <2>1, TurnStays
<1>29. ASSUME NEW k \in Guesses, GuessStaged(k)
      PROVE  InTurn'
  <2>1. PICK h : h = Job("guess", "stage", k)
    OBVIOUS
  <2>2. NoneBegins
    BY <1>29 DEF NoneBegins, GuessStaged, TypeOK
  <2>3. NextWritten(h) /\ (queue' = Tail(queue) \/ \E j : queue' = Tail(queue) \o <<j>>)
    BY <1>29, <2>1, NothingAdded DEF WrittenThen, NextWritten, GuessStaged, TypeOK
  <2> QED
    BY <2>1, <2>2, <2>3, TurnMoves DEF Job
<1>30. ASSUME NEW k \in Guesses, GuessReleased(k)
      PROVE  InTurn'
  <2>1. NoneBegins /\ queue' = queue
    BY <1>30 DEF NoneBegins, TypeOK, GuessReleased
  <2> QED
    BY <2>1, TurnStays
<1>31. CASE OwnRequested
  <2>1. PICK h : h = Job("own", "request", 0)
    OBVIOUS
  <2>2. NextWritten(h) /\ own = "request" /\ UNCHANGED <<task, run>>
    BY <1>31, <2>1, WrittenWhenDue DEF OwnRequested
  <2>3. queue \in Seq(Jobs) /\ Tail(queue) \in Seq(Jobs) /\ queue # <<>> /\ Head(queue) = h
    BY <2>2, HeadIsDue DEF NextWritten
  <2>4. CASE Returned
    <3>1. NoneBegins /\ own' = "done" /\ queue' = Tail(queue)
      BY <1>31, <2>2, <2>4, NothingAdded DEF NoneBegins, OwnRequested, WrittenThen, NextWritten
    <3> QED
      BY <2>1, <2>2, <3>1, TurnMoves DEF Job
  <2>5. CASE ~Returned
    <3>1. PICK j : j = Job("own", "stage", 0)
      OBVIOUS
    <3>2. queue' = Append(Tail(queue), j) /\ own' = "stage"
      BY <1>31, <2>3, <2>5, <3>1 DEF OwnRequested, WrittenThen
    <3>3. run \in {"quiesce", "confirm"} /\ run # "confirm"
      BY <2>2, <2>5 DEF OwnFirst, Returned
    <3>4. ASSUME NEW i \in DOMAIN queue
          PROVE  queue[i] \notin RunJobs
      BY <3>3, <3>4 DEF EntriesAreDue, Queued, DueJobs, Due, DueOfRun, RunJobs
    <3>5. /\ DOMAIN Tail(queue) = 1 .. Len(queue) - 1 /\ DOMAIN queue = 1 .. Len(queue) /\ Len(queue) \in Nat
          /\ \A i \in 1 .. Len(queue) - 1 : Tail(queue)[i] = queue[i + 1]
      BY <2>3
    <3>6. \A i \in DOMAIN Tail(queue) : Tail(queue)[i] \notin RunJobs
      BY <3>4, <3>5
    <3>7. Ahead(queue', j, RunJobs)
      BY <2>3, <3>1, <3>2, <3>6, AheadStarts DEF RunJobs, Job
    <3>8. ASSUME NEW g \in Guesses, task[g] = "request"
          PROVE  Ahead(queue', Job("guess", "request", g), {Answer})
      <4>1. PICK a : a = Job("guess", "request", g)
        OBVIOUS
      <4>2. Ahead(queue, a, {Answer}) /\ h # a
        BY <2>1, <3>8, <4>1 DEF InTurn, Job
      <4>3. Ahead(Tail(queue), a, {Answer})
        BY <2>3, <4>2, AheadShrinks
      <4> QED
        BY <2>3, <3>2, <4>1, <4>3, AheadGrows
    <3> QED
      BY <2>2, <3>1, <3>2, <3>7, <3>8 DEF InTurn, Job, RunJobs, Jobs, Answer
  <2> QED
    BY <2>4, <2>5
<1>32. CASE OwnStaged
  <2>1. PICK h : h = Job("own", "stage", 0)
    OBVIOUS
  <2>2. NoneBegins
    BY <1>32 DEF NoneBegins, OwnStaged
  <2>3. NextWritten(h) /\ (queue' = Tail(queue) \/ \E j : queue' = Tail(queue) \o <<j>>)
    BY <1>32, <2>1, NothingAdded DEF WrittenThen, NextWritten, OwnStaged
  <2> QED
    BY <1>32, <2>1, <2>2, <2>3, TurnMoves DEF Job, OwnStaged
<1>33. CASE NobodyWaits
  <2>1. PICK h : h = Head(queue)
    OBVIOUS
  <2>2. /\ UNCHANGED <<own, task>> /\ NoneBegins /\ NextWritten(h) /\ queue' = Tail(queue)
        /\ ~Awaited(h) /\ h \in Jobs /\ Due(h)
    BY <1>33, <2>1, NothingAdded, HeadIsDue DEF NobodyWaits, NoneBegins, NextWritten, WrittenThen
  <2>3. h.by # "own" /\ (h.by = "guess" => task[h.of] # h.what)
    BY <2>2 DEF Awaited
  <2> QED
    BY <2>2, <2>3, TurnMoves
<1>34. CASE NodeWrites
  <2>1. NoneBegins
    BY <1>34 DEF NoneBegins, NodeWrites
  <2>2. queue' = queue \/ \E j : queue' = queue \o <<j>>
    BY <1>34, NothingAdded DEF Journal, NodeWrites
  <2> QED
    BY <2>1, <2>2, TurnStays, TurnGrows
<1>35. CASE NodeRequested
  <2>1. PICK h : h = Job("node", "request", 0)
    OBVIOUS
  <2>2. NoneBegins
    BY <1>35 DEF NoneBegins, NodeRequested
  <2>3. NextWritten(h) /\ (queue' = Tail(queue) \/ \E j : queue' = Tail(queue) \o <<j>>)
    BY <1>35, <2>1, NothingAdded DEF WrittenThen, NextWritten, NodeRequested
  <2> QED
    BY <2>1, <2>2, <2>3, TurnMoves DEF Job
<1>36. CASE NodeStaged
  <2>1. PICK h : h = Job("node", "stage", 0)
    OBVIOUS
  <2>2. NoneBegins
    BY <1>36 DEF NoneBegins, NodeStaged
  <2>3. NextWritten(h) /\ (queue' = Tail(queue) \/ \E j : queue' = Tail(queue) \o <<j>>)
    BY <1>36, <2>1, NothingAdded DEF WrittenThen, NextWritten, NodeStaged
  <2> QED
    BY <2>1, <2>2, <2>3, TurnMoves DEF Job
<1>37. CASE LeaveSquash
  <2>1. NoneBegins
    BY <1>37 DEF NoneBegins, LeaveSquash, Squash, SquashEntry, TypeOK
  <2>2. queue' = queue \/ \E j : queue' = queue \o <<j>>
    BY <1>37, NothingAdded DEF Journal, LeaveSquash, Squash, SquashEntry, TypeOK
  <2> QED
    BY <2>1, <2>2, TurnStays, TurnGrows
<1>38. CASE LeaveDrop
  <2>1. NoneBegins
    BY <1>38 DEF NoneBegins, TypeOK, LeaveDrop
  <2>2. queue \in Seq(Jobs) /\ Drop("node", Kept, queue)
    BY <1>38 DEF LeaveDrop, TypeOK
  <2>3. queue' = queue \/ \E j : queue' = queue \o <<j>>
    BY <2>2, DropQueue
  <2> QED
    BY <2>1, <2>3, TurnStays, TurnGrows
<1>39. CASE Wakes
  <2>1. NoneBegins
    BY <1>39 DEF NoneBegins, Wakes, schedulerElse
  <2>2. queue' = queue \/ \E j : queue' = queue \o <<j>>
    BY <1>39, NothingAdded DEF Journal, Wakes, schedulerElse
  <2> QED
    BY <2>1, <2>2, TurnStays, TurnGrows
<1>40. CASE NodeConfirmed
  <2>1. PICK h : h = Job("run", "confirm", 0)
    OBVIOUS
  <2>2. NoneBegins
    BY <1>40 DEF NoneBegins, NodeConfirmed, schedulerElse
  <2>3. NextWritten(h) /\ (queue' = Tail(queue) \/ \E j : queue' = Tail(queue) \o <<j>>)
    BY <1>40, <2>1, NothingAdded DEF WrittenThen, NextWritten, NodeConfirmed, schedulerElse
  <2> QED
    BY <2>1, <2>2, <2>3, TurnMoves DEF Job
<1>41. ASSUME NEW e \in Calls, Claim(e)
      PROVE  InTurn'
  <2>1. NoneBegins
    BY <1>41 DEF NoneBegins, Claim, schedulerElse
  <2>2. queue' = queue \/ \E j : queue' = queue \o <<j>>
    BY <1>41, NothingAdded DEF Journal, Claim, schedulerElse
  <2> QED
    BY <2>1, <2>2, TurnStays, TurnGrows
<1>42. CASE Claimed
  <2>1. PICK h : h = Job("run", "claim", sending)
    OBVIOUS
  <2>2. NoneBegins
    BY <1>42 DEF NoneBegins, Claimed, schedulerElse
  <2>3. NextWritten(h) /\ (queue' = Tail(queue) \/ \E j : queue' = Tail(queue) \o <<j>>)
    BY <1>42, <2>1, NothingAdded DEF WrittenThen, NextWritten, Claimed, schedulerElse
  <2> QED
    BY <2>1, <2>2, <2>3, TurnMoves DEF Job
<1>43. CASE Deliver
  <2>1. NoneBegins
    BY <1>43 DEF NoneBegins, Deliver, schedulerElse
  <2>2. queue' = queue \/ \E j : queue' = queue \o <<j>>
    BY <1>43, NothingAdded DEF Journal, Deliver, schedulerElse
  <2> QED
    BY <2>1, <2>2, TurnStays, TurnGrows
<1>44. CASE Settled
  <2>1. PICK h : h = Job("run", "settle", sending)
    OBVIOUS
  <2>2. NoneBegins
    BY <1>44 DEF NoneBegins, Settled, schedulerElse
  <2>3. NextWritten(h) /\ (queue' = Tail(queue) \/ \E j : queue' = Tail(queue) \o <<j>>)
    BY <1>44, <2>1, NothingAdded DEF WrittenThen, NextWritten, Settled, schedulerElse
  <2> QED
    BY <2>1, <2>2, <2>3, TurnMoves DEF Job
<1>45. CASE DrainOver
  <2>1. NoneBegins
    BY <1>45 DEF NoneBegins, DrainOver, schedulerElse
  <2>2. queue' = queue \/ \E j : queue' = queue \o <<j>>
    BY <1>45, NothingAdded DEF Journal, DrainOver, schedulerElse
  <2> QED
    BY <2>1, <2>2, TurnStays, TurnGrows
<1>46. CASE Retired
  <2>1. PICK h : h = Job("run", "retire", 0)
    OBVIOUS
  <2>2. NoneBegins
    BY <1>46 DEF NoneBegins, Retired, schedulerElse
  <2>3. NextWritten(h) /\ (queue' = Tail(queue) \/ \E j : queue' = Tail(queue) \o <<j>>)
    BY <1>46, <2>1, NothingAdded DEF WrittenThen, NextWritten, Retired, schedulerElse
  <2> QED
    BY <2>1, <2>2, <2>3, TurnMoves DEF Job
<1> HIDE DEF turnVars, guessVars, nodeVars, runVars, schedulerElse
<1> QED
  BY <1>1, <1>2, <1>3, <1>4, <1>5, <1>6, <1>7, <1>8, <1>9, <1>10, <1>11, <1>12, <1>13, <1>14,
    <1>15, <1>16, <1>17, <1>18, <1>19, <1>20, <1>21, <1>22, <1>23, <1>24, <1>25, <1>26, <1>27,
    <1>28, <1>29, <1>30, <1>31, <1>32, <1>33, <1>34, <1>35, <1>36, <1>37, <1>38, <1>39, <1>40,
    <1>41, <1>42, <1>43, <1>44, <1>45, <1>46, EntrySteps

\* The type of what each of them changes.
TypeOfTurn ==
  /\ turn \in {"none", "answered", "failed"}
  /\ pc \in TurnStates
  /\ got \in 0 .. Asked /\ at \in 1 .. Asked + 1
  /\ early \subseteq Reads \ Dependent
  /\ answered \in BOOLEAN
TypeOfGuesses ==
  /\ resolved \in [Guesses -> {"none", "forked", "confirmed", "squashed"}]
  /\ guess \in [Guesses -> {"none", "forking", "open", "confirmed", "adopted",
                            "squashed", "dropped"}]
  /\ guessed \in [Guesses -> Calls]
  /\ task \in [Guesses -> {"none", "request", "read", "stage", "ack", "done",
                           "gone"}]
  /\ held \in [Guesses -> BOOLEAN]
  /\ squashing \in Guesses \cup {0}
  /\ dropping \in [{"turn", "node"} -> SUBSET Guesses]
TypeOfBranch ==
  /\ own \in {"request", "stage", "done"}
  /\ node \in {"turn", "request", "stage", "ack", "leaving", "squashing",
               "dropping", "done"}
  /\ list \subseteq Own .. Later
  /\ settled \subseteq list
  /\ world \in Seq(Calls)
  /\ run \in {"quiesce", "confirm", "drain", "claim", "send", "settle",
              "retire", "retired"}
  /\ sending \in Own .. Later
  /\ parked \in BOOLEAN /\ confirmed \in BOOLEAN /\ over \in BOOLEAN

LEMMA TypeParts == TypeOK => TypeOfTurn /\ TypeOfGuesses /\ TypeOfBranch
BY DEF TypeOK, TypeOfTurn, TypeOfGuesses, TypeOfBranch

\* Who moves the turn.
LEMMA TurnSteps ==
  ASSUME [Next]_vars
  PROVE  \/ UNCHANGED <<turn, pc, got, at, early, answered>>
        \/ AnswerArrives \/ BlockUnguessed \/ BlockConfirms \/ BlockMisses \/ MissIsOver
        \/ (\E k \in Guesses : ConfirmWritten(k)) \/ NoGuess
        \/ (\E hit \in BOOLEAN : Guess(hit)) \/ (\E k \in Guesses : ForkWritten(k))
        \/ CutIsOver \/ ReplyEnds \/ ReplyUnwritten \/ AnswerWritten \/ EndIsOver
        \/ StreamFails \/ (\E k \in Guesses : CancelledAtConfirm(k))
        \/ (\E k \in Guesses : CancelledAtFork(k)) \/ CancelledAtAnswer \/ FailureWritten
        \/ FailureUnwritten \/ CleanUp \/ TurnFails \/ BeginAdoption \/ AdoptNothing
        \/ (\E k \in Guesses : AdoptionWritten(k)) \/ AwaitEarly \/ SlotDone \/ MakeCall
        \/ (\E k \in Blocks : RequestWritten(k)) \/ ReadInOrder
        \/ (\E k \in Blocks : StageWritten(k)) \/ Acknowledged \/ TurnDone \/ SettleFails
        \/ StopSettling \/ SettlingStopped \/ CancelledAtEnd
        \/ (\E k \in Blocks : EarlyRead(k))
<1>1. CASE TurnStep
  BY <1>1 DEF TurnStep, TakeBlock, FailureSeen, turnVars, guessVars, nodeVars, runVars
<1>2. CASE Stopping
  BY <1>2 DEF Stopping, TakeBlock, turnVars, guessVars, nodeVars, runVars
<1>3. CASE Written
  <2>1. CASE \/ (\E k \in Guesses : SquashDiscarded(k))
             \/ (\E k \in Guesses : SquashResolved(k))
             \/ (\E k \in Guesses, who \in {"turn", "node"} : DropDiscarded(who, k))
             \/ (\E k \in Guesses, who \in {"turn", "node"} : DropResolved(who, k))
             \/ (\E k \in Guesses : GuessRequested(k))
    BY <2>1 DEF SquashDiscarded, SquashResolved, DropDiscarded, DropResolved, GuessRequested,
      TakeBlock, FailureSeen, turnVars, guessVars, nodeVars, runVars, schedulerElse
  <2>2. CASE (\E k \in Guesses : GuessStaged(k))
    BY <2>2 DEF GuessStaged, TakeBlock, FailureSeen, turnVars, guessVars, nodeVars, runVars,
      schedulerElse
  <2>3. CASE OwnRequested \/ OwnStaged \/ NobodyWaits \/ NodeRequested \/ NodeStaged
    BY <2>3 DEF OwnRequested, OwnStaged, NobodyWaits, NodeRequested, NodeStaged, TakeBlock,
      FailureSeen, turnVars, guessVars, nodeVars, runVars, schedulerElse
  <2>4. CASE NodeConfirmed \/ Claimed \/ Settled \/ Retired
    BY <2>4 DEF NodeConfirmed, Claimed, Settled, Retired, TakeBlock, FailureSeen, turnVars,
      guessVars, nodeVars, runVars, schedulerElse
  <2> QED
    BY <1>3, <2>1, <2>2, <2>3, <2>4 DEF Written
<1>4. CASE Beside
  BY <1>4 DEF Beside, GuessReads, GuessReleased, TakeBlock, turnVars, guessVars, nodeVars,
    runVars
<1>5. CASE NodeStep
  BY <1>5 DEF NodeStep, NodeWrites, LeaveSquash, LeaveDrop, NodeDone, TakeBlock, turnVars,
    guessVars, nodeVars, runVars
<1>6. CASE RunStep
  BY <1>6 DEF RunStep, Wakes, Claim, Deliver, DrainOver, EndDrive, TakeBlock, turnVars,
    guessVars, nodeVars, runVars, schedulerElse
<1> QED
  BY <1>1, <1>2, <1>3, <1>4, <1>5, <1>6 DEF Next, NodeReturns, Finished, vars, turnVars,
    guessVars, nodeVars, runVars

LEMMA TypeOfTurnKept ==
  ASSUME EntriesAreDue, TypeOfTurn, Phases, [Next]_vars
  PROVE  TypeOfTurn'
<1> USE DEF TypeOfTurn, TurnStates, Phases, Settling, turnVars, guessVars, nodeVars, runVars,
    schedulerElse
<1>1. CASE UNCHANGED <<turn, pc, got, at, early, answered>>
  BY <1>1
<1>2. CASE AnswerArrives
  BY <1>2 DEF AnswerArrives
<1>3. CASE BlockUnguessed
  BY <1>3, Numbers DEF BlockUnguessed, AtBlock, TakeBlock, IssuedEarly
<1>4. CASE BlockConfirms
  BY <1>4 DEF BlockConfirms, AtBlock, StaysApart
<1>5. CASE BlockMisses
  BY <1>5 DEF BlockMisses, AtBlock, Squash
<1>6. CASE MissIsOver
  BY <1>6, Numbers DEF MissIsOver, TakeBlock, IssuedEarly
<1>7. ASSUME NEW k \in Guesses, ConfirmWritten(k)
      PROVE  TypeOfTurn'
  <2>1. pc = "confirm"
    BY <1>7, WrittenWhenDue DEF ConfirmWritten
  <2>2. got < Asked
    BY <2>1
  <2> QED
    BY <1>7, <2>2, Numbers DEF ConfirmWritten, TakeBlock, IssuedEarly
<1>8. CASE NoGuess
  BY <1>8 DEF NoGuess
<1>9. ASSUME NEW hit \in BOOLEAN, Guess(hit)
      PROVE  TypeOfTurn'
  BY <1>9 DEF Guess
<1>10. ASSUME NEW k \in Guesses, ForkWritten(k)
      PROVE  TypeOfTurn'
  BY <1>10, WrittenWhenDue DEF ForkWritten, Squash
<1>11. CASE CutIsOver
  BY <1>11 DEF CutIsOver
<1>12. CASE ReplyEnds
  BY <1>12 DEF ReplyEnds
<1>13. CASE ReplyUnwritten
  BY <1>13 DEF ReplyUnwritten
<1>14. CASE AnswerWritten
  BY <1>14, WrittenWhenDue DEF AnswerWritten, Squash
<1>15. CASE EndIsOver
  BY <1>15 DEF EndIsOver
<1>16. CASE StreamFails
  BY <1>16 DEF StreamFails
<1>17. ASSUME NEW k \in Guesses, CancelledAtConfirm(k)
      PROVE  TypeOfTurn'
  BY <1>17, WrittenWhenDue DEF CancelledAtConfirm
<1>18. ASSUME NEW k \in Guesses, CancelledAtFork(k)
      PROVE  TypeOfTurn'
  BY <1>18, WrittenWhenDue DEF CancelledAtFork
<1>19. CASE CancelledAtAnswer
  BY <1>19, WrittenWhenDue DEF CancelledAtAnswer
<1>20. CASE FailureWritten
  BY <1>20, WrittenWhenDue DEF FailureWritten, FailureSeen, Squash
<1>21. CASE FailureUnwritten
  BY <1>21 DEF FailureUnwritten, FailureSeen, Squash
<1>22. CASE CleanUp
  BY <1>22 DEF CleanUp, Abandon
<1>23. CASE TurnFails
  BY <1>23 DEF TurnFails
<1>24. CASE BeginAdoption
  BY <1>24 DEF BeginAdoption, AtResult
<1>25. CASE AdoptNothing
  BY <1>25 DEF AdoptNothing, AtResult, Adopt
<1>26. ASSUME NEW k \in Guesses, AdoptionWritten(k)
      PROVE  TypeOfTurn'
  BY <1>26, WrittenWhenDue DEF AdoptionWritten, Adopt
<1>27. CASE AwaitEarly
  BY <1>27 DEF AwaitEarly, AtResult
<1>28. CASE SlotDone
  BY <1>28, Numbers DEF SlotDone
<1>29. CASE MakeCall
  BY <1>29 DEF MakeCall, AtResult
<1>30. ASSUME NEW k \in Blocks, RequestWritten(k)
      PROVE  TypeOfTurn'
  BY <1>30, WrittenWhenDue DEF RequestWritten, StillStages
<1>31. CASE ReadInOrder
  BY <1>31, Numbers DEF ReadInOrder
<1>32. ASSUME NEW k \in Blocks, StageWritten(k)
      PROVE  TypeOfTurn'
  BY <1>32, WrittenWhenDue DEF StageWritten
<1>33. CASE Acknowledged
  BY <1>33, Numbers DEF Acknowledged
<1>34. CASE TurnDone
  BY <1>34 DEF TurnDone
<1>35. CASE SettleFails
  BY <1>35 DEF SettleFails
<1>36. CASE StopSettling
  BY <1>36 DEF StopSettling
<1>37. CASE SettlingStopped
  BY <1>37 DEF SettlingStopped, Abandon
<1>38. CASE CancelledAtEnd
  BY <1>38 DEF CancelledAtEnd
<1>39. ASSUME NEW k \in Blocks, EarlyRead(k)
      PROVE  TypeOfTurn'
  BY <1>39 DEF EarlyRead
<1> HIDE DEF TypeOfTurn, TurnStates, Phases, Settling, turnVars, guessVars, nodeVars, runVars,
    schedulerElse
<1> QED
  BY <1>1, <1>2, <1>3, <1>4, <1>5, <1>6, <1>7, <1>8, <1>9, <1>10, <1>11, <1>12, <1>13, <1>14,
    <1>15, <1>16, <1>17, <1>18, <1>19, <1>20, <1>21, <1>22, <1>23, <1>24, <1>25, <1>26, <1>27,
    <1>28, <1>29, <1>30, <1>31, <1>32, <1>33, <1>34, <1>35, <1>36, <1>37, <1>38, <1>39,
    TurnSteps

\* Who moves the guesses.
LEMMA GuessMoves ==
  ASSUME [Next]_vars
  PROVE  \/ UNCHANGED <<resolved, guess, guessed, task, held, squashing, dropping>>
        \/ BlockConfirms \/ BlockMisses \/ (\E k \in Guesses : ConfirmWritten(k))
        \/ (\E hit \in BOOLEAN : Guess(hit)) \/ (\E k \in Guesses : ForkWritten(k))
        \/ AnswerWritten \/ (\E k \in Guesses : CancelledAtConfirm(k))
        \/ (\E k \in Guesses : CancelledAtFork(k)) \/ FailureWritten \/ FailureUnwritten
        \/ CleanUp \/ AdoptNothing \/ (\E k \in Guesses : AdoptionWritten(k))
        \/ StopSettling \/ SettlingStopped
        \/ (\E k \in Guesses : SquashDiscarded(k)) \/ (\E k \in Guesses : SquashResolved(k))
        \/ (\E k \in Guesses, who \in {"turn", "node"} : DropDiscarded(who, k))
        \/ (\E k \in Guesses, who \in {"turn", "node"} : DropResolved(who, k))
        \/ (\E k \in Guesses : GuessRequested(k)) \/ (\E k \in Guesses : GuessReads(k))
        \/ (\E k \in Guesses : GuessStaged(k)) \/ (\E k \in Guesses : GuessReleased(k))
        \/ LeaveSquash \/ LeaveDrop
<1>1. CASE TurnStep
  BY <1>1 DEF TurnStep, BlockUnguessed, MissIsOver, NoGuess, CutIsOver, ReplyEnds,
    ReplyUnwritten, EndIsOver, TurnFails, BeginAdoption, AwaitEarly, SlotDone, MakeCall,
    ReadInOrder, Acknowledged, TurnDone, SettleFails, FailureSeen, StaysApart, turnVars,
    guessVars, nodeVars, runVars
<1>2. CASE Stopping
  BY <1>2 DEF Stopping, StreamFails, CancelledAtEnd, SettleFails, turnVars, guessVars, nodeVars,
    runVars
<1>3. CASE Written
  <2>1. CASE (\E k \in Blocks : RequestWritten(k)) \/ (\E k \in Blocks : StageWritten(k))
    BY <2>1 DEF RequestWritten, StageWritten, FailureSeen, turnVars, guessVars, nodeVars,
      runVars, schedulerElse
  <2>2. CASE CancelledAtAnswer \/ OwnRequested \/ OwnStaged \/ NobodyWaits \/ NodeRequested
    BY <2>2 DEF CancelledAtAnswer, OwnRequested, OwnStaged, NobodyWaits, NodeRequested,
      FailureSeen, turnVars, guessVars, nodeVars, runVars, schedulerElse
  <2>3. CASE NodeStaged \/ NodeConfirmed \/ Claimed \/ Settled \/ Retired
    BY <2>3 DEF NodeStaged, NodeConfirmed, Claimed, Settled, Retired, FailureSeen, turnVars,
      guessVars, nodeVars, runVars, schedulerElse
  <2> QED
    BY <1>3, <2>1, <2>2, <2>3 DEF Written
<1>4. CASE Beside
  BY <1>4 DEF Beside, EarlyRead, turnVars, guessVars, nodeVars, runVars
<1>5. CASE NodeStep
  BY <1>5 DEF NodeStep, NodeWrites, NodeDone, turnVars, guessVars, nodeVars, runVars
<1>6. CASE RunStep
  BY <1>6 DEF RunStep, Wakes, Claim, Deliver, DrainOver, EndDrive, turnVars, guessVars,
    nodeVars, runVars, schedulerElse
<1> QED
  BY <1>1, <1>2, <1>3, <1>4, <1>5, <1>6 DEF Next, AnswerArrives, NodeReturns, Finished, vars,
    turnVars, guessVars, nodeVars, runVars

\* A guess whose branch is squashed stays so, and its call ends with the squash; one
\* is squashed only while it is open, or as its fork is written.
StraysGoOn ==
  /\ squashing' # 0 => guess'[squashing'] = "squashed"
  /\ Straying' => Straying \/ pc = "fork"
  /\ \A c \in Guesses : StrayCall(c)'

\* A step that squashes nothing.
LEMMA NoneSquashed ==
  ASSUME TypeOK, Astray, squashing' = squashing,
         \A c \in Guesses :
           /\ \/ guess'[c] = guess[c]
              \/ guess[c] # "squashed" /\ guess'[c] \notin {"squashed", "dropped"}
              \/ guess[c] \in {"confirmed", "dropped"} /\ guess'[c] = "dropped" /\ Right(c)
           /\ \/ guessed'[c] = guessed[c]
              \/ guess'[c] # "dropped"
           /\ \/ task'[c] = task[c]
              \/ guess'[c] # "squashed"
              \/ task[c] \notin {"none", "gone"}
              \/ task'[c] = "gone",
         pc = "fork" \/ \A c \in Guesses : guess'[c] = "open" => guess[c] = "open"
  PROVE  StraysGoOn
<1>1. \A c \in Guesses : StrayCall(c)
  BY DEF Astray
<1>2. squashing # 0 => squashing \in Guesses /\ guess[squashing] = "squashed"
  BY DEF Astray, TypeOK
<1>3. \A c \in Guesses : guess[c] = "squashed" => guess'[c] = "squashed"
  OBVIOUS
<1>4. squashing' # 0 => guess'[squashing'] = "squashed"
  BY <1>2, <1>3
<1>5. Straying' => Straying \/ pc = "fork"
  BY DEF Straying, Open
<1>6. ASSUME NEW c \in Guesses
      PROVE  StrayCall(c)'
  <2>1. guess'[c] = "dropped" => guess[c] \in {"confirmed", "dropped"}
    OBVIOUS
  <2>2. guess'[c] = "dropped" => guessed'[c] = c
    BY <1>1 DEF StrayCall, Right
  <2>3. guess'[c] = "squashed" /\ task'[c] \notin {"none", "gone"} => squashing = c
    BY <1>1 DEF StrayCall
  <2> QED
    BY <2>2, <2>3 DEF StrayCall, Right
<1> QED
  BY <1>4, <1>5, <1>6 DEF StraysGoOn

\* A squash begins.
LEMMA OneSquashed ==
  ASSUME TypeOK, Astray, squashing = 0, NEW k \in Guesses, Squash(k), guessed' = guessed,
         k \in Open \/ pc = "fork"
  PROVE  StraysGoOn
<1>1. /\ guess'[k] = "squashed" /\ squashing' = k /\ task' = task
      /\ \A c \in Guesses : c # k => guess'[c] = guess[c]
  BY DEF Squash, TypeOK
<1>2. \A c \in Guesses : StrayCall(c)
  BY DEF Astray
<1>3. \A c \in Guesses : StrayCall(c)'
  BY <1>1, <1>2, Numbers DEF StrayCall, Right
<1> QED
  BY <1>1, <1>3 DEF StraysGoOn, Straying

\* What each step does to the guesses squashed, and to their calls.
LEMMA StraysKept ==
  ASSUME TypeOK, EntriesAreDue, Phases, Discarding, Guessing, Progress, Astray, [Next]_vars
  PROVE  StraysGoOn
<1> USE DEF turnVars, guessVars, nodeVars, runVars, schedulerElse
<1>0. \A c \in Guesses : guess[c] \in {"confirmed", "dropped"} => Right(c)
  BY DEF Astray, StrayCall, Guessing, GuessOf
<1>1. CASE UNCHANGED <<resolved, guess, guessed, task, held, squashing, dropping>>
  BY <1>1, NoneSquashed
<1>2. CASE BlockConfirms
  <2>1. /\ squashing' = squashing /\ guessed' = guessed /\ task' = task
        /\ \A c \in Guesses : guess'[c] = guess[c] \/ (guess[c] = "open" /\ guess'[c] = "confirmed")
    BY <1>2 DEF BlockConfirms, StaysApart, Open, TypeOK
  <2> QED
    BY <2>1, NoneSquashed
<1>3. CASE BlockMisses
  <2>1. PICK k \in Open : Squash(k)
    BY <1>3 DEF BlockMisses
  <2>2. squashing = 0 /\ guessed' = guessed /\ k \in Guesses
    BY <1>3, <2>1, OneOpen DEF BlockMisses, Open
  <2> QED
    BY <2>1, <2>2, OneSquashed
<1>4. CASE \/ \E k \in Guesses : ConfirmWritten(k)
           \/ \E k \in Guesses : CancelledAtConfirm(k)
  <2>1. UNCHANGED <<guess, guessed, task, squashing>>
    BY <1>4 DEF ConfirmWritten, CancelledAtConfirm
  <2> QED
    BY <2>1, NoneSquashed
<1>5. ASSUME NEW hit \in BOOLEAN, Guess(hit)
      PROVE  StraysGoOn
  <2>1. got + 1 \in Guesses => guess[got + 1] = "none"
    BY <1>5 DEF Guess, Guessing, GuessOf
  <2>2. PICK call : guessed' = [guessed EXCEPT ![got + 1] = call]
    BY <1>5 DEF Guess
  <2>3. UNCHANGED <<task, squashing>> /\ guess' = [guess EXCEPT ![got + 1] = "forking"]
    BY <1>5 DEF Guess
  <2>4. \A c \in Guesses :
          \/ guess'[c] = guess[c] /\ guessed'[c] = guessed[c]
          \/ guess[c] = "none" /\ guess'[c] = "forking"
    BY <2>1, <2>2, <2>3 DEF TypeOK
  <2> QED
    BY <2>3, <2>4, NoneSquashed
<1>6. ASSUME NEW k \in Guesses, ForkWritten(k)
      PROVE  StraysGoOn
  <2>1. pc = "fork" /\ k = got + 1 /\ guessed' = guessed
    BY <1>6, WrittenWhenDue DEF ForkWritten
  <2>2. squashing = 0 /\ guess[k] = "forking"
    BY <2>1 DEF Guessing, Phases
  <2>3. CASE ~Returned
    <3>1. /\ squashing' = squashing
          /\ \A c \in Guesses :
               \/ guess'[c] = guess[c] /\ task'[c] = task[c]
               \/ guess[c] = "forking" /\ guess'[c] = "open"
      BY <1>6, <2>2, <2>3 DEF ForkWritten, TypeOK
    <3> QED
      BY <2>1, <3>1, NoneSquashed
  <2>4. CASE Returned
    BY <1>6, <2>1, <2>2, <2>4, OneSquashed DEF ForkWritten
  <2> QED
    BY <2>3, <2>4
<1>7. CASE AnswerWritten
  <2>1. CASE Open = {}
    BY <1>7, <2>1, NoneSquashed DEF AnswerWritten
  <2>2. CASE Open # {}
    <3>1. PICK k \in Open : Squash(k)
      BY <1>7, <2>2 DEF AnswerWritten
    <3>2. squashing = 0 /\ guessed' = guessed /\ k \in Guesses
      BY <1>7, <2>2, OneOpen DEF AnswerWritten, Open
    <3> QED
      BY <3>1, <3>2, OneSquashed
  <2> QED
    BY <2>1, <2>2
<1>8. ASSUME NEW k \in Guesses, CancelledAtFork(k)
      PROVE  StraysGoOn
  <2>1. pc = "fork" /\ k = got + 1 /\ UNCHANGED <<guessed, task, squashing>>
    BY <1>8, WrittenWhenDue DEF CancelledAtFork
  <2>2. guess[k] = "forking"
    BY <2>1 DEF Guessing, Phases
  <2>3. \A c \in Guesses : guess'[c] = guess[c] \/ (guess[c] = "forking" /\ guess'[c] = "open")
    BY <1>8, <2>2 DEF CancelledAtFork, TypeOK
  <2> QED
    BY <2>1, <2>3, NoneSquashed
<1>9. CASE FailureWritten \/ FailureUnwritten
  <2>1. CASE Open = {}
    BY <1>9, <2>1, NoneSquashed DEF FailureWritten, FailureUnwritten, FailureSeen
  <2>2. CASE Open # {}
    <3>1. PICK k \in Open : Squash(k)
      BY <1>9, <2>2 DEF FailureWritten, FailureUnwritten, FailureSeen
    <3>2. squashing = 0 /\ guessed' = guessed /\ k \in Guesses
      BY <1>9, <2>2, OneOpen DEF FailureWritten, FailureUnwritten, FailureSeen, Open
    <3> QED
      BY <3>1, <3>2, OneSquashed
  <2> QED
    BY <2>1, <2>2
<1>10. CASE CleanUp \/ StopSettling \/ LeaveDrop
  <2>1. \A c \in Guesses :
          guess'[c] = guess[c] \/ (guess[c] \in {"confirmed", "dropped"} /\ guess'[c] = "dropped")
    BY <1>10, DropLeaves
  <2>2. UNCHANGED <<guessed, squashing>> /\ \A c \in Guesses : task'[c] \in {task[c], "gone"}
    BY <1>10 DEF CleanUp, StopSettling, LeaveDrop, Abandon
  <2> QED
    BY <1>0, <2>1, <2>2, NoneSquashed
<1>11. CASE SettlingStopped
  <2>1. UNCHANGED <<guess, guessed, squashing>> /\ \A c \in Guesses : task'[c] \in {task[c], "gone"}
    BY <1>11 DEF SettlingStopped, Abandon
  <2> QED
    BY <2>1, NoneSquashed
<1>12. CASE AdoptNothing \/ \E k \in Guesses : AdoptionWritten(k)
  <2>1. Adopt(at) /\ at \in Kept /\ UNCHANGED <<guessed, task, squashing>>
    BY <1>12, WrittenWhenDue DEF AdoptNothing, AdoptionWritten, Progress
  <2>2. \A c \in Guesses : guess'[c] = guess[c] \/ (guess[c] = "confirmed" /\ guess'[c] = "adopted")
    BY <2>1 DEF Adopt, Kept, TypeOK
  <2> QED
    BY <2>1, <2>2, NoneSquashed
<1>13. ASSUME NEW k \in Guesses, SquashDiscarded(k)
       PROVE  StraysGoOn
  <2>1. k = squashing /\ k # 0 /\ UNCHANGED <<guess, squashing>>
    BY <1>13, WrittenWhenDue DEF SquashDiscarded
  <2>2. guess[k] = "squashed"
    BY <2>1 DEF Astray
  <2>3. \A c \in Guesses :
          \/ guessed'[c] = guessed[c] /\ task'[c] = task[c]
          \/ c = k /\ task'[c] = "gone"
    BY <1>13 DEF SquashDiscarded, CallCancelled, TypeOK
  <2> QED
    BY <2>1, <2>2, <2>3, NoneSquashed
<1>14. ASSUME NEW k \in Guesses, SquashResolved(k)
       PROVE  StraysGoOn
  <2>1. k = squashing /\ task[k] = "gone" /\ squashing' = 0 /\ UNCHANGED <<guess, guessed, task>>
    BY <1>14, WrittenWhenDue DEF SquashResolved
  <2>2. \A c \in Guesses : StrayCall(c)'
    BY <2>1 DEF Astray, StrayCall, Right
  <2>3. Straying' => Straying
    BY <2>1 DEF Straying, Open
  <2> QED
    BY <2>1, <2>2, <2>3 DEF StraysGoOn
<1>15. ASSUME NEW k \in Guesses, NEW who \in {"turn", "node"}, DropDiscarded(who, k) \/ DropResolved(who, k)
       PROVE  StraysGoOn
  <2>1. \A c \in Guesses :
          guess'[c] = guess[c] \/ (guess[c] \in {"confirmed", "dropped"} /\ guess'[c] = "dropped")
    BY <1>15, DropLeaves
  <2>2. UNCHANGED <<guessed, squashing, task>>
    BY <1>15 DEF DropDiscarded, DropResolved
  <2> QED
    BY <1>0, <2>1, <2>2, NoneSquashed
<1>16. ASSUME NEW k \in Guesses, GuessRequested(k) \/ GuessReads(k) \/ GuessStaged(k) \/ GuessReleased(k)
       PROVE  StraysGoOn
  <2>1. UNCHANGED <<guess, guessed, squashing>>
    BY <1>16 DEF GuessRequested, GuessReads, GuessStaged, GuessReleased
  <2>2. \A c \in Guesses : task'[c] = task[c] \/ task[c] \notin {"none", "gone"}
    BY <1>16 DEF GuessRequested, GuessReads, GuessStaged, GuessReleased, TypeOK
  <2> QED
    BY <2>1, <2>2, NoneSquashed
<1>17. CASE LeaveSquash
  <2>1. PICK k \in Open : Squash(k)
    BY <1>17 DEF LeaveSquash
  <2>2. squashing = 0 /\ guessed' = guessed /\ k \in Guesses
    BY <1>17, <2>1, OneOpen DEF LeaveSquash, Open
  <2> QED
    BY <2>1, <2>2, OneSquashed
<1> HIDE DEF turnVars, guessVars, nodeVars, runVars, schedulerElse
<1> QED
  BY <1>1, <1>2, <1>3, <1>4, <1>5, <1>6, <1>7, <1>8, <1>9, <1>10, <1>11, <1>12, <1>13, <1>14,
    <1>15, <1>16, <1>17, GuessMoves

\* Who goes on through the reply's calls, or stages something.
LEMMA CallingSteps ==
  ASSUME [Next]_vars
  PROVE  \/ UNCHANGED <<at, list>> /\ (pc' \in Calling => pc \in Calling)
        \/ AnswerWritten \/ BeginAdoption \/ AdoptNothing \/ AwaitEarly \/ MakeCall
        \/ (\E k \in Guesses : AdoptionWritten(k)) \/ SlotDone
        \/ (\E k \in Blocks : RequestWritten(k)) \/ ReadInOrder \/ Acknowledged
        \/ OwnRequested \/ NodeRequested
<1> USE DEF Calling, Settling, turnVars, nodeVars, runVars, schedulerElse
<1>1. CASE TurnStep
  BY <1>1 DEF TurnStep, BlockUnguessed, BlockConfirms, BlockMisses, MissIsOver, NoGuess, Guess,
    CutIsOver, ReplyEnds, ReplyUnwritten, EndIsOver, FailureUnwritten, CleanUp, TurnFails,
    TurnDone, SettleFails, StopSettling, SettlingStopped, TakeBlock, FailureSeen, StaysApart
<1>2. CASE Stopping
  BY <1>2 DEF Stopping, StreamFails, CancelledAtEnd, SettleFails
<1>3. CASE Written
  <2>1. CASE \/ (\E k \in Guesses : ConfirmWritten(k))
             \/ (\E k \in Guesses : ForkWritten(k))
             \/ (\E k \in Guesses : CancelledAtConfirm(k))
             \/ (\E k \in Guesses : CancelledAtFork(k))
    BY <2>1 DEF ConfirmWritten, ForkWritten, CancelledAtConfirm, CancelledAtFork, TakeBlock
  <2>2. CASE \/ (\E k \in Guesses : SquashDiscarded(k))
             \/ (\E k \in Guesses : SquashResolved(k))
             \/ (\E k \in Guesses, who \in {"turn", "node"} : DropDiscarded(who, k))
             \/ (\E k \in Guesses, who \in {"turn", "node"} : DropResolved(who, k))
             \/ (\E k \in Guesses : GuessRequested(k))
             \/ (\E k \in Guesses : GuessStaged(k))
    BY <2>2 DEF SquashDiscarded, SquashResolved, DropDiscarded, DropResolved, GuessRequested,
      GuessStaged
  <2>3. CASE (\E k \in Blocks : StageWritten(k)) \/ CancelledAtAnswer \/ FailureWritten \/ OwnStaged
    BY <2>3 DEF StageWritten, CancelledAtAnswer, FailureWritten, FailureSeen, OwnStaged
  <2>4. CASE NobodyWaits \/ NodeStaged \/ NodeConfirmed \/ Claimed \/ Settled \/ Retired
    BY <2>4 DEF NobodyWaits, NodeStaged, NodeConfirmed, Claimed, Settled, Retired
  <2> QED
    BY <1>3, <2>1, <2>2, <2>3, <2>4 DEF Written
<1>4. CASE Beside
  BY <1>4 DEF Beside, EarlyRead, GuessReads, GuessReleased
<1>5. CASE NodeStep
  BY <1>5 DEF NodeStep, NodeWrites, LeaveSquash, LeaveDrop, NodeDone
<1>6. CASE RunStep
  BY <1>6 DEF RunStep, Wakes, Claim, Deliver, DrainOver, EndDrive
<1> QED
  BY <1>1, <1>2, <1>3, <1>4, <1>5, <1>6 DEF Next, AnswerArrives, NodeReturns, Finished, vars

\* While a wrong guess may still read, nothing the turn decided is staged.
LEMMA NothingCalled ==
  ASSUME TypeOK, EntriesAreDue, Phases, Guessing, Progress, LaterLast, Astray, [Next]_vars,
         Straying \/ pc = "fork"
  PROVE  pc' \notin Calling /\ Undecided' /\ Later \notin list'
<1>1. pc \notin Calling /\ Undecided /\ Later \notin list
  <2>1. CASE pc = "fork"
    BY <2>1 DEF Calling, Settling, Passed, Progress, LaterLast, UnderWay
  <2> QED
    BY <2>1 DEF Astray
<1>2. pc = "settle" => Returned
  BY OneOpen DEF Straying, Guessing, Returned
<1>3. ~UnderWay => node # "request"
  BY OneOpen DEF Straying, Guessing, UnderWay
<1>4. CASE UNCHANGED <<at, list>> /\ (pc' \in Calling => pc \in Calling)
  BY <1>1, <1>4 DEF Undecided
<1>5. CASE AnswerWritten
  BY <1>1, <1>5 DEF AnswerWritten, Undecided, Calling, Settling
<1>6. CASE BeginAdoption \/ AdoptNothing \/ AwaitEarly \/ MakeCall
  BY <1>2, <1>6 DEF BeginAdoption, AdoptNothing, AwaitEarly, MakeCall, AtResult
<1>7. CASE \/ \E k \in Guesses : AdoptionWritten(k)
           \/ SlotDone \/ ReadInOrder \/ Acknowledged
           \/ \E k \in Blocks : RequestWritten(k)
  BY <1>1, <1>7 DEF AdoptionWritten, SlotDone, ReadInOrder, Acknowledged, RequestWritten, Calling, Settling
<1>8. CASE OwnRequested
  <2>1. at' = at /\ pc' = pc /\ list' \subseteq list \cup {Own}
    BY <1>8 DEF OwnRequested, turnVars
  <2> QED
    BY <1>1, <2>1, Numbers DEF Undecided
<1>9. CASE NodeRequested
  <2>1. node = "request"
    BY <1>9, WrittenWhenDue DEF NodeRequested
  <2> QED
    BY <1>3, <2>1 DEF Phases
<1> QED
  BY <1>4, <1>5, <1>6, <1>7, <1>8, <1>9, CallingSteps

\* What a wrong guess reads, it reads before the world sees anything that was decided.
LEMMA StraysFirst ==
  ASSUME TypeOK, EntriesAreDue, Guessing, Tasks, Progress, Draining, Upstream, Astray, [Next]_vars
  PROVE  (\A i \in DOMAIN world : world[i] \in Strays =>
            \A j \in 1 .. i - 1 : world[j] \notin Decided \cup {Later})'
<1>1. ASSUME NEW x, world' = Append(world, x),
             x \in Strays => \A c \in InWorld : c \notin Decided \cup {Later}
      PROVE  \A i \in DOMAIN world' : world'[i] \in Strays =>
               \A j \in 1 .. i - 1 : world'[j] \notin Decided \cup {Later}
  <2>1. /\ DOMAIN world' = 1 .. Len(world) + 1 /\ DOMAIN world = 1 .. Len(world) /\ Len(world) \in Nat
        /\ \A i \in DOMAIN world : world'[i] = world[i]
        /\ world'[Len(world) + 1] = x
    BY <1>1 DEF TypeOK
  <2>2. \A j \in DOMAIN world : world[j] \in InWorld
    BY DEF InWorld
  <2>3. \A i \in DOMAIN world : world[i] \in Strays =>
          \A j \in 1 .. i - 1 : world[j] \notin Decided \cup {Later}
    BY DEF Astray
  <2>4. ASSUME NEW i \in 1 .. Len(world) + 1, world'[i] \in Strays, NEW j \in 1 .. i - 1
        PROVE  world'[j] \notin Decided \cup {Later}
    <3>1. j \in DOMAIN world
      BY <2>1, <2>4
    <3> QED
      BY <1>1, <2>1, <2>2, <2>3, <2>4, <3>1
  <2> QED
    BY <2>1, <2>4
<1>2. CASE \E k \in Guesses : GuessReads(k)
  <2>1. PICK k \in Guesses : GuessReads(k)
    BY <1>2
  <2>2. task[k] = "read" /\ world' = Append(world, guessed[k])
    BY <2>1 DEF GuessReads
  <2>3. ASSUME guessed[k] \in Strays
        PROVE  \A c \in InWorld : c \notin Decided \cup {Later}
    <3>1. ~Right(k) /\ StrayCall(k) /\ GuessOf(k)
      BY <2>3, WrongGuesses, Numbers DEF Right, Guessing, Astray, GuessOf
    <3>2. Straying
      <4>1. guess[k] \in {"none", "forking", "open", "confirmed", "adopted", "squashed", "dropped"}
        BY DEF TypeOK
      <4>2. guess[k] = "open" \/ squashing = k
        BY <2>2, <3>1, <4>1 DEF GuessOf, StrayCall
      <4>3. k # 0
        BY Numbers
      <4> QED
        BY <4>2, <4>3 DEF Straying, Open
    <3>3. Undecided /\ Later \notin list
      BY <3>2 DEF Astray
    <3>4. Sent \subseteq list
      BY DEF Sent, Draining, TypeOK
    <3>5. {c \in TrulyDependent : c < at} = {}
      <4>1. \A c \in TrulyDependent : c \in Nat /\ c >= 1
        BY Numbers
      <4> QED
        BY <3>3, <4>1 DEF Undecided
    <3>6. \A c \in Decided \cup {Later} : c \notin Free /\ (c \in Blocks \/ c = Later)
      BY WrongGuesses, Numbers DEF Decided, Free
    <3> QED
      BY <3>3, <3>4, <3>5, <3>6 DEF Upstream, Undecided
  <2> QED
    BY <1>1, <2>2, <2>3
<1>3. CASE Deliver
  <2>1. world' = Append(world, sending) /\ sending \notin Strays
    BY <1>3, WrongGuesses DEF Deliver, TypeOK
  <2> QED
    BY <1>1, <2>1
<1>4. CASE ReadInOrder
  <2>1. world' = Append(world, at) /\ at \notin Strays
    BY <1>4, WrongGuesses, Numbers DEF ReadInOrder, Progress
  <2> QED
    BY <1>1, <2>1
<1>5. CASE \E k \in Blocks : EarlyRead(k)
  <2>1. PICK k \in Blocks : world' = Append(world, k) /\ k \notin Strays
    BY <1>5, WrongGuesses DEF EarlyRead
  <2> QED
    BY <1>1, <2>1
<1>6. CASE UNCHANGED world
  BY <1>6 DEF Astray
<1> QED
  BY <1>2, <1>3, <1>4, <1>5, <1>6, WorldSteps DEF AnswerWritten, SlotDone, Acknowledged, Wakes,
    NodeConfirmed, Claim, Claimed, Settled, DrainOver, Retired, schedulerElse

\* A wrong guess's read comes before anything that was decided.
LEMMA AstrayKept ==
  ASSUME TypeOK, EntriesAreDue, Phases, Discarding, Guessing, Tasks, Progress, LaterLast, Draining,
         Upstream, Astray, [Next]_vars
  PROVE  Astray'
<1>1. StraysGoOn
  BY StraysKept
<1>2. Straying' => pc' \notin Calling /\ Undecided' /\ Later \notin list'
  BY <1>1, NothingCalled DEF StraysGoOn
<1>3. (\A i \in DOMAIN world : world[i] \in Strays =>
         \A j \in 1 .. i - 1 : world[j] \notin Decided \cup {Later})'
  BY StraysFirst
<1> QED
  BY <1>1, <1>2, <1>3 DEF Astray, StraysGoOn

LEMMA SquashKeepsTypes ==
  ASSUME TypeOfGuesses, NEW k \in Guesses, Squash(k), UNCHANGED <<resolved, guessed, dropping>>
  PROVE  TypeOfGuesses'
BY DEF TypeOfGuesses, Squash

LEMMA TypeOfGuessesKept ==
  ASSUME TypeOfGuesses, [Next]_vars
  PROVE  TypeOfGuesses'
<1> USE DEF TypeOfGuesses, turnVars, guessVars, nodeVars, runVars, schedulerElse
<1>1. CASE UNCHANGED <<resolved, guess, guessed, task, held, squashing, dropping>>
  BY <1>1
<1>2. CASE BlockConfirms
  BY <1>2 DEF BlockConfirms, AtBlock, StaysApart, Open
<1>3. CASE BlockMisses
  BY <1>3, Numbers DEF BlockMisses, AtBlock, Squash, Open
<1>4. ASSUME NEW k \in Guesses, ConfirmWritten(k)
      PROVE  TypeOfGuesses'
  BY <1>4 DEF ConfirmWritten, TakeBlock
<1>5. ASSUME NEW hit \in BOOLEAN, Guess(hit)
      PROVE  TypeOfGuesses'
  <2>1. PICK call : guessed' = [guessed EXCEPT ![got + 1] = call] /\ (got + 1 \in Guesses => call \in Calls)
    <3>1. CASE hit
      BY <1>5, <3>1, Numbers DEF Guess
    <3>2. CASE ~hit
      BY <1>5, <3>2, WrongGuesses DEF Guess, Misguess
    <3> QED
      BY <3>1, <3>2
  <2>2. UNCHANGED <<resolved, task, held, squashing, dropping>> /\ guess' = [guess EXCEPT ![got + 1] = "forking"]
    BY <1>5 DEF Guess
  <2> QED
    BY <2>1, <2>2
<1>6. ASSUME NEW k \in Guesses, ForkWritten(k)
      PROVE  TypeOfGuesses'
  BY <1>6 DEF ForkWritten, Squash
<1>7. CASE AnswerWritten
  <2>1. UNCHANGED <<resolved, guessed, dropping>>
    BY <1>7 DEF AnswerWritten
  <2>2. CASE Open = {}
    BY <1>7, <2>1, <2>2 DEF AnswerWritten
  <2>3. CASE Open # {}
    <3>1. PICK k \in Guesses : Squash(k)
      BY <1>7, <2>3 DEF AnswerWritten, Open
    <3> QED
      BY <2>1, <3>1, SquashKeepsTypes
  <2> QED
    BY <2>2, <2>3
<1>8. ASSUME NEW k \in Guesses, CancelledAtConfirm(k)
      PROVE  TypeOfGuesses'
  BY <1>8 DEF CancelledAtConfirm
<1>9. ASSUME NEW k \in Guesses, CancelledAtFork(k)
      PROVE  TypeOfGuesses'
  BY <1>9 DEF CancelledAtFork
<1>10. CASE FailureWritten
  <2>1. UNCHANGED <<resolved, guessed, dropping>>
    BY <1>10 DEF FailureWritten, FailureSeen
  <2>2. CASE Open = {}
    BY <1>10, <2>1, <2>2 DEF FailureWritten, FailureSeen
  <2>3. CASE Open # {}
    <3>1. PICK k \in Guesses : Squash(k)
      BY <1>10, <2>3 DEF FailureWritten, FailureSeen, Open
    <3> QED
      BY <2>1, <3>1, SquashKeepsTypes
  <2> QED
    BY <2>2, <2>3
<1>11. CASE FailureUnwritten
  <2>1. UNCHANGED <<resolved, guessed, dropping>>
    BY <1>11 DEF FailureUnwritten, FailureSeen
  <2>2. CASE Open = {}
    BY <1>11, <2>1, <2>2 DEF FailureUnwritten, FailureSeen
  <2>3. CASE Open # {}
    <3>1. PICK k \in Guesses : Squash(k)
      BY <1>11, <2>3 DEF FailureUnwritten, FailureSeen, Open
    <3> QED
      BY <2>1, <3>1, SquashKeepsTypes
  <2> QED
    BY <2>2, <2>3
<1>12. CASE CleanUp
  <2>1. Kept \in SUBSET Guesses /\ Drop("turn", Kept, queue)
    BY <1>12 DEF Kept, CleanUp
  <2>2. Closes(Kept) \subseteq Kept
    BY <2>1, DropEffect
  <2>3. dropping' \in [{"turn", "node"} -> SUBSET Guesses]
    BY <2>1 DEF Drop
  <2>4. guess' = [g \in Guesses |-> IF g \in Closes(Kept) THEN "dropped" ELSE guess[g]]
        /\ held' = [g \in Guesses |-> held[g] /\ g \notin Closes(Kept)]
    BY <2>1, DropEffect
  <2>5. held' \in [Guesses -> BOOLEAN]
    BY <2>4
  <2>6. guess' \in [Guesses -> {"none", "forking", "open", "confirmed", "adopted", "squashed", "dropped"}]
    BY <2>4
  <2>7. resolved' = resolved /\ guessed' = guessed /\ squashing' = squashing
    BY <1>12 DEF CleanUp
  <2>8. task' \in [Guesses -> {"none", "request", "read", "stage", "ack", "done", "gone"}]
    BY <1>12 DEF CleanUp, Abandon
  <2> QED
    BY <2>3, <2>5, <2>6, <2>7, <2>8
<1>13. CASE AdoptNothing
  BY <1>13 DEF AdoptNothing, AtResult, Adopt
<1>14. ASSUME NEW k \in Guesses, AdoptionWritten(k)
      PROVE  TypeOfGuesses'
  BY <1>14 DEF AdoptionWritten, Adopt
<1>15. CASE StopSettling
  <2>1. Kept \in SUBSET Guesses /\ Drop("turn", Kept, queue)
    BY <1>15 DEF Kept, StopSettling
  <2>2. Closes(Kept) \subseteq Kept
    BY <2>1, DropEffect
  <2>3. dropping' \in [{"turn", "node"} -> SUBSET Guesses]
    BY <2>1 DEF Drop
  <2>4. guess' = [g \in Guesses |-> IF g \in Closes(Kept) THEN "dropped" ELSE guess[g]]
        /\ held' = [g \in Guesses |-> held[g] /\ g \notin Closes(Kept)]
    BY <2>1, DropEffect
  <2>5. held' \in [Guesses -> BOOLEAN]
    BY <2>4
  <2>6. guess' \in [Guesses -> {"none", "forking", "open", "confirmed", "adopted", "squashed", "dropped"}]
    BY <2>4
  <2>7. resolved' = resolved /\ guessed' = guessed /\ squashing' = squashing
    BY <1>15 DEF StopSettling
  <2>8. task' \in [Guesses -> {"none", "request", "read", "stage", "ack", "done", "gone"}]
    BY <1>15 DEF StopSettling
  <2> QED
    BY <2>3, <2>5, <2>6, <2>7, <2>8
<1>16. CASE SettlingStopped
  BY <1>16 DEF SettlingStopped, Abandon
<1>17. ASSUME NEW k \in Guesses, SquashResolved(k)
      PROVE  TypeOfGuesses'
  BY <1>17 DEF SquashResolved
<1>18. ASSUME NEW k \in Guesses, NEW who \in {"turn", "node"}, DropDiscarded(who, k)
      PROVE  TypeOfGuesses'
  <2>1. CASE ~over
    BY <1>18, <2>1 DEF DropDiscarded
  <2>2. CASE over
    <3>1. PICK D : D = dropping[who] \ {k}
      OBVIOUS
    <3>2. D \in SUBSET Guesses /\ Drop(who, D, Tail(queue))
      BY <1>18, <2>2, <3>1 DEF DropDiscarded
    <3>3. dropping' \in [{"turn", "node"} -> SUBSET Guesses]
      BY <3>2 DEF Drop
    <3>4. guess' = [g \in Guesses |-> IF g \in Closes(D) THEN "dropped" ELSE guess[g]]
          /\ held' = [g \in Guesses |-> held[g] /\ g \notin Closes(D)]
      BY <3>2, DropEffect
    <3>5. held' \in [Guesses -> BOOLEAN]
      BY <3>4
    <3>6. guess' \in [Guesses -> {"none", "forking", "open", "confirmed", "adopted", "squashed", "dropped"}]
      BY <3>4
    <3>7. guessed' = guessed /\ squashing' = squashing /\ task' = task /\ resolved' = resolved
      BY <1>18 DEF DropDiscarded
    <3> QED
      BY <3>3, <3>5, <3>6, <3>7
  <2> QED
    BY <2>1, <2>2
<1>19. ASSUME NEW k \in Guesses, NEW who \in {"turn", "node"}, DropResolved(who, k)
      PROVE  TypeOfGuesses'
  <2>1. PICK D : D = dropping[who] \ {k}
    OBVIOUS
  <2>2. D \in SUBSET Guesses /\ Drop(who, D, Tail(queue))
    BY <1>19, <2>1 DEF DropResolved
  <2>3. dropping' \in [{"turn", "node"} -> SUBSET Guesses]
    BY <2>2 DEF Drop
  <2>4. guess' = [g \in Guesses |-> IF g \in Closes(D) THEN "dropped" ELSE guess[g]]
        /\ held' = [g \in Guesses |-> held[g] /\ g \notin Closes(D)]
    BY <2>2, DropEffect
  <2>5. held' \in [Guesses -> BOOLEAN]
    BY <2>4
  <2>6. guess' \in [Guesses -> {"none", "forking", "open", "confirmed", "adopted", "squashed", "dropped"}]
    BY <2>4
  <2>7. guessed' = guessed /\ squashing' = squashing /\ task' = task
        /\ resolved' \in [Guesses -> {"none", "forked", "confirmed", "squashed"}]
    BY <1>19 DEF DropResolved
  <2> QED
    BY <2>3, <2>5, <2>6, <2>7
<1>20. ASSUME NEW k \in Guesses, GuessRequested(k)
      PROVE  TypeOfGuesses'
  BY <1>20 DEF GuessRequested
<1>21. ASSUME NEW k \in Guesses, GuessReads(k)
      PROVE  TypeOfGuesses'
  BY <1>21 DEF GuessReads
<1>22. ASSUME NEW k \in Guesses, GuessStaged(k)
      PROVE  TypeOfGuesses'
  BY <1>22 DEF GuessStaged
<1>23. ASSUME NEW k \in Guesses, GuessReleased(k)
      PROVE  TypeOfGuesses'
  BY <1>23 DEF GuessReleased
<1>24. CASE LeaveSquash
  BY <1>24 DEF LeaveSquash, Squash, NothingUnderWay, Open
<1>25. CASE LeaveDrop
  <2>1. Kept \in SUBSET Guesses /\ Drop("node", Kept, queue)
    BY <1>25 DEF Kept, LeaveDrop
  <2>2. Closes(Kept) \subseteq Kept
    BY <2>1, DropEffect
  <2>3. dropping' \in [{"turn", "node"} -> SUBSET Guesses]
    BY <2>1 DEF Drop
  <2>4. guess' = [g \in Guesses |-> IF g \in Closes(Kept) THEN "dropped" ELSE guess[g]]
        /\ held' = [g \in Guesses |-> held[g] /\ g \notin Closes(Kept)]
    BY <2>1, DropEffect
  <2>5. held' \in [Guesses -> BOOLEAN]
    BY <2>4
  <2>6. guess' \in [Guesses -> {"none", "forking", "open", "confirmed", "adopted", "squashed", "dropped"}]
    BY <2>4
  <2>7. resolved' = resolved /\ guessed' = guessed /\ squashing' = squashing
    BY <1>25 DEF LeaveDrop
  <2>8. task' \in [Guesses -> {"none", "request", "read", "stage", "ack", "done", "gone"}]
    BY <1>25 DEF LeaveDrop
  <2> QED
    BY <2>3, <2>5, <2>6, <2>7, <2>8
<1>26. ASSUME NEW k \in Guesses, SquashDiscarded(k)
       PROVE  TypeOfGuesses'
  BY <1>26, Numbers DEF SquashDiscarded, CallCancelled
<1> HIDE DEF TypeOfGuesses, turnVars, guessVars, nodeVars, runVars, schedulerElse
<1> QED
  BY <1>1, <1>2, <1>3, <1>4, <1>5, <1>6, <1>7, <1>8, <1>9, <1>10, <1>11, <1>12, <1>13, <1>14,
    <1>15, <1>16, <1>17, <1>18, <1>19, <1>20, <1>21, <1>22, <1>23, <1>24, <1>25, <1>26,
    GuessMoves

\* Who moves the node's branch and the scheduler.
LEMMA BranchSteps ==
  ASSUME [Next]_vars
  PROVE  \/ UNCHANGED <<own, node, list, settled, world, run, sending, parked, confirmed, over>>
        \/ AdoptNothing \/ (\E k \in Guesses : AdoptionWritten(k))
        \/ (\E k \in Blocks : RequestWritten(k)) \/ ReadInOrder
        \/ (\E k \in Blocks : StageWritten(k)) \/ (\E k \in Blocks : EarlyRead(k))
        \/ (\E k \in Guesses : GuessReads(k)) \/ OwnRequested \/ OwnStaged \/ NodeWrites
        \/ NodeRequested \/ NodeStaged \/ NodeReturns \/ LeaveSquash \/ LeaveDrop
        \/ NodeDone \/ Wakes \/ NodeConfirmed \/ (\E e \in Calls : Claim(e)) \/ Claimed
        \/ Deliver \/ Settled \/ DrainOver \/ Retired \/ EndDrive
<1>1. CASE TurnStep
  BY <1>1 DEF TurnStep, BlockUnguessed, BlockConfirms, BlockMisses, MissIsOver, NoGuess, Guess,
    CutIsOver, ReplyEnds, ReplyUnwritten, EndIsOver, FailureUnwritten, CleanUp, TurnFails,
    BeginAdoption, AwaitEarly, SlotDone, MakeCall, Acknowledged, TurnDone, SettleFails,
    StopSettling, SettlingStopped, FailureSeen, StaysApart, turnVars, guessVars, nodeVars,
    runVars
<1>2. CASE Stopping
  BY <1>2 DEF Stopping, StreamFails, CancelledAtEnd, SettleFails, turnVars, guessVars, nodeVars,
    runVars
<1>3. CASE Written
  <2>1. CASE \/ (\E k \in Guesses : ConfirmWritten(k))
             \/ (\E k \in Guesses : ForkWritten(k))
             \/ (\E k \in Guesses : CancelledAtConfirm(k))
             \/ (\E k \in Guesses : CancelledAtFork(k))
             \/ (\E k \in Guesses : SquashDiscarded(k))
    BY <2>1 DEF ConfirmWritten, ForkWritten, CancelledAtConfirm, CancelledAtFork,
      SquashDiscarded, FailureSeen, turnVars, guessVars, nodeVars, runVars, schedulerElse
  <2>2. CASE \/ (\E k \in Guesses : SquashResolved(k))
             \/ (\E k \in Guesses, who \in {"turn", "node"} : DropDiscarded(who, k))
             \/ (\E k \in Guesses, who \in {"turn", "node"} : DropResolved(who, k))
             \/ (\E k \in Guesses : GuessRequested(k))
             \/ (\E k \in Guesses : GuessStaged(k))
    BY <2>2 DEF SquashResolved, DropDiscarded, DropResolved, GuessRequested, GuessStaged,
      FailureSeen, turnVars, guessVars, nodeVars, runVars, schedulerElse
  <2>3. CASE AnswerWritten \/ CancelledAtAnswer \/ FailureWritten \/ NobodyWaits
    BY <2>3 DEF AnswerWritten, CancelledAtAnswer, FailureWritten, NobodyWaits, FailureSeen,
      turnVars, guessVars, nodeVars, runVars, schedulerElse
  <2> QED
    BY <1>3, <2>1, <2>2, <2>3 DEF Written
<1>4. CASE Beside
  BY <1>4 DEF Beside, GuessReleased, turnVars, guessVars, nodeVars, runVars
<1>5. CASE NodeStep
  BY <1>5 DEF NodeStep, turnVars, guessVars, nodeVars, runVars
<1>6. CASE RunStep
  BY <1>6 DEF RunStep, turnVars, guessVars, nodeVars, runVars, schedulerElse
<1> QED
  BY <1>1, <1>2, <1>3, <1>4, <1>5, <1>6 DEF Next, AnswerArrives, Finished, vars, turnVars,
    guessVars, nodeVars, runVars

LEMMA TypeOfBranchKept ==
  ASSUME EntriesAreDue, TypeOfTurn, TypeOfGuesses, TypeOfBranch, Phases, Draining, [Next]_vars
  PROVE  TypeOfBranch'
<1> USE DEF TypeOfBranch, turnVars, guessVars, nodeVars, runVars, schedulerElse
<1>1. CASE UNCHANGED <<own, node, list, settled, world, run, sending, parked, confirmed, over>>
  BY <1>1
<1>2. CASE AdoptNothing
  BY <1>2, Numbers DEF AdoptNothing, AtResult, Adopt, Kept
<1>3. ASSUME NEW k \in Guesses, AdoptionWritten(k)
      PROVE  TypeOfBranch'
  BY <1>3, WrittenWhenDue, Numbers DEF AdoptionWritten, Adopt
<1>4. ASSUME NEW k \in Blocks, RequestWritten(k)
      PROVE  TypeOfBranch'
  <2>1. k \in Own .. Later
    BY Numbers
  <2>2. list' \in {list, list \cup {k}} /\ own' \in {own, "stage", "done"}
    BY <1>4 DEF RequestWritten
  <2>3. UNCHANGED <<node, settled, world, run, sending, parked, confirmed, over>>
    BY <1>4 DEF RequestWritten
  <2> QED
    BY <2>1, <2>2, <2>3
<1>5. CASE ReadInOrder
  BY <1>5, Numbers DEF ReadInOrder, TypeOfTurn, Phases, Settling
<1>6. ASSUME NEW k \in Blocks, StageWritten(k)
      PROVE  TypeOfBranch'
  BY <1>6, WrittenWhenDue DEF StageWritten
<1>7. ASSUME NEW k \in Blocks, EarlyRead(k)
      PROVE  TypeOfBranch'
  BY <1>7, Numbers DEF EarlyRead
<1>8. ASSUME NEW k \in Guesses, GuessReads(k)
      PROVE  TypeOfBranch'
  <2>1. guessed[k] \in Calls
    BY DEF TypeOfGuesses
  <2> QED
    BY <1>8, <2>1, Numbers DEF GuessReads
<1>9. CASE OwnRequested
  <2>1. Own \in Own .. Later
    BY Numbers
  <2>2. list' \in {list, list \cup {Own}} /\ own' \in {own, "stage", "done"}
    BY <1>9 DEF OwnRequested
  <2>3. UNCHANGED <<node, settled, world, run, sending, parked, confirmed, over>>
    BY <1>9 DEF OwnRequested
  <2> QED
    BY <2>1, <2>2, <2>3
<1>10. CASE OwnStaged
  BY <1>10, WrittenWhenDue DEF OwnStaged
<1>11. CASE NodeWrites
  BY <1>11 DEF NodeWrites
<1>12. CASE NodeRequested
  BY <1>12, WrittenWhenDue, Numbers DEF NodeRequested
<1>13. CASE NodeStaged
  BY <1>13, WrittenWhenDue DEF NodeStaged
<1>14. CASE NodeReturns
  BY <1>14 DEF NodeReturns
<1>15. CASE LeaveSquash
  BY <1>15 DEF LeaveSquash, Squash, NothingUnderWay
<1>16. CASE LeaveDrop
  BY <1>16 DEF LeaveDrop, NothingUnderWay
<1>17. CASE NodeDone
  BY <1>17 DEF NodeDone
<1>18. CASE Wakes
  BY <1>18 DEF Wakes, NodeAtRest
<1>19. CASE NodeConfirmed
  BY <1>19, WrittenWhenDue DEF NodeConfirmed
<1>20. ASSUME NEW e \in Calls, Claim(e)
      PROVE  TypeOfBranch'
  BY <1>20 DEF Claim, FirstPending, Pending
<1>21. CASE Claimed
  BY <1>21, WrittenWhenDue DEF Claimed
<1>22. CASE Deliver
  BY <1>22, Numbers DEF Deliver
<1>23. CASE Settled
  BY <1>23, WrittenWhenDue DEF Settled, Draining
<1>24. CASE DrainOver
  BY <1>24 DEF DrainOver, Pending
<1>25. CASE Retired
  BY <1>25, WrittenWhenDue DEF Retired
<1>26. CASE EndDrive
  BY <1>26 DEF EndDrive
<1> HIDE DEF TypeOfBranch, turnVars, guessVars, nodeVars, runVars, schedulerElse
<1> QED
  BY <1>1, <1>2, <1>3, <1>4, <1>5, <1>6, <1>7, <1>8, <1>9, <1>10, <1>11, <1>12, <1>13, <1>14,
    <1>15, <1>16, <1>17, <1>18, <1>19, <1>20, <1>21, <1>22, <1>23, <1>24, <1>25, <1>26,
    BranchSteps

\* The branch's program position stays among the turn's.
LEMMA CursorInRange ==
  ASSUME TypeOfTurn, TypeOfBranch, Places
  PROVE  cursor \in Base .. Base + Asked + 1
<1>1. CASE ~Returned
  BY <1>1, Numbers DEF TypeOfTurn, TurnStates, TypeOfBranch, Places, OfNode, Streaming, Passed, Settling
<1>2. CASE Returned
  BY <1>2, Numbers DEF TypeOfBranch, Places
<1> QED
  BY <1>1, <1>2

\* Every variable keeps its type.
LEMMA TypeKept ==
  ASSUME TurnInv, [Next]_vars, EntriesAreDue', Places'
  PROVE  TypeOK'
<1>1. TypeOfTurn /\ TypeOfGuesses /\ TypeOfBranch
  BY TypeParts DEF TurnInv
<1>2. TypeOfTurn'
  BY <1>1, TypeOfTurnKept DEF TurnInv
<1>3. TypeOfGuesses'
  BY <1>1, TypeOfGuessesKept
<1>4. TypeOfBranch'
  BY <1>1, TypeOfBranchKept DEF TurnInv
<1>5. (cursor \in Base .. Base + Asked + 1)'
  BY <1>2, <1>4, CursorInRange, PTL
<1>6. queue' \in Seq(Jobs)
  BY DEF EntriesAreDue, Queued
<1> QED
  BY <1>2, <1>3, <1>4, <1>5, <1>6 DEF TypeOK, TypeOfTurn, TypeOfGuesses, TypeOfBranch

(***************************************************************************)
(* The invariant holds, and what follows from it.                          *)
(***************************************************************************)

LEMMA Initially == Init => TurnInv
<1> SUFFICES ASSUME Init
             PROVE  TurnInv
  OBVIOUS
<1> PICK j : j = Job("own", "request", 0)
  OBVIOUS
<1>1. j \in Jobs /\ j.by = "own" /\ j.what = "request" /\ j.of = 0
  BY JobIs, Numbers DEF Job
<1>2. /\ queue \in Seq(Jobs) /\ (own = "done" => queue = <<>>)
      /\ (own = "request" => queue = <<j>> /\ Head(queue) = j /\ DOMAIN queue = {1} /\ queue[1] = j)
  BY <1>1 DEF Init
<1>3. TypeOK
  <2>0. Asked \in Nat /\ Own = 0 /\ Later = Asked + 1
    BY Numbers
  <2>1. TypeOfTurn
    <3>1. turn = "none" /\ pc = "stream" /\ got = 0 /\ at = 1 /\ early = {} /\ answered = FALSE
      BY DEF Init
    <3> QED
      <4>1. turn \in {"none", "answered", "failed"}
        BY <3>1
      <4>2. pc \in TurnStates
        BY <3>1 DEF TurnStates
      <4>3. got \in 0 .. Asked
        BY <3>1, <2>0
      <4>4. at \in 1 .. Asked + 1
        BY <3>1, <2>0
      <4>5. early \subseteq Reads \ Dependent /\ answered \in BOOLEAN
        BY <3>1
      <4> QED
        BY <4>1, <4>2, <4>3, <4>4, <4>5 DEF TypeOfTurn
  <2>2. TypeOfGuesses
    BY Numbers DEF Init, TypeOfGuesses
  <2>3. TypeOfBranch
    <3>1. /\ own \in {"request", "done"} /\ node = "turn" /\ list = {} /\ settled = {} /\ world = <<>>
          /\ run = "quiesce" /\ sending = Own /\ parked = FALSE /\ confirmed = FALSE /\ over = FALSE
      BY DEF Init
    <3> QED
      <4>1. list \subseteq Own .. Later /\ settled \subseteq list /\ world \in Seq(Calls)
        BY <3>1
      <4>2. sending \in Own .. Later
        BY <3>1, <2>0
      <4>3. parked \in BOOLEAN /\ confirmed \in BOOLEAN /\ over \in BOOLEAN
        BY <3>1
      <4> QED
        BY <3>1, <4>1, <4>2, <4>3 DEF TypeOfBranch
  <2>4. queue \in Seq(Jobs) /\ cursor \in Base .. Base + Asked + 1
    BY <1>2, Numbers DEF Init
  <2> QED
    BY <2>1, <2>2, <2>3, <2>4 DEF TypeOK, TypeOfTurn, TypeOfGuesses, TypeOfBranch
<1>4. EntriesAreDue
  <2>1. CASE own = "done"
    BY <1>2, <2>1 DEF EntriesAreDue, Queued
  <2>2. CASE own = "request"
    BY <1>1, <1>2, <2>2 DEF EntriesAreDue, Queued, DueJobs, Due
  <2> QED
    BY <2>1, <2>2 DEF Init
<1>5. InTurn
  BY <1>2 DEF Init, InTurn
<1>6. OwnFirst /\ Phases /\ Discarding /\ LaterLast
  BY Numbers DEF Init, OwnFirst, Phases, Discarding, LaterLast, Kept, UnderWay, Streaming, Settling, Passed
<1>7. Guessing /\ Tasks
  BY Numbers DEF Init, Guessing, GuessOf, Tasks
<1>8. Progress /\ Places
  BY Numbers DEF Init, Progress, Places, Undecided, Returned, OfNode, Streaming, Settling, Passed
<1>9. Draining
  BY DEF Init, Draining, Sent
<1>10. Upstream
  <2>1. world = <<>> /\ run # "settle" /\ settled = {} /\ at = 1
    BY DEF Init
  <2>2. DOMAIN world = {}
    BY <2>1
  <2>3. InWorld = {}
    BY <2>2 DEF InWorld
  <2>4. Sent = {}
    BY <2>1 DEF Sent
  <2>5. {k \in TrulyDependent : k < at} = {}
    <3>1. \A k \in TrulyDependent : k \in Nat /\ ~(k < 1)
      BY Numbers
    <3> QED
      BY <2>1, <3>1
  <2> QED
    BY <2>2, <2>3, <2>4, <2>5 DEF Upstream
<1>11. Astray
  <2>1. Open = {} /\ squashing = 0 /\ DOMAIN world = {}
    BY DEF Init, Open
  <2> QED
    BY <2>1 DEF Init, Astray, Straying, StrayCall
<1> QED
  BY <1>3, <1>4, <1>5, <1>6, <1>7, <1>8, <1>9, <1>10, <1>11 DEF TurnInv

LEMMA NextKeeps == TurnInv /\ [Next]_vars => TurnInv'
<1> SUFFICES ASSUME TurnInv, [Next]_vars
             PROVE  TurnInv'
  OBVIOUS
<1>1. /\ TypeOK /\ EntriesAreDue /\ InTurn /\ OwnFirst /\ Phases /\ Discarding /\ Guessing
      /\ Tasks /\ Progress /\ LaterLast /\ Places /\ Draining /\ Upstream /\ Astray
  BY DEF TurnInv
<1>2. EntriesAreDue'
  BY <1>1, EntriesKept
<1>3. InTurn' /\ OwnFirst'
  BY <1>1, InTurnKept, OwnFirstKept
<1>4. Phases' /\ Discarding' /\ Guessing'
  BY <1>1, PhasesKept, DiscardingKept, GuessingKept
<1>5. Tasks' /\ Progress'
  BY <1>1, TasksKept, ProgressKept
<1>6. LaterLast' /\ Places'
  BY <1>1, LaterLastKept, PlacesKept
<1>7. Draining' /\ Upstream'
  BY <1>1, DrainingKept, UpstreamKept
<1>8. TypeOK'
  BY <1>2, <1>6, TypeKept
<1>9. Astray'
  BY <1>1, AstrayKept
<1> QED
  BY <1>2, <1>3, <1>4, <1>5, <1>6, <1>7, <1>8, <1>9 DEF TurnInv

\* A turn, its guesses, its node and the scheduler stay where each other's state
\* says they are.
THEOREM Invariance == Spec => []TurnInv
BY Initially, NextKeeps, PTL DEF Spec

\* Every variable of a turn keeps its type, for any reply and any tools.
THEOREM TypeCorrect == Spec => []TypeOK
<1>1. TurnInv => TypeOK
  BY DEF TurnInv
<1> QED
  BY <1>1, Invariance, PTL

\* Whose order matters: what the turn decided, and the node's own writes.
LEMMA Ordered ==
  /\ Decided \subseteq Blocks /\ Decided = Blocks \ (Reads \ TrulyDependent)
  /\ OrderMatters(Own) /\ OrderMatters(Later)
  /\ \A c \in Blocks : OrderMatters(c) <=> c \in Decided
  /\ \A c \in (Own .. Later) \cup Strays : OrderMatters(c) => c \in Own .. Later
  /\ \A c : OrderMatters(c) <=> c \notin Free
<1>1. Own \notin Strays /\ Later \notin Strays /\ Blocks \cap Strays = {}
  BY WrongGuesses, Numbers
<1>2. Own \notin Reads /\ Later \notin Reads
  BY Numbers
<1> QED
  BY <1>1, <1>2, Numbers DEF Decided, OrderMatters, Free

\* What is upstream of the reply was decided: the reply is on disk by then.
LEMMA SentIsDecided ==
  ASSUME TurnInv, NEW c \in InWorld, c \in Blocks, OrderMatters(c)
  PROVE  turn = "answered" /\ ~Undecided
<1>1. c \in Sent \cup {k \in TrulyDependent : k < at}
  BY Ordered DEF TurnInv, Upstream
<1>2. CASE c \in Sent
  <2>1. c \in list
    BY <1>2 DEF TurnInv, Sent, Draining, TypeOK
  <2> QED
    BY <2>1 DEF TurnInv, Progress, Undecided
<1>3. CASE c < at
  <2>1. at # 1
    BY <1>3, Numbers
  <2> QED
    BY <2>1 DEF TurnInv, Progress, Undecided
<1> QED
  BY <1>1, <1>2, <1>3

\* The hazard analysis errs on one side: a read that a write emitted before it truly
\* changes is neither issued as soon as it parses (_reads_a_pending_write) nor guessed
\* at (analyse), whatever the tools are, as long as they touch only what they say.
THEOREM AnalysisIsSound ==
  \A k \in TrulyDependent : k \in Dependent /\ Hazard(Reply[k], k - 1) # "none"
<1> SUFFICES ASSUME NEW k \in TrulyDependent
             PROVE  k \in Dependent /\ Hazard(Reply[k], k - 1) # "none"
  OBVIOUS
<1>1. k \in Blocks /\ k \in Dependent
  BY TrulyDependentIsDependent, Numbers
<1> QED
  BY <1>1, GuessableIsIndependent

\* Nothing the turn decided is sent before - or without - its reply being the
\* turn's last word on disk; of what was only guessed nothing is sent but reads, and
\* those before anything the turn decided or its node writes next: for any reply,
\* tools and guesses, and any interleaving of guesses, squashes, failures and drains.
THEOREM OnlyWhatIsDecided == Spec => []OnlyDecidedCallsSent
<1>1. TurnInv => OnlyDecidedCallsSent
  <2> SUFFICES ASSUME TurnInv, NEW i \in DOMAIN world
               PROVE  /\ world[i] \in Own .. Later \/ world[i] \in Strays
                      /\ world[i] \in Decided => turn = "answered"
                      /\ world[i] \in Strays =>
                           \A j \in 1 .. i - 1 : world[j] \notin Decided \cup {Later}
    BY DEF OnlyDecidedCallsSent
  <2>1. world[i] \in InWorld
    BY DEF InWorld
  <2>2. world[i] \in Own .. Later \/ world[i] \in Strays
    BY <2>1 DEF TurnInv, Upstream
  <2>3. world[i] \in Decided => turn = "answered"
    BY <2>1, Ordered, SentIsDecided
  <2>4. world[i] \in Strays => \A j \in 1 .. i - 1 : world[j] \notin Decided \cup {Later}
    BY DEF TurnInv, Astray
  <2> QED
    BY <2>2, <2>3, <2>4
<1> QED
  BY <1>1, Invariance, PTL

\* Writes, and the reads that depend on them, reach the world in program order,
\* whichever were guessed, issued early or left running.
THEOREM ProgramOrder == Spec => []SentInProgramOrder
<1>1. TurnInv => SentInProgramOrder
  <2> SUFFICES ASSUME TurnInv, NEW i \in DOMAIN world, NEW j \in DOMAIN world, i < j,
                      OrderMatters(world[i]), OrderMatters(world[j])
               PROVE  Position(world[i]) < Position(world[j])
    BY DEF SentInProgramOrder
  <2>1. PICK a, b : a = world[i] /\ b = world[j]
    OBVIOUS
  <2>2. a \in InWorld /\ b \in InWorld /\ a \in Own .. Later /\ b \in Own .. Later /\ a < b
    <3>1. a \in InWorld /\ b \in InWorld /\ a < b
      BY <2>1 DEF TurnInv, Upstream, InWorld
    <3> QED
      BY <2>1, <3>1, Ordered DEF TurnInv, Upstream
  <2>3. cursor \in Int
    BY Numbers DEF TurnInv, TypeOK
  <2>4. CASE b # Later
    <3>1. b \in Blocks /\ (a = Own \/ a \in Blocks)
      BY <2>2, <2>4, Numbers
    <3> QED
      BY <2>1, <2>2, <3>1, PositionOf, Numbers
  <2>5. CASE b = Later
    <3>1. b \notin TrulyDependent /\ b \notin Free
      BY <2>5, Ordered, Numbers
    <3>2. Later \in list
      BY <2>2, <2>5, <3>1 DEF TurnInv, Upstream, Sent, Draining, TypeOK
    <3>3. cursor = Base + Asked + 1 \/ (cursor = Base + 1 /\ Undecided)
      BY <3>2 DEF TurnInv, LaterLast
    <3>4. CASE a = Own
      BY <2>1, <2>5, <3>3, <3>4, PositionOf, Numbers
    <3>5. CASE a \in Blocks
      <4>1. ~Undecided
        BY <2>1, <2>2, <3>5, SentIsDecided
      <4> QED
        BY <2>1, <2>5, <3>3, <3>5, <4>1, PositionOf, Numbers
    <3> QED
      BY <2>2, <2>5, <3>4, <3>5, Numbers
  <2> QED
    BY <2>4, <2>5
<1> QED
  BY <1>1, Invariance, PTL

\* Once the node has retired every write staged on its branch has been sent, nobody
\* waits for an acknowledgement, and no guess holds a write that nothing discards.
THEOREM NothingLost == Spec => []NothingIsLost
<1>1. TurnInv => NothingIsLost
  <2> SUFFICES ASSUME TurnInv, run = "retired"
               PROVE  /\ list = settled
                      /\ own = "done"
                      /\ pc = "ack" => at \in settled
                      /\ \A k \in Guesses :
                           /\ held[k] => k \in dropping["turn"]
                           /\ task[k] = "ack" => k \in settled \/ Closed(k) \/ k \in dropping["turn"]
    BY DEF NothingIsLost
  <2>1. node = "done" /\ list = settled
    BY DEF TurnInv, Phases
  <2>2. own = "done"
    BY <2>1 DEF TurnInv, TypeOK, OwnFirst
  <2>3. pc = "ack" => at \in settled
    BY <2>1 DEF TurnInv, Progress
  <2>4. dropping["node"] = {} /\ Kept = {}
    BY <2>1 DEF TurnInv, Discarding
  <2>5. ASSUME NEW k \in Guesses, held[k]
        PROVE  k \in dropping["turn"]
    <3>1. guess[k] = "confirmed"
      BY <2>1, <2>5 DEF TurnInv, Guessing, GuessOf
    <3> QED
      BY <2>4, <3>1 DEF Kept
  <2>6. ASSUME NEW k \in Guesses, task[k] = "ack"
        PROVE  k \in settled \/ Closed(k) \/ k \in dropping["turn"]
    BY <2>1, <2>5, <2>6 DEF TurnInv, Tasks
  <2> QED
    BY <2>1, <2>2, <2>3, <2>5, <2>6
<1> QED
  BY <1>1, Invariance, PTL

\* Where a retired node's branch ends up does not tell how many blocks had arrived
\* when its turn failed or was left.
THEOREM NoTimingInPositions == Spec => []PositionsAreNotTiming
<1>1. TurnInv => PositionsAreNotTiming
  BY DEF TurnInv, Phases, Places, PositionsAreNotTiming, Returned
<1> QED
  BY <1>1, Invariance, PTL


(***************************************************************************)
(* What the world sees of a turn is a turn that does not speculate.        *)
(***************************************************************************)

\* The steps the world, or the reply's outcome, can tell.
LEMMA VisibleSteps ==
  ASSUME [Next]_vars
  PROVE  \/ UNCHANGED <<world, turn>>
        \/ AnswerWritten \/ CancelledAtAnswer \/ FailureWritten \/ ReadInOrder \/ Deliver
        \/ (\E k \in Blocks : EarlyRead(k)) \/ (\E k \in Guesses : GuessReads(k))
<1>1. \/ UNCHANGED world
      \/ ReadInOrder \/ Deliver
      \/ (\E k \in Blocks : EarlyRead(k)) \/ (\E k \in Guesses : GuessReads(k))
  <2>1. ASSUME AnswerWritten \/ SlotDone \/ Acknowledged \/ Wakes \/ NodeConfirmed
                 \/ (\E e \in Calls : Claim(e)) \/ Claimed \/ Settled \/ DrainOver \/ Retired
        PROVE  UNCHANGED world
    BY <2>1 DEF AnswerWritten, SlotDone, Acknowledged, Wakes, NodeConfirmed, Claim, Claimed, Settled,
      DrainOver, Retired, schedulerElse
  <2> QED
    BY <2>1, WorldSteps
<1>2. UNCHANGED turn \/ AnswerWritten \/ CancelledAtAnswer \/ FailureWritten
  <2>1. ASSUME AnswerArrives \/ BlockUnguessed \/ BlockConfirms \/ BlockMisses \/ MissIsOver
                 \/ (\E k \in Guesses : ConfirmWritten(k)) \/ NoGuess
                 \/ (\E hit \in BOOLEAN : Guess(hit)) \/ (\E k \in Guesses : ForkWritten(k))
                 \/ CutIsOver \/ ReplyEnds \/ ReplyUnwritten \/ EndIsOver \/ StreamFails
                 \/ (\E k \in Guesses : CancelledAtConfirm(k))
                 \/ (\E k \in Guesses : CancelledAtFork(k))
        PROVE  UNCHANGED turn
    BY <2>1 DEF AnswerArrives, BlockUnguessed, BlockConfirms, BlockMisses, MissIsOver, ConfirmWritten,
      NoGuess, Guess, ForkWritten, CutIsOver, ReplyEnds, ReplyUnwritten, EndIsOver, StreamFails,
      CancelledAtConfirm, CancelledAtFork, TakeBlock
  <2>2. ASSUME FailureUnwritten \/ CleanUp \/ TurnFails \/ BeginAdoption \/ AdoptNothing
                 \/ (\E k \in Guesses : AdoptionWritten(k)) \/ AwaitEarly \/ SlotDone \/ MakeCall
                 \/ (\E k \in Blocks : RequestWritten(k)) \/ ReadInOrder
                 \/ (\E k \in Blocks : StageWritten(k)) \/ Acknowledged \/ TurnDone \/ SettleFails
                 \/ StopSettling \/ SettlingStopped \/ CancelledAtEnd
                 \/ (\E k \in Blocks : EarlyRead(k))
        PROVE  UNCHANGED turn
    BY <2>2 DEF FailureUnwritten, CleanUp, TurnFails, BeginAdoption, AdoptNothing, AdoptionWritten,
      AwaitEarly, SlotDone, MakeCall, RequestWritten, ReadInOrder, StageWritten, Acknowledged,
      TurnDone, SettleFails, StopSettling, SettlingStopped, CancelledAtEnd, EarlyRead
  <2> QED
    BY <2>1, <2>2, TurnSteps
<1> QED
  BY <1>1, <1>2

LEMMA SameWorld ==
  /\ Sequential!Made = InWorld
  /\ Sequential!Commuting = Reads \ TrulyDependent
  /\ Sequential!InOrder = Blocks \ (Reads \ TrulyDependent)
  /\ Sequential!InOrder = Decided
  /\ Sequential!SeqOwn = Own /\ Sequential!SeqLater = Later
BY Ordered DEF Sequential!Made, Sequential!Commuting, Sequential!InOrder, Sequential!SeqOwn,
  Sequential!SeqLater, InWorld, Blocks, Own, Later

\* What is made in order is made after everything in order that is upstream already.
LEMMA LastInOrder ==
  ASSUME TypeOK, Upstream', NEW x, world' = Append(world, x), OrderMatters(x),
         NEW c \in InWorld, OrderMatters(c)
  PROVE  c < x
<1>1. PICK i \in DOMAIN world : world[i] = c
  BY DEF InWorld
<1>2. /\ i \in DOMAIN world' /\ Len(world) + 1 \in DOMAIN world' /\ i < Len(world) + 1
      /\ world'[i] = c /\ world'[Len(world) + 1] = x
  BY <1>1 DEF TypeOK
<1>3. (\A a, b \in DOMAIN world :
         a < b /\ OrderMatters(world[a]) /\ OrderMatters(world[b]) => world[a] < world[b])'
  BY DEF Upstream
<1> QED
  BY <1>2, <1>3 DEF OrderMatters

\* A block's call is made once the reply is on disk, after all it comes after.
LEMMA BlockInOrder ==
  ASSUME TurnInv, TurnInv', NEW k \in Blocks, OrderMatters(k), world' = Append(world, k),
         UNCHANGED turn, turn = "answered", k <= at
  PROVE  Sequential!MakeBlock(k)
<1>1. \A c \in InWorld : OrderMatters(c) => c < k
  BY LastInOrder DEF TurnInv
<1>2. k \notin InWorld /\ Later \notin InWorld
  <2>1. OrderMatters(Later) /\ k \in Nat /\ ~(Later < k)
    BY Ordered, Numbers
  <2> QED
    BY <1>1, <2>1
<1>3. ASSUME NEW j \in Blocks \ (Reads \ TrulyDependent), j < k
      PROVE  j \in InWorld
  <2>1. j < at
    BY <1>3, Numbers DEF TurnInv, TypeOK
  <2>2. CASE j \in TrulyDependent
    BY <2>1, <2>2 DEF TurnInv, Upstream
  <2>3. CASE j \notin Reads
    BY <2>1, <2>3, WrongGuesses DEF TurnInv, Progress, Sent, Upstream
  <2> QED
    BY <1>3, <2>2, <2>3
<1> QED
  BY <1>2, <1>3, SameWorld DEF Sequential!MakeBlock, Sequential!Make

LEMMA StepIsSequential ==
  ASSUME TurnInv, TurnInv', [Next]_vars
  PROVE  [Sequential!SeqNext]_<<world, turn>>
<1>1. CASE UNCHANGED <<world, turn>>
  BY <1>1
<1>2. CASE AnswerWritten \/ CancelledAtAnswer
  <2>1. pc = "answered" /\ turn' = "answered" /\ world' = world
    BY <1>2, WrittenWhenDue DEF AnswerWritten, CancelledAtAnswer, TurnInv
  <2>2. turn = "none"
    BY <2>1 DEF TurnInv, Phases
  <2>3. \A c \in InWorld : c \in Blocks => ~OrderMatters(c)
    BY <2>2, SentIsDecided
  <2>4. Sequential!TurnOutcome
    BY <2>1, <2>2, <2>3, SameWorld, Ordered DEF Sequential!TurnOutcome
  <2> QED
    BY <2>4 DEF Sequential!SeqNext
<1>3. CASE FailureWritten
  <2>1. pc = "failing" /\ turn' = "failed" /\ world' = world
    BY <1>3, WrittenWhenDue DEF FailureWritten, FailureSeen, TurnInv
  <2>2. turn \in {"none", "answered"} /\ Undecided
    BY <2>1 DEF TurnInv, Phases, Progress, TypeOK, Passed, Settling
  <2>3. \A c \in InWorld : c \in Blocks => ~OrderMatters(c)
    BY <2>2, SentIsDecided
  <2>4. Sequential!TurnOutcome
    BY <2>1, <2>2, <2>3, SameWorld, Ordered DEF Sequential!TurnOutcome
  <2> QED
    BY <2>4 DEF Sequential!SeqNext
<1>4. CASE ReadInOrder
  <2>1. pc = "read" /\ world' = Append(world, at) /\ turn' = turn
    BY <1>4 DEF ReadInOrder
  <2>2. at \in Reads /\ at \in Blocks /\ turn = "answered"
    BY <2>1, Numbers DEF TurnInv, Phases, Progress, Passed, Settling
  <2>3. CASE at \in TrulyDependent
    <3>1. at \in Nat /\ OrderMatters(at)
      BY <2>2, <2>3, Ordered, Numbers DEF Decided
    <3>2. Sequential!MakeBlock(at)
      BY <2>1, <2>2, <3>1, BlockInOrder
    <3> QED
      BY <2>2, <2>3, <3>2, SameWorld DEF Sequential!SeqNext
  <2>4. CASE at \notin TrulyDependent
    BY <2>1, <2>2, <2>4, SameWorld DEF Sequential!SeqNext, Sequential!Make
  <2> QED
    BY <2>3, <2>4
<1>5. ASSUME NEW k \in Blocks, EarlyRead(k)
      PROVE  Sequential!SeqNext
  <2>1. k \in Reads \ TrulyDependent
    BY <1>5, TrulyDependentIsDependent DEF EarlyRead, TurnInv, TypeOK
  <2> QED
    BY <1>5, <2>1, SameWorld DEF EarlyRead, Sequential!SeqNext, Sequential!Make
<1>6. ASSUME NEW k \in Guesses, GuessReads(k)
      PROVE  Sequential!SeqNext
  <2>1. IsRead(guessed[k]) /\ world' = Append(world, guessed[k]) /\ turn' = turn
    BY <1>6 DEF GuessReads, Tasks, TurnInv
  <2>2. CASE guessed[k] = k /\ k \in Reads \ TrulyDependent
    BY <2>1, <2>2, SameWorld DEF Sequential!SeqNext, Sequential!Make
  <2>3. CASE guessed[k] = Stray(k) /\ Stray(k) \in Strays
    <3>1. Len(world) + 1 \in DOMAIN world' /\ world'[Len(world) + 1] = Stray(k)
      BY <2>1, <2>3 DEF TurnInv, TypeOK
    <3>2. \A j \in 1 .. Len(world) : world'[j] \notin Decided \cup {Later}
      <4>1. (\A i \in DOMAIN world : world[i] \in Strays =>
               \A j \in 1 .. i - 1 : world[j] \notin Decided \cup {Later})'
        BY DEF TurnInv, Astray
      <4>2. Len(world) \in Nat /\ Len(world) + 1 - 1 = Len(world)
        BY DEF TurnInv, TypeOK
      <4> QED
        BY <2>3, <3>1, <4>1, <4>2
    <3>3. \A j \in DOMAIN world : j \in 1 .. Len(world) /\ world'[j] = world[j]
      BY <2>1 DEF TurnInv, TypeOK
    <3>4. InWorld \cap (Decided \cup {Later}) = {}
      BY <3>2, <3>3 DEF InWorld
    <3> QED
      BY <2>1, <2>3, <3>4, SameWorld DEF Sequential!SeqNext, Sequential!MakeAside, Sequential!Make
  <2> QED
    BY <2>1, <2>2, <2>3, ReadsGuessed DEF TurnInv
<1>7. CASE Deliver
  <2>1. run = "send" /\ world' = Append(world, sending) /\ UNCHANGED <<list, turn>>
    BY <1>7 DEF Deliver, schedulerElse
  <2>2. sending \in list \ settled /\ sending \in Own .. Later
    BY <2>1 DEF TurnInv, Draining, TypeOK
  <2>3. sending \notin Reads
    BY <2>2, Numbers DEF TurnInv, Progress
  <2>4. OrderMatters(sending) /\ \A c \in InWorld : OrderMatters(c) => c < sending
    <3>1. OrderMatters(sending)
      BY <2>2, <2>3, WrongGuesses DEF OrderMatters
    <3> QED
      BY <2>1, <3>1, LastInOrder DEF TurnInv
  <2>5. CASE sending = Own
    <3>1. \A c \in InWorld : OrderMatters(c) => c \in Nat
      BY Ordered, Numbers DEF TurnInv, Upstream
    <3>2. InWorld \subseteq (Reads \ TrulyDependent) \cup Strays
      BY <2>4, <2>5, <3>1, Numbers DEF OrderMatters
    <3> QED
      BY <2>1, <2>5, <3>2, SameWorld DEF Sequential!SeqNext, Sequential!MakeOwn, Sequential!Make
  <2>6. CASE sending = Later
    <3>1. turn # "none"
      BY <2>2, <2>6 DEF TurnInv, LaterLast
    <3>2. Later \notin InWorld
      BY <2>4, <2>6, Ordered, Numbers
    <3> QED
      BY <2>1, <2>6, <3>1, <3>2, SameWorld DEF Sequential!SeqNext, Sequential!MakeLater, Sequential!Make
  <2>7. CASE sending \in Blocks
    <3>1. turn = "answered" /\ sending <= at
      BY <2>2, <2>7 DEF TurnInv, Progress, Undecided
    <3>2. Sequential!MakeBlock(sending)
      BY <2>1, <2>4, <2>7, <3>1, BlockInOrder
    <3> QED
      BY <2>3, <2>7, <3>2, SameWorld DEF Sequential!SeqNext
  <2> QED
    BY <2>2, <2>5, <2>6, <2>7, Numbers
<1> QED
  BY <1>1, <1>2, <1>3, <1>4, <1>5, <1>6, <1>7, VisibleSteps

\* Whatever is guessed, issued early, missed, failed, cancelled or left running, the
\* world sees the calls of a turn that does not speculate, and before anything it
\* decided the reads that were wrongly guessed: for any reply, tools and guesses.
THEOREM Semantics == Spec => SpeculationPreservesSemantics
<1>1. Init => Sequential!SeqInit
  BY DEF Init, Sequential!SeqInit
<1>2. TurnInv /\ TurnInv' /\ [Next]_vars => [Sequential!SeqNext]_<<world, turn>>
  BY StepIsSequential
<1> QED
  BY <1>1, <1>2, Invariance, PTL DEF Spec, SpeculationPreservesSemantics, Sequential!SeqSpec
=============================================================================
