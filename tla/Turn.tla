-------------------------------- MODULE Turn --------------------------------
(***************************************************************************)
(* One model turn of a node, run as it streams: SpeculativeTurn of the     *)
(* scheduler with the guesses it makes, the store buffer their writes sit  *)
(* in, the node that asked for the turn - and may stop waiting for it, or  *)
(* return and leave it running - and the scheduler that confirms the node, *)
(* drains its writes and retires it.                                       *)
(*                                                                         *)
(* Everything is one event loop: an action is what one task does between   *)
(* two awaits.  Whatever is journaled goes through the writer thread, one  *)
(* entry after another, and wakes the task that waits for it in that       *)
(* order: `queue` holds the entries not yet on disk.                       *)
(*                                                                         *)
(* A call is named by what asked for it: Own is a write the node began     *)
(* before the turn, 1..Asked are the blocks of the model's reply, Later is *)
(* the node's next write.  Wrong(k) is a write, and Stray(k) a read,       *)
(* guessed for block k that the model does not ask for; a right guess      *)
(* makes the block's own call.                                             *)
(***************************************************************************)
EXTENDS Integers, Sequences, Hazards

CONSTANTS Reply,     \* the calls the model's reply asks for, in order
          Registry,  \* what the tools are declared to do
          Policy,    \* how far guesses may go
          Misguesses, \* the calls a drafter may propose and the model not ask for
          Touches    \* the resources each call of the reply truly touches

Asked == Len(Reply)
Blocks == 1 .. Asked
Declared(call) == SpecOf(Registry, call.tool)
DeclaredKeys(k) == KeysTouched(Declared(Reply[k]), Reply[k].args)
Reads == {k \in Blocks : ~Mutates(Declared(Reply[k]).effect)}

\* A declaration is the developer's word: a tool that names what it touches
\* touches nothing else, and one declared a read changes nothing.
ASSUME TurnAssumption ==
  /\ Asked \in Nat
  /\ \A name \in DOMAIN Registry : WellDeclared(Registry[name])
  /\ \A k \in Blocks : Wildcard \notin DeclaredKeys(k) => Touches[k] \subseteq DeclaredKeys(k)

\* The writes of the reply up to a block, by what each is said to touch: not
\* staged before the reply is on disk.  A read that may touch the same, and one
\* that really does.
PendingWriteKeys(k) == {DeclaredKeys(j) : j \in (1 .. k) \ Reads}
ReadsAPendingWrite(k) ==
  ReadsBehind(Declared(Reply[k]), Reply[k].args, PendingWriteKeys(k - 1))
Dependent == {k \in Reads : ReadsAPendingWrite(k)}
TrulyDependent ==
  {k \in Reads : \E j \in (1 .. k - 1) \ Reads : Touches[j] \cap Touches[k] # {}}

\* Whether a call may be run on a guess made after a block.
Child == [speculative |-> TRUE, predicted |-> TRUE, depth |-> 1, inflight |-> 0]
Hazard(call, after) ==
  Analyse(Child, call, Declared(call), Policy, PendingWriteKeys(after))
Guesses == 2 .. Asked + 1    \* by the block they are a guess at
Own == 0
Later == Asked + 1
Wrong(k) == Later + k
Stray(k) == Own - k
Strays == {Stray(k) : k \in Guesses}
Calls == Stray(Asked + 1) .. Wrong(Asked + 1)

Base == 1                    \* the position of Own; the turn's come after it

VARIABLES
  queue,      \* entries handed to the journal's writer, not yet on disk
  turn,       \* the turn's last outcome on disk: none, answered or failed
  resolved,   \* the last word on disk about each guess
  pc,         \* the turn's task
  got,        \* how many blocks it has read
  at,         \* the block its results loop is at
  early,      \* reads issued as their block parsed, not yet done
  answered,   \* the whole reply has arrived (it may not have been read yet)
  guess,      \* each guess's branch
  guessed,    \* the call each is a guess of (Own: of none, or forgotten)
  task,       \* each guess's task
  held,       \* whether a guess's write is on its own branch's list
  squashing,  \* the guess being squashed, or 0
  dropping,   \* confirmed guesses taken off to be discarded, by whom
  own, node,  \* the task of the node's own write, and the node's
  cursor,     \* the node's branch's program position
  list,       \* writes staged on the node's branch
  settled,    \* those delivered and acknowledged
  world,      \* the calls that reached upstream, in order
  run,        \* the scheduler, as it retires the node
  sending,    \* the write it is sending
  parked,     \* the branch's park event
  confirmed,  \* the branch's confirmation is on disk
  over        \* this drive of the run has ended

turnVars == <<pc, got, at, early, answered>>
guessVars == <<guess, guessed, task, held>>
nodeVars == <<own, node>>
runVars == <<settled, run, sending, confirmed, over>>
vars == <<queue, turn, resolved, pc, got, at, early, answered, guess, guessed,
          task, held, squashing, dropping, own, node, cursor, list, settled,
          world, run, sending, parked, confirmed, over>>

Job(by, what, of) == [by |-> by, what |-> what, of |-> of]
NextWritten(job) == queue # <<>> /\ Head(queue) = job

\* Hand entries over: from a task that was waiting for something else, and from
\* one whose own entry has just been written.
Journal(jobs) == queue' = queue \o jobs
WrittenThen(jobs) == queue' = Tail(queue) \o jobs

Returned == node \in {"leaving", "squashing", "dropping", "done"}
UnderWay == pc \notin {"done", "failed"}
Open == {k \in Guesses : guess[k] = "open"}
Kept == {k \in Guesses : guess[k] = "confirmed"}
          \ (dropping["turn"] \cup dropping["node"])

Furthest(a, b) == IF a < b THEN b ELSE a
Least(S) == CHOOSE k \in S : \A j \in S : k <= j

\* Branch.reserve_step and rewind_to: neither moves a returned node's cursor.
Reserve(step) == cursor' = IF Returned THEN cursor ELSE Furthest(cursor, step)
GiveBack == IF Returned THEN cursor ELSE Base

Position(c) ==
  CASE c = Own -> Base
    [] c \in Blocks -> Base + c
    [] c = Later -> cursor
    [] c > Later -> Base + c - Later
    [] c < Own -> Base + Own - c

\* What a guess is of: the block's own call, or another, by what its tool is
\* declared to do.
Right(k) == guessed[k] = k
Misguess(k, call) == IF Mutates(Declared(call).effect) THEN Wrong(k) ELSE Stray(k)
IsRead(c) == c \in Reads \cup Strays

Init ==
  /\ own \in {"request", "done"}
  /\ queue = IF own = "request" THEN <<Job("own", "request", 0)>> ELSE <<>>
  /\ turn = "none"
  /\ resolved = [k \in Guesses |-> "none"]
  /\ pc = "stream" /\ got = 0 /\ at = 1 /\ early = {} /\ answered = FALSE
  /\ guess = [k \in Guesses |-> "none"]
  /\ guessed = [k \in Guesses |-> Own]
  /\ task = [k \in Guesses |-> "none"]
  /\ held = [k \in Guesses |-> FALSE]
  /\ squashing = 0
  /\ dropping = [w \in {"turn", "node"} |-> {}]
  /\ node = "turn" /\ cursor = Base
  /\ list = {} /\ settled = {} /\ world = <<>>
  /\ run = "quiesce" /\ sending = Own /\ parked = FALSE
  /\ confirmed = FALSE /\ over = FALSE

(***************************************************************************)
(* Squashing the open guess, and discarding confirmed ones.                *)
(***************************************************************************)

\* _squash: from here on the branch stages nothing more.  The miss is graded and
\* what it staged discarded, and that is journaled; only then is its task
\* cancelled - a read it was making meanwhile is made - and its end journaled.
Squash(k) ==
  /\ squashing' = k
  /\ guess' = [guess EXCEPT ![k] = "squashed"]
  /\ held' = [held EXCEPT ![k] = FALSE]
  /\ UNCHANGED task

SquashEntry(k) == <<Job("squash", "discard", k)>>

\* Defect: a buffer that takes no more writes is thought to be enough.
CallLeftRunning(k) == UNCHANGED <<task, guessed>>
CallCancelled(k) ==
  /\ task' = [task EXCEPT ![k] = "gone"]
  /\ guessed' = [guessed EXCEPT ![k] = Own]

SquashDiscarded(k) ==
  /\ NextWritten(Job("squash", "discard", k))
  /\ WrittenThen(<<Job("squash", "resolve", k)>>)
  /\ CallCancelled(k)
  /\ UNCHANGED <<turn, resolved, turnVars, guess, held, squashing, dropping,
                 nodeVars, cursor, list, world, parked, runVars>>

SquashResolved(k) ==
  /\ NextWritten(Job("squash", "resolve", k))
  /\ WrittenThen(<<>>)
  /\ resolved' = [resolved EXCEPT ![k] = "squashed"]
  /\ squashing' = 0
  /\ UNCHANGED <<turn, turnVars, guessVars, dropping, nodeVars, cursor, list,
                 world, parked, runVars>>

\* _discard_confirmed: the guesses in D, one after another; once the drive is
\* over nothing more is journaled about them.
Drop(who, D, written) ==
  LET k == Least(D)
      now == IF over THEN D ELSE IF D = {} THEN {} ELSE {k}
      entry == Job(who, IF held[k] THEN "discard" ELSE "resolve", k)
  IN  /\ dropping' = [dropping EXCEPT ![who] = IF over THEN {} ELSE D]
      /\ guess' = [g \in Guesses |-> IF g \in now THEN "dropped" ELSE guess[g]]
      /\ held' = [g \in Guesses |-> held[g] /\ g \notin now]
      /\ queue' = IF over \/ D = {} THEN written ELSE Append(written, entry)

DropDiscarded(who, k) ==
  /\ NextWritten(Job(who, "discard", k))
  /\ IF over THEN Drop(who, dropping[who] \ {k}, Tail(queue))
     ELSE /\ WrittenThen(<<Job(who, "resolve", k)>>)
          /\ UNCHANGED <<dropping, guess, held>>
  /\ UNCHANGED <<turn, resolved, turnVars, guessed, task, squashing, nodeVars,
                 cursor, list, world, parked, runVars>>

DropResolved(who, k) ==
  /\ NextWritten(Job(who, "resolve", k))
  /\ resolved' = [resolved EXCEPT ![k] = "squashed"]
  /\ Drop(who, dropping[who] \ {k}, Tail(queue))
  /\ UNCHANGED <<turn, turnVars, guessed, task, squashing, nodeVars, cursor,
                 list, world, parked, runVars>>

(***************************************************************************)
(* Reading the stream: _read_events, _resolve_prediction, _speculate_next. *)
(***************************************************************************)

\* The reply may have arrived in full while the turn is still at an early block.
AnswerArrives ==
  /\ pc \in {"stream", "missed", "confirm", "predict", "fork", "cut"}
  /\ ~answered
  /\ answered' = TRUE
  /\ UNCHANGED <<queue, turn, resolved, pc, got, at, early, guessVars,
                 squashing, dropping, nodeVars, cursor, list, world, parked,
                 runVars>>

\* The next block takes its position, and a read that no earlier write of the
\* turn may change is issued at once - unless a guess has already made it.
IssuedEarly(k) == k \in Reads \ Dependent

TakeBlock ==
  /\ got' = got + 1
  /\ Reserve(Base + got + 1)
  /\ early' = IF IssuedEarly(got + 1) /\ got + 1 \notin Kept /\ ~Returned
              THEN early \cup {got + 1} ELSE early
  /\ pc' = "predict"
  /\ UNCHANGED <<at, answered>>

AtBlock == pc = "stream" /\ got < Asked

BlockUnguessed ==
  /\ AtBlock
  /\ Open = {}
  /\ TakeBlock
  /\ UNCHANGED <<queue, turn, resolved, guessVars, squashing, dropping,
                 nodeVars, list, world, parked, runVars>>

\* The model asked for what was guessed: the guess is confirmed, and its writes
\* stay where nothing drains them until the turn is on disk.  Defect: they join
\* the node's branch at once.
JoinsAtOnce(k) ==
  /\ list' = IF held[k] THEN list \cup {guessed[k]} ELSE list
  /\ held' = [held EXCEPT ![k] = FALSE]
StaysApart(k) == UNCHANGED <<list, held>>

BlockConfirms ==
  /\ AtBlock
  /\ ~Returned
  /\ got + 1 \in Open /\ Right(got + 1)
  /\ guess' = [guess EXCEPT ![got + 1] = "confirmed"]
  /\ StaysApart(got + 1)
  /\ pc' = "confirm"
  /\ Journal(<<Job("turn", "confirm", got + 1)>>)
  /\ UNCHANGED <<turn, resolved, got, at, early, answered, guessed, task,
                 squashing, dropping, nodeVars, cursor, world, parked, runVars>>

\* It asked for something else, or its node has returned: a miss.
BlockMisses ==
  /\ AtBlock
  /\ \E k \in Open :
       /\ Returned \/ ~Right(k)
       /\ Squash(k) /\ Journal(SquashEntry(k))
  /\ pc' = "missed"
  /\ UNCHANGED <<turn, resolved, guessed, got, at, early, answered, dropping,
                 nodeVars, cursor, list, world, parked, runVars>>

ConfirmWritten(k) ==
  /\ NextWritten(Job("turn", "confirm", k))
  /\ WrittenThen(<<>>)
  /\ resolved' = [resolved EXCEPT ![k] = "confirmed"]
  /\ TakeBlock
  /\ UNCHANGED <<turn, guessVars, squashing, dropping, nodeVars, list, world,
                 parked, runVars>>

MissIsOver ==
  /\ pc = "missed" /\ squashing = 0
  /\ TakeBlock
  /\ UNCHANGED <<queue, turn, resolved, guessVars, squashing, dropping,
                 nodeVars, list, world, parked, runVars>>

\* The drafter proposes nothing, the gate or a hazard refuses it, or the node
\* has returned meanwhile.
NoGuess ==
  /\ pc = "predict"
  /\ pc' = "stream"
  /\ UNCHANGED <<queue, turn, resolved, got, at, early, answered, guessVars,
                 squashing, dropping, nodeVars, cursor, list, world, parked,
                 runVars>>

\* A call a hazard speaks against is not guessed at: a read of what a write
\* before it may change, an undeclared tool, a placeholder, a limit.
Guess(hit) ==
  /\ pc = "predict" /\ ~Returned /\ ~over
  /\ IF hit
     THEN /\ got + 1 \in Blocks /\ Hazard(Reply[got + 1], got) = "none"
          /\ guessed' = [guessed EXCEPT ![got + 1] = got + 1]
     ELSE \E call \in Misguesses :
            /\ (got + 1 \in Blocks => call # Reply[got + 1]) /\ Hazard(call, got) = "none"
            /\ guessed' = [guessed EXCEPT ![got + 1] = Misguess(got + 1, call)]
  /\ guess' = [guess EXCEPT ![got + 1] = "forking"]
  /\ pc' = "fork"
  /\ Journal(<<Job("turn", "fork", got + 1)>>)
  /\ UNCHANGED <<turn, resolved, got, at, early, answered, task, held,
                 squashing, dropping, nodeVars, cursor, list, world, parked,
                 runVars>>

\* The fork is on disk: the guess is run - or, if the node returned meanwhile,
\* squashed before its call is made.
ForkWritten(k) ==
  /\ NextWritten(Job("turn", "fork", k))
  /\ resolved' = [resolved EXCEPT ![k] = "forked"]
  /\ IF ~Returned
     THEN /\ guess' = [guess EXCEPT ![k] = "open"]
          /\ task' = [task EXCEPT ![k] = "request"]
          /\ WrittenThen(<<Job("guess", "request", k)>>)
          /\ pc' = "stream"
          /\ UNCHANGED <<squashing, held>>
     ELSE Squash(k) /\ WrittenThen(SquashEntry(k)) /\ pc' = "cut"
  /\ UNCHANGED <<turn, got, at, early, answered, guessed, dropping, nodeVars,
                 cursor, list, world, parked, runVars>>

CutIsOver ==
  /\ pc = "cut" /\ squashing = 0
  /\ pc' = "stream"
  /\ UNCHANGED <<queue, turn, resolved, got, at, early, answered, guessVars,
                 squashing, dropping, nodeVars, cursor, list, world, parked,
                 runVars>>

\* The reply is journaled before the turn is told it is complete.
ReplyEnds ==
  /\ pc = "stream" /\ got = Asked /\ answered /\ ~over
  /\ pc' = "answered"
  /\ Journal(<<Job("turn", "answered", 0)>>)
  /\ UNCHANGED <<turn, resolved, got, at, early, answered, guessVars,
                 squashing, dropping, nodeVars, cursor, list, world, parked,
                 runVars>>

\* The drive is over: the reply is read to its end, and not written.
ReplyUnwritten ==
  /\ pc = "stream" /\ got = Asked /\ answered /\ over
  /\ pc' = "settle"
  /\ UNCHANGED <<queue, turn, resolved, got, at, early, answered, guessVars,
                 squashing, dropping, nodeVars, cursor, list, world, parked,
                 runVars>>

AnswerWritten ==
  /\ NextWritten(Job("turn", "answered", 0))
  /\ turn' = "answered"
  /\ at' = 1
  /\ IF Open = {}
     THEN /\ pc' = "settle" /\ WrittenThen(<<>>)
          /\ UNCHANGED <<guess, held, task, squashing>>
     ELSE /\ \E k \in Open : Squash(k) /\ WrittenThen(SquashEntry(k))
          /\ pc' = "ended"
  /\ UNCHANGED <<resolved, got, early, answered, guessed, dropping, nodeVars,
                 cursor, list, world, parked, runVars>>

EndIsOver ==
  /\ pc = "ended" /\ squashing = 0
  /\ pc' = "settle"
  /\ UNCHANGED <<queue, turn, resolved, got, at, early, answered, guessVars,
                 squashing, dropping, nodeVars, cursor, list, world, parked,
                 runVars>>

(***************************************************************************)
(* A turn that does not complete: the model fails, or the node's timeout   *)
(* cancels it.  A step that is finished whatever the caller does (a fork,  *)
(* a confirmation, a squash, the reply's entry) is finished first.         *)
(***************************************************************************)

\* The outcome is written before the failure is seen.
FailedEntry == IF over THEN <<>> ELSE <<Job("turn", "failed", 0)>>

StreamFails ==
  /\ \/ pc \in {"stream", "predict"}
     \/ pc \in {"missed", "cut"} /\ squashing = 0
  /\ pc' = "failing"
  /\ Journal(FailedEntry)
  /\ UNCHANGED <<turn, resolved, got, at, early, answered, guessVars,
                 squashing, dropping, nodeVars, cursor, list, world, parked,
                 runVars>>

CancelledAtConfirm(k) ==
  /\ NextWritten(Job("turn", "confirm", k))
  /\ resolved' = [resolved EXCEPT ![k] = "confirmed"]
  /\ pc' = "failing"
  /\ WrittenThen(FailedEntry)
  /\ UNCHANGED <<turn, got, at, early, answered, guessVars, squashing,
                 dropping, nodeVars, cursor, list, world, parked, runVars>>

CancelledAtFork(k) ==
  /\ NextWritten(Job("turn", "fork", k))
  /\ resolved' = [resolved EXCEPT ![k] = "forked"]
  /\ guess' = [guess EXCEPT ![k] = "open"]
  /\ pc' = "failing"
  /\ WrittenThen(FailedEntry)
  /\ UNCHANGED <<turn, got, at, early, answered, guessed, task, held, squashing,
                 dropping, nodeVars, cursor, list, world, parked, runVars>>

CancelledAtAnswer ==
  /\ NextWritten(Job("turn", "answered", 0))
  /\ turn' = "answered"
  /\ pc' = "failing"
  /\ WrittenThen(FailedEntry)
  /\ UNCHANGED <<resolved, got, at, early, answered, guessVars, squashing,
                 dropping, nodeVars, cursor, list, world, parked, runVars>>

\* Its positions are given back before anything is awaited.  Defect: they are
\* left as the blocks that happened to arrive took them.
PositionsLeft == UNCHANGED cursor
PositionsGivenBack == cursor' = GiveBack

\* The open guess is squashed, then its calls are cancelled, then what it
\* confirmed is discarded.
FailureSeen(written) ==
  /\ pc = "failing"
  /\ PositionsGivenBack
  /\ pc' = "cleaning"
  /\ IF Open = {}
     THEN queue' = written /\ UNCHANGED <<guess, held, task, squashing>>
     ELSE \E k \in Open : Squash(k) /\ queue' = written \o SquashEntry(k)
  /\ UNCHANGED <<resolved, got, at, early, answered, guessed, dropping, nodeVars,
                 list, world, parked, runVars>>

FailureWritten ==
  /\ NextWritten(Job("turn", "failed", 0))
  /\ turn' = "failed"
  /\ FailureSeen(Tail(queue))

FailureUnwritten ==
  /\ over
  /\ Job("turn", "failed", 0) \notin {queue[i] : i \in DOMAIN queue}
  /\ FailureSeen(queue)
  /\ UNCHANGED turn

\* _abandon: every call the turn started, a guess it confirmed included.
Abandon ==
  /\ early' = {}
  /\ task' = [k \in Guesses |->
       IF /\ guess[k] \in {"confirmed", "adopted", "dropped"}
          /\ task[k] \notin {"none", "done"}
       THEN "gone" ELSE task[k]]

CleanUp ==
  /\ pc = "cleaning" /\ squashing = 0
  /\ Abandon
  /\ Drop("turn", Kept, queue)
  /\ pc' = "dropping"
  /\ UNCHANGED <<turn, resolved, got, at, answered, guessed, squashing, nodeVars,
                 cursor, list, world, parked, runVars>>

TurnFails ==
  /\ pc = "dropping" /\ dropping["turn"] = {}
  /\ pc' = "failed"
  /\ PositionsGivenBack
  /\ UNCHANGED <<queue, turn, resolved, got, at, early, answered, guessVars,
                 squashing, dropping, nodeVars, list, world, parked, runVars>>

(***************************************************************************)
(* The reply is on disk: _settle_turn makes its calls in program order.    *)
(***************************************************************************)

AtResult == pc = "settle" /\ at <= Asked /\ ~Returned

\* The guess this block confirmed joins the node's branch now.  The entry comes
\* first, and the move only once it is on disk.
BeginAdoption ==
  /\ AtResult
  /\ at \in Kept /\ held[at]
  /\ pc' = "adopt"
  /\ Journal(<<Job("turn", "adopt", at)>>)
  /\ UNCHANGED <<turn, resolved, got, at, early, answered, guessVars,
                 squashing, dropping, nodeVars, cursor, list, world, parked,
                 runVars>>

\* The node parks on what it is about to wait for.  Defect: only a staged write
\* of its own parks it.
ParksOnOwnOnly(k) == FALSE
ParksOn(k) == task[k] # "done"

Adopt(k) ==
  /\ guess' = [guess EXCEPT ![k] = "adopted"]
  /\ list' = IF held[k] THEN list \cup {k} ELSE list
  /\ held' = [held EXCEPT ![k] = FALSE]
  /\ parked' = (parked \/ ParksOn(k))
  /\ pc' = "slot"

AdoptNothing ==
  /\ AtResult
  /\ at \in Kept /\ ~held[at]
  /\ Adopt(at)
  /\ UNCHANGED <<queue, turn, resolved, got, at, early, answered, guessed, task,
                 squashing, dropping, nodeVars, cursor, world, runVars>>

AdoptionWritten(k) ==
  /\ NextWritten(Job("turn", "adopt", k))
  /\ pc = "adopt"
  /\ WrittenThen(<<>>)
  /\ Adopt(k)
  /\ UNCHANGED <<turn, resolved, got, at, early, answered, guessed, task,
                 squashing, dropping, nodeVars, cursor, world, runVars>>

\* A read issued early, and a guess's call, are waited for in their turn.
AwaitEarly ==
  /\ AtResult
  /\ at \notin Kept /\ IssuedEarly(at)
  /\ pc' = "slot"
  /\ UNCHANGED <<queue, turn, resolved, got, at, early, answered, guessVars,
                 squashing, dropping, nodeVars, cursor, list, world, parked,
                 runVars>>

SlotDone ==
  /\ pc = "slot"
  /\ at \notin early
  /\ at \in Guesses /\ guess[at] = "adopted" => task[at] = "done"
  /\ at' = at + 1
  /\ pc' = "settle"
  /\ UNCHANGED <<queue, turn, resolved, got, early, answered, guessVars,
                 squashing, dropping, nodeVars, cursor, list, world, parked,
                 runVars>>

\* Any other block's call is made now: BranchTools.call.
MakeCall ==
  /\ AtResult
  /\ at \notin Kept /\ ~IssuedEarly(at)
  /\ pc' = "request"
  /\ Journal(<<Job("turn", "request", at)>>)
  /\ UNCHANGED <<turn, resolved, got, at, early, answered, guessVars,
                 squashing, dropping, nodeVars, cursor, list, world, parked,
                 runVars>>

\* A write is staged - unless its node returned while it was being requested.
\* Defect: that is not looked at again.
StagesAnyway == TRUE
StillStages == ~Returned

RequestWritten(k) ==
  /\ NextWritten(Job("turn", "request", k))
  /\ pc = "request"
  /\ IF IsRead(k)
     THEN pc' = "read" /\ WrittenThen(<<>>) /\ UNCHANGED list
     ELSE IF StillStages
     THEN /\ pc' = "stage"
          /\ list' = list \cup {k}
          /\ WrittenThen(<<Job("turn", "stage", k)>>)
     ELSE pc' = "stopping" /\ WrittenThen(<<>>) /\ UNCHANGED list
  /\ UNCHANGED <<turn, resolved, got, at, early, answered, guessVars,
                 squashing, dropping, nodeVars, cursor, world, parked, runVars>>

ReadInOrder ==
  /\ pc = "read"
  /\ world' = Append(world, at)
  /\ at' = at + 1
  /\ pc' = "settle"
  /\ UNCHANGED <<queue, turn, resolved, got, early, answered, guessVars,
                 squashing, dropping, nodeVars, cursor, list, parked, runVars>>

StageWritten(k) ==
  /\ NextWritten(Job("turn", "stage", k))
  /\ pc = "stage"
  /\ WrittenThen(<<>>)
  /\ pc' = "ack"
  /\ parked' = TRUE
  /\ UNCHANGED <<turn, resolved, got, at, early, answered, guessVars,
                 squashing, dropping, nodeVars, cursor, list, world, runVars>>

Acknowledged ==
  /\ pc = "ack" /\ at \in settled
  /\ at' = at + 1
  /\ pc' = "settle"
  /\ UNCHANGED <<queue, turn, resolved, got, early, answered, guessVars,
                 squashing, dropping, nodeVars, cursor, list, world, parked,
                 runVars>>

TurnDone ==
  /\ pc = "settle" /\ at > Asked /\ ~Returned
  /\ Reserve(Base + Asked)
  /\ pc' = "done"
  /\ UNCHANGED <<queue, turn, resolved, got, at, early, answered, guessVars,
                 squashing, dropping, nodeVars, list, world, parked, runVars>>

\* Its node has returned, a call of it fails, or the node's timeout cancels it:
\* the guesses not yet adopted are discarded, and then its calls are cancelled.
SettleFails ==
  /\ \/ pc = "settle" /\ Returned
     \/ pc \in {"adopt", "slot", "request", "read", "stage", "ack"}
  /\ pc' = "stopping"
  /\ UNCHANGED <<queue, turn, resolved, got, at, early, answered, guessVars,
                 squashing, dropping, nodeVars, cursor, list, world, parked,
                 runVars>>

StopSettling ==
  /\ pc = "stopping"
  /\ Drop("turn", Kept, queue)
  /\ pc' = "stopped"
  /\ UNCHANGED <<turn, resolved, got, at, early, answered, guessed, task,
                 squashing, nodeVars, cursor, list, world, parked, runVars>>

SettlingStopped ==
  /\ pc = "stopped" /\ dropping["turn"] = {}
  /\ Abandon
  /\ pc' = "failed"
  /\ UNCHANGED <<queue, turn, resolved, got, at, answered, guess, guessed, held,
                 squashing, dropping, nodeVars, cursor, list, world, parked,
                 runVars>>

\* A cancellation while the last guess is squashed is raised once it is: what
\* the turn started is left as it is, for the node's return to settle.
CancelledAtEnd ==
  /\ pc = "ended" /\ squashing = 0
  /\ pc' = "failed"
  /\ UNCHANGED <<queue, turn, resolved, got, at, early, answered, guessVars,
                 squashing, dropping, nodeVars, cursor, list, world, parked,
                 runVars>>

(***************************************************************************)
(* The calls that run beside the turn's task: early reads, guesses and the *)
(* node's own write.                                                       *)
(***************************************************************************)

EarlyRead(k) ==
  /\ k \in early
  /\ early' = early \ {k}
  /\ world' = Append(world, k)
  /\ UNCHANGED <<queue, turn, resolved, pc, got, at, answered, guessVars,
                 squashing, dropping, nodeVars, cursor, list, parked, runVars>>

Closed(k) == guess[k] \in {"squashed", "dropped"}

\* BranchTools.call: a read is made, whatever has become of its branch.  A write
\* (StoreBuffer.stage) is not staged on a closed branch, and on an adopted one is
\* staged where a drain will find it.
GuessRequested(k) ==
  /\ NextWritten(Job("guess", "request", k))
  /\ task[k] = "request"
  /\ IF IsRead(guessed[k])
     THEN /\ task' = [task EXCEPT ![k] = "read"]
          /\ WrittenThen(<<>>) /\ UNCHANGED held
     ELSE IF Closed(k)
     THEN /\ task' = [task EXCEPT ![k] = "gone"]
          /\ WrittenThen(<<>>) /\ UNCHANGED held
     ELSE /\ task' = [task EXCEPT ![k] = "stage"]
          /\ held' = [held EXCEPT ![k] = TRUE]
          /\ WrittenThen(<<Job("guess", "stage", k)>>)
  /\ UNCHANGED <<turn, resolved, turnVars, guess, guessed, squashing, dropping,
                 nodeVars, cursor, list, world, parked, runVars>>

GuessReads(k) ==
  /\ task[k] = "read"
  /\ task' = [task EXCEPT ![k] = "done"]
  /\ world' = Append(world, guessed[k])
  /\ UNCHANGED <<queue, turn, resolved, turnVars, guess, guessed, held,
                 squashing, dropping, nodeVars, cursor, list, parked, runVars>>

GuessStaged(k) ==
  /\ NextWritten(Job("guess", "stage", k))
  /\ task[k] = "stage"
  /\ WrittenThen(<<>>)
  /\ task' = [task EXCEPT ![k] = IF Closed(k) THEN "gone" ELSE "ack"]
  /\ UNCHANGED <<turn, resolved, turnVars, guess, guessed, held, squashing,
                 dropping, nodeVars, cursor, list, world, parked, runVars>>

\* Its acknowledgement comes, or is cancelled with its write.
GuessReleased(k) ==
  /\ task[k] = "ack"
  /\ k \in settled \/ Closed(k)
  /\ task' = [task EXCEPT ![k] = IF k \in settled THEN "done" ELSE "gone"]
  /\ UNCHANGED <<queue, turn, resolved, turnVars, guess, guessed, held,
                 squashing, dropping, nodeVars, cursor, list, world, parked,
                 runVars>>

OwnRequested ==
  /\ NextWritten(Job("own", "request", 0))
  /\ IF Returned
     THEN own' = "done" /\ WrittenThen(<<>>) /\ UNCHANGED list
     ELSE /\ own' = "stage"
          /\ list' = list \cup {Own}
          /\ WrittenThen(<<Job("own", "stage", 0)>>)
  /\ UNCHANGED <<turn, resolved, turnVars, guessVars, squashing, dropping,
                 node, cursor, world, parked, runVars>>

OwnStaged ==
  /\ NextWritten(Job("own", "stage", 0))
  /\ WrittenThen(<<>>)
  /\ own' = "done"
  /\ parked' = TRUE
  /\ UNCHANGED <<turn, resolved, turnVars, guessVars, squashing, dropping,
                 node, cursor, list, world, runVars>>

\* An entry whose task was cancelled, or stopped waiting: it is written, and
\* nothing comes of it.
Awaited(j) ==
  CASE j.by = "turn" /\ j.what \in {"adopt", "request", "stage"} -> pc = j.what
    [] j.by = "guess" -> task[j.of] = j.what
    [] OTHER -> TRUE

NobodyWaits ==
  /\ queue # <<>> /\ ~Awaited(Head(queue))
  /\ WrittenThen(<<>>)
  /\ UNCHANGED <<turn, resolved, turnVars, guessVars, squashing, dropping,
                 nodeVars, cursor, list, world, parked, runVars>>

(***************************************************************************)
(* The node: it waits for the turn or does not, may go on to write         *)
(* something itself once the turn is over, and returns.                    *)
(***************************************************************************)

\* BranchTools.call, from the node itself: the next position is taken at once.
NodeWrites ==
  /\ node = "turn" /\ ~UnderWay
  /\ node' = "request"
  /\ cursor' = cursor + 1
  /\ Journal(<<Job("node", "request", 0)>>)
  /\ UNCHANGED <<turn, resolved, turnVars, guessVars, squashing, dropping, own,
                 list, world, parked, runVars>>

NodeRequested ==
  /\ NextWritten(Job("node", "request", 0))
  /\ node' = "stage"
  /\ list' = list \cup {Later}
  /\ WrittenThen(<<Job("node", "stage", 0)>>)
  /\ UNCHANGED <<turn, resolved, turnVars, guessVars, squashing, dropping, own,
                 cursor, world, parked, runVars>>

NodeStaged ==
  /\ NextWritten(Job("node", "stage", 0))
  /\ WrittenThen(<<>>)
  /\ node' = "ack"
  /\ parked' = TRUE
  /\ UNCHANGED <<turn, resolved, turnVars, guessVars, squashing, dropping, own,
                 cursor, list, world, runVars>>

\* _squash_what_it_left: a turn left running keeps its positions if its whole
\* reply has arrived, and has none otherwise.
NodeReturns ==
  /\ \/ node = "turn"
     \/ node = "ack" /\ Later \in settled
  /\ node' = "leaving"
  /\ cursor' = IF ~UnderWay THEN cursor
               ELSE IF answered THEN Furthest(cursor, Base + Asked) ELSE Base
  /\ UNCHANGED <<queue, turn, resolved, turnVars, guessVars, squashing,
                 dropping, own, list, world, parked, runVars>>

\* let_go: what is under way - a fork, a confirmation, an adoption - is waited
\* for; then the open guess is squashed and the confirmed ones discarded.
\* Defect: nothing is waited for.
WaitsForNothing == TRUE
NothingUnderWay == pc \notin {"fork", "confirm", "adopt"}

LeaveSquash ==
  /\ node = "leaving" /\ NothingUnderWay
  /\ \E k \in Open : Squash(k) /\ Journal(SquashEntry(k))
  /\ node' = "squashing"
  /\ UNCHANGED <<turn, resolved, turnVars, guessed, dropping, own, cursor, list,
                 world, parked, runVars>>

LeaveDrop ==
  /\ \/ node = "leaving" /\ NothingUnderWay /\ Open = {}
     \/ node = "squashing"
  /\ squashing = 0
  /\ Drop("node", Kept, queue)
  /\ node' = "dropping"
  /\ UNCHANGED <<turn, resolved, turnVars, guessed, task, squashing, own, cursor,
                 list, world, parked, runVars>>

NodeDone ==
  /\ node = "dropping" /\ dropping["node"] = {}
  /\ node' = "done"
  /\ UNCHANGED <<queue, turn, resolved, turnVars, guessVars, squashing,
                 dropping, own, cursor, list, world, parked, runVars>>

(***************************************************************************)
(* The scheduler: _quiesce, _retire, _drain_until_done, StoreBuffer.drain. *)
(* A delivery succeeds here; Dispatch says what happens when it does not.  *)
(***************************************************************************)

schedulerElse == <<turn, resolved, turnVars, guessVars, squashing, dropping,
                   nodeVars, cursor, list>>

\* _quiesce: the node has parked, or its body is done.  Defect: only the first.
NodeParked == parked
NodeAtRest == parked \/ node = "done"

Wakes ==
  /\ run = "quiesce"
  /\ NodeAtRest
  /\ IF confirmed THEN run' = "drain" /\ UNCHANGED queue
     ELSE run' = "confirm" /\ Journal(<<Job("run", "confirm", 0)>>)
  /\ UNCHANGED <<schedulerElse, world, parked, settled, sending, confirmed, over>>

NodeConfirmed ==
  /\ NextWritten(Job("run", "confirm", 0))
  /\ WrittenThen(<<>>)
  /\ confirmed' = TRUE
  /\ run' = "drain"
  /\ UNCHANGED <<schedulerElse, world, parked, settled, sending, over>>

Pending == list \ settled

\* The earliest in program order goes next, whatever was staged first.
\* Defect: any that is staged.
AnyPending(e) == TRUE
FirstPending(e) == \A d \in Pending : Position(e) <= Position(d)

Claim(e) ==
  /\ run = "drain"
  /\ e \in Pending /\ FirstPending(e)
  /\ sending' = e
  /\ run' = "claim"
  /\ Journal(<<Job("run", "claim", e)>>)
  /\ UNCHANGED <<schedulerElse, world, parked, settled, confirmed, over>>

Claimed ==
  /\ NextWritten(Job("run", "claim", sending))
  /\ WrittenThen(<<>>)
  /\ run' = "send"
  /\ UNCHANGED <<schedulerElse, world, parked, settled, sending, confirmed, over>>

Deliver ==
  /\ run = "send"
  /\ world' = Append(world, sending)
  /\ run' = "settle"
  /\ Journal(<<Job("run", "settle", sending)>>)
  /\ UNCHANGED <<schedulerElse, parked, settled, sending, confirmed, over>>

Settled ==
  /\ NextWritten(Job("run", "settle", sending))
  /\ WrittenThen(<<>>)
  /\ settled' = settled \cup {sending}
  /\ run' = "drain"
  /\ UNCHANGED <<schedulerElse, world, parked, sending, confirmed, over>>

DrainOver ==
  /\ run = "drain" /\ Pending = {}
  /\ IF node = "done"
     THEN /\ run' = "retire"
          /\ Journal(<<Job("run", "retire", 0)>>)
          /\ UNCHANGED parked
     ELSE run' = "quiesce" /\ parked' = FALSE /\ UNCHANGED queue
  /\ UNCHANGED <<schedulerElse, world, settled, sending, confirmed, over>>

Retired ==
  /\ NextWritten(Job("run", "retire", 0))
  /\ WrittenThen(<<>>)
  /\ run' = "retired"
  /\ UNCHANGED <<schedulerElse, world, parked, settled, sending, confirmed, over>>

\* The run is over: nothing more is written into it on the turn's behalf.
EndDrive ==
  /\ run = "retired" /\ ~over
  /\ over' = TRUE
  /\ UNCHANGED <<queue, schedulerElse, world, parked, settled, run, sending,
                 confirmed>>

Finished == over /\ ~UnderWay /\ queue = <<>> /\ UNCHANGED vars

-----------------------------------------------------------------------------

TurnStep ==
  \/ BlockUnguessed \/ BlockConfirms \/ BlockMisses \/ MissIsOver
  \/ NoGuess \/ (\E hit \in BOOLEAN : Guess(hit)) \/ CutIsOver
  \/ ReplyEnds \/ ReplyUnwritten \/ EndIsOver
  \/ BeginAdoption \/ AdoptNothing \/ AwaitEarly \/ SlotDone \/ MakeCall
  \/ ReadInOrder \/ Acknowledged \/ TurnDone
  \/ (pc = "settle" /\ SettleFails) \/ StopSettling \/ SettlingStopped
  \/ CleanUp \/ TurnFails \/ FailureUnwritten

\* What the model or the node's timeout may do to the turn, and need not.
Stopping == StreamFails \/ SettleFails \/ CancelledAtEnd

Written ==
  \/ \E k \in Guesses :
       \/ SquashDiscarded(k) \/ SquashResolved(k)
       \/ \E who \in {"turn", "node"} : DropDiscarded(who, k) \/ DropResolved(who, k)
       \/ ConfirmWritten(k) \/ CancelledAtConfirm(k)
       \/ ForkWritten(k) \/ CancelledAtFork(k)
       \/ AdoptionWritten(k) \/ GuessRequested(k) \/ GuessStaged(k)
  \/ \E k \in Blocks : RequestWritten(k) \/ StageWritten(k)
  \/ AnswerWritten \/ CancelledAtAnswer \/ FailureWritten
  \/ OwnRequested \/ OwnStaged \/ NodeRequested \/ NodeStaged
  \/ NodeConfirmed \/ Claimed \/ Settled \/ Retired
  \/ NobodyWaits

Beside ==
  \/ \E k \in Blocks : EarlyRead(k)
  \/ \E k \in Guesses : GuessReads(k) \/ GuessReleased(k)

NodeStep == NodeWrites \/ LeaveSquash \/ LeaveDrop \/ NodeDone

RunStep == Wakes \/ (\E e \in Calls : Claim(e)) \/ Deliver \/ DrainOver \/ EndDrive

Next ==
  \/ AnswerArrives \/ TurnStep \/ Stopping \/ Written \/ Beside
  \/ NodeStep \/ NodeReturns \/ RunStep \/ Finished

Spec == Init /\ [][Next]_vars

\* Tasks run, the journal writes, the upstream answers, and so does the model.
\* Nothing makes the node return: it may wait for its turn as long as it takes.
FairSpec ==
  /\ Spec
  /\ WF_vars(AnswerArrives) /\ WF_vars(TurnStep) /\ WF_vars(Written)
  /\ WF_vars(Beside) /\ WF_vars(RunStep)
  /\ WF_vars(LeaveSquash \/ LeaveDrop \/ NodeDone)

-----------------------------------------------------------------------------

TurnStates ==
  {"stream", "missed", "confirm", "predict", "fork", "cut", "answered", "ended",
   "failing", "cleaning", "dropping", "settle", "adopt", "slot", "request",
   "read", "stage", "ack", "stopping", "stopped", "done", "failed"}
Jobs ==
  [by : {"own", "turn", "node", "guess", "squash", "run"},
   what : {"request", "stage", "confirm", "fork", "answered", "failed",
           "adopt", "discard", "resolve", "claim", "settle", "retire"},
   of : Calls]

TypeOK ==
  /\ queue \in Seq(Jobs)
  /\ turn \in {"none", "answered", "failed"}
  /\ resolved \in [Guesses -> {"none", "forked", "confirmed", "squashed"}]
  /\ pc \in TurnStates
  /\ got \in 0 .. Asked /\ at \in 1 .. Asked + 1
  /\ early \subseteq Reads \ Dependent
  /\ guess \in [Guesses -> {"none", "forking", "open", "confirmed", "adopted",
                            "squashed", "dropped"}]
  /\ guessed \in [Guesses -> Calls]
  /\ task \in [Guesses -> {"none", "request", "read", "stage", "ack", "done",
                           "gone"}]
  /\ held \in [Guesses -> BOOLEAN]
  /\ squashing \in Guesses \cup {0}
  /\ dropping \in [{"turn", "node"} -> SUBSET Guesses]
  /\ own \in {"request", "stage", "done"}
  /\ node \in {"turn", "request", "stage", "ack", "leaving", "squashing",
               "dropping", "done"}
  /\ cursor \in Base .. Base + Asked + 1
  /\ list \subseteq Own .. Later
  /\ settled \subseteq list
  /\ world \in Seq(Calls)
  /\ run \in {"quiesce", "confirm", "drain", "claim", "send", "settle",
              "retire", "retired"}
  /\ sending \in Own .. Later
  /\ <<answered, parked, confirmed, over>> \in
       BOOLEAN \X BOOLEAN \X BOOLEAN \X BOOLEAN

\* Nothing the turn decided is sent before - or without - its reply being the
\* turn's last word on disk.  A wrong guess sends nothing but the read it guessed,
\* and that before anything its turn decided, or its node writes next: however
\* guesses, squashes, failures and drains woken by the node's other writes
\* interleave.
Decided == (Blocks \ Reads) \cup TrulyDependent
OnlyDecidedCallsSent ==
  \A i \in DOMAIN world :
    /\ world[i] \in Own .. Later \/ world[i] \in Strays
    /\ world[i] \in Decided => turn = "answered"
    /\ world[i] \in Strays =>
         \A j \in 1 .. i - 1 : world[j] \notin Decided \cup {Later}

\* Writes, and the reads that depend on them, reach the world in the order of
\* their program positions, whichever were guessed, issued early or left
\* running: no call finds its place taken by another.
OrderMatters(c) == c \notin (Reads \ TrulyDependent) \cup Strays
SentInProgramOrder ==
  \A i, j \in DOMAIN world :
    i < j /\ OrderMatters(world[i]) /\ OrderMatters(world[j]) =>
      Position(world[i]) < Position(world[j])

\* Once the node has retired every write staged on its branch has been sent,
\* nobody waits for an acknowledgement that will not come, and no guess holds a
\* write but one the turn's own cleanup has yet to discard.
NothingIsLost ==
  run = "retired" =>
    /\ list = settled
    /\ own = "done"
    /\ pc = "ack" => at \in settled
    /\ \A k \in Guesses :
         /\ held[k] => k \in dropping["turn"]
         /\ task[k] = "ack" => k \in settled \/ Closed(k) \/ k \in dropping["turn"]

\* Where the node's branch ends up does not depend on how many blocks had
\* arrived when a turn failed or was left: the turn took a position for each of
\* its calls, or none, and the node's own next write one more.
PositionsAreNotTiming ==
  run = "retired" =>
    \E taken \in {0, Asked} :
      /\ cursor = Base + taken + (IF Later \in list THEN 1 ELSE 0)
      /\ taken > 0 => answered
      /\ pc = "done" => taken = Asked

\* A turn comes to an end, whatever it waits for, once the model answers.
TurnEnds == UnderWay ~> ~UnderWay

\* A node that returns is retired, whatever it left running.
ReturnedNodeRetires == Returned ~> run = "retired"

\* What the world sees of a turn is what it would see without speculation, and
\* reads nobody asked for before anything the turn decided: a wrong guess costs
\* the reads it made, and cannot cost an effect (_speculate_next).
Sequential ==
  INSTANCE SequentialTurn WITH
    Dependent <- TrulyDependent,
    Asides <- Strays,
    made <- world,
    outcome <- turn
SpeculationPreservesSemantics == Sequential!SeqSpec

\* "seen done before the node retires" (let_go): once the node's retirement is on
\* disk, so is the end of every guess its turn made.
GuessesEndFirst ==
  run = "retired" =>
    \A k \in Guesses :
      \/ resolved[k] \in {"none", "squashed"}
      \/ guess[k] = "adopted"

\* "so none outlives the turn" (_abandon): a turn that is over has no call running.
NoCallOutlivesTheTurn ==
  pc \in {"done", "failed"} =>
    /\ early = {}
    /\ \A k \in Guesses : task[k] \notin {"request", "read", "stage"}
=============================================================================
