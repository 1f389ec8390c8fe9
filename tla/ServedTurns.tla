----------------------------- MODULE ServedTurns -----------------------------
(***************************************************************************)
(* The model turns of one node, at one position, across the attempts a run *)
(* and its resumes make at it: JournaledModel journals what the node asks  *)
(* and what became of it, RecordedTurns serves a resumed attempt the turns *)
(* that may already have sent something, _Pacer hands them over in the     *)
(* order they came back, and ReplayModel serves them all once the branch   *)
(* has retired.                                                            *)
(*                                                                         *)
(* The node's code is any deterministic function of what it has done and   *)
(* seen: `plan`, chosen as it is needed and kept until its code changes.   *)
(* It puts questions to the model from tasks or as streams it reads, gives *)
(* up on answers, and writes once no turn of it is open.                   *)
(*                                                                         *)
(* Assumed, as docs/replay.md says it: a process that resumes or replays a *)
(* node keeps the run's time (InTime, GiveUp, Expire).                     *)
(***************************************************************************)
EXTENDS Integers, Sequences, FiniteSets, SequencesExt, FiniteSetsExt

CONSTANTS Questions,           \* what may be asked,
          Streamed,            \*   as a stream the node reads, or from a task
          Answers,             \* answers, or failures
          MaxAsks, MaxWrites,  \* bounds of one attempt,
          MaxAttempts, Changes, Refusals
                               \*   the run's crashes, new code, writes refused

GaveUp == "gave up"  \* CANCELLED: the caller stopped waiting

VARIABLES
  journal,  \* the run's entries about this node's turns and effects
  claims,   \* the claim table: who claimed each effect and what came of it
  code,     \* the code of each attempt; the last is the one that runs
  plan,     \* what the code that runs now does, as far as it has done it
  node,     \* what the attempt is doing
  calls,    \* the model calls it has made, in the order it made them
  did,      \* what it has done and seen, step by step
  wrote,    \* writes it has made
  asking,   \* RecordedTurns._asking: this position is back to the model
  again,    \* RecordedTurns.ask_abandoned
  kept,     \* the attempt that retired and what it did, or none
  replayed  \* whether the attempt is a replay's

run == <<journal, claims, code, again, kept, replayed>>
vars == <<run, plan, node, calls, did, wrote, asking>>

me == Len(code)
mine == code[me]

Nothing == "nothing"  \* of a step that is about no question and no answer
Steps == [does : {"ask", "wait", "write", "return", "see"}, call : Nat,
          of : Questions \cup Answers \cup {GaveUp, Nothing}]
Histories == Seq(Steps)
Effects == [code : Nat, nth : Nat, from : Histories]
Entries == [kind : {"request"}, by : Nat, question : Questions]
           \cup [kind : {"response"}, by : Nat, of : Nat,
                 what : Answers \cup {GaveUp}, origin : Nat]
           \cup [kind : {"staged"}, by : Nat, effect : Effects]

Calls == [question : Questions, request : Nat, turn : Nat, read : BOOLEAN,
          state : {"open", "written", "over", "expired"}, told : Nat]
Claims == [by : Nat, state : {"sent", "not sent"}]

\* The type invariant: what the journal, the claims, the code's decisions and the
\* attempt's own record of itself range over.
TypeOK ==
  /\ journal \in Seq(Entries)
  /\ DOMAIN claims \subseteq Effects /\ claims \in [DOMAIN claims -> Claims]
  /\ code \in Seq(Nat) /\ code # <<>>
  /\ DOMAIN plan \subseteq Histories /\ plan \in [DOMAIN plan -> Steps]
  /\ node \in {"deciding", "waiting", "parked", "returned", "halted", "down", "diverged"}
  /\ calls \in Seq(Calls)
  /\ did \in Histories /\ wrote \in Nat
  /\ asking \in BOOLEAN /\ again \in BOOLEAN /\ replayed \in BOOLEAN
  /\ kept \in [by : Nat, did : Histories]

Init ==
  /\ journal = <<>> /\ claims = <<>> /\ code = <<1>>
  /\ plan = <<>> /\ node = "deciding" /\ calls = <<>>
  /\ did = <<>> /\ wrote = 0 /\ asking = FALSE /\ again = FALSE
  /\ kept = [by |-> 0, did |-> <<>>] /\ replayed = FALSE

-----------------------------------------------------------------------------
(* What the journal holds.                                                  *)

Newest(S) == IF S = {} THEN 0 ELSE Max(S)

Outcomes(r) == {o \in DOMAIN journal : journal[o].kind = "response"
                                       /\ journal[o].of = r}
FirstOutcome(r) == Min(Outcomes(r))                                 \* Defect
\* Of a question's outcomes the last counts: an answer whose caller stopped
\* waiting while it was written is followed by one that says so.
Outcome(r) == Newest(Outcomes(r))

Asked(a) == {r \in DOMAIN journal : /\ journal[r].kind = "request"
                                    /\ journal[r].by = a
                                    /\ Outcomes(r) # {}}

\* The outcomes of questions R, in the order they were asked.
Nth(R, n) == CHOOSE r \in R : Cardinality({s \in R : s <= r}) = n
Turns(R) == [i \in 1..Cardinality(R) |-> Outcome(Nth(R, i))]

\* The staging of the attempt's last effect that may have been sent.
LastSend(a) ==
  Newest({o \in DOMAIN journal :
          /\ journal[o].kind = "staged" /\ journal[o].by = a
          /\ \E c \in DOMAIN claims : /\ c = journal[o].effect
                                      /\ claims[c].by = a
                                      /\ claims[c].state # "not sent"})

Pinned(a) == Turns({r \in Asked(a) : r < LastSend(a)})

QuestionOf(turn) == journal[journal[turn].of].question

\* The attempts whose questions so far are those asked now, and q the next.
Matching(q) ==
  {a \in 1..me - 1 :
     LET turns == Pinned(a)
     IN  /\ Len(turns) > Len(calls)
         /\ QuestionOf(turns[Len(calls) + 1]) = q
         /\ \A i \in 1..Len(calls) : QuestionOf(turns[i]) = calls[i].question}

\* RecordedTurns.take
Take(q) == IF asking \/ Matching(q) = {} THEN 0
           ELSE Pinned(Max(Matching(q)))[Len(calls) + 1]

AllAttempts == Turns(UNION {Asked(a) : a \in 1..me})                \* Defect
\* ReplayModel._keep_one_attempt
Kept == Turns(Asked(kept.by))

-----------------------------------------------------------------------------
(* What the node does next: a step of what it did is a decision of its code *)
(* -- to ask, to wait, to write, to return -- or what it then saw.          *)

Step(does, call, of) == [does |-> does, call |-> call, of |-> of]

Asks(q) == Step("ask", Len(calls) + 1, q)
WaitsOn(i) == Step("wait", i, Nothing)
Writes == Step("write", wrote + 1, Nothing)
Returns == Step("return", 0, Nothing)
Sees(i, what) == Step("see", i, what)

\* The code that runs decides on m, as it did before where it was before.
Decides(m) ==
  /\ node = "deciding"
  /\ did \in DOMAIN plan => plan[did] = m
  /\ plan' = [h \in DOMAIN plan \cup {did} |-> IF h = did THEN m ELSE plan[h]]

Does(step) == did' = Append(did, step)

Call(q, request, turn) ==
  [question |-> q, request |-> request, turn |-> turn,
   read |-> q \notin Streamed, state |-> "open", told |-> 0]

Live == ~replayed

\* A question carries what was asked before it, so it is not one of those.
Anew(q) == /\ Len(calls) < MaxAsks /\ wrote < MaxWrites
           /\ \A i \in DOMAIN calls : calls[i].question # q

\* JournaledModel.complete and stream, until the question is on disk.
Ask(q) ==
  /\ Decides(Asks(q)) /\ Anew(q)
  /\ Live
  /\ LET turn == Take(q)
     IN  /\ asking' = (asking \/ turn = 0)
         /\ calls' = Append(calls, Call(q, Len(journal) + 1, turn))
  /\ journal' = Append(journal, [kind |-> "request", by |-> me, question |-> q])
  /\ Does(Asks(q))
  /\ UNCHANGED <<claims, code, node, wrote, again, kept, replayed>>

\* ReplayModel._turn_for: the next turn of the attempt that was kept, or none.
AskReplay(q) ==
  /\ Decides(Asks(q)) /\ Anew(q)
  /\ replayed
  /\ LET next == Len(calls) + 1
     IN  IF next <= Len(Kept) /\ QuestionOf(Kept[next]) = q
         THEN /\ calls' = Append(calls, Call(q, 0, Kept[next]))
              /\ Does(Asks(q))
              /\ UNCHANGED node
         ELSE node' = "diverged" /\ UNCHANGED <<calls, did>>
  /\ UNCHANGED <<journal, claims, code, wrote, asking, again, kept, replayed>>

Unfinished(i) == calls[i].state # "over"

\* The node reads on in stream i, or in none, and waits until it sees something.
Waits(i) ==
  /\ Decides(WaitsOn(i))
  /\ i # 0 => ~calls[i].read
  /\ calls' = [k \in DOMAIN calls |->
                 [calls[k] EXCEPT !.read = @ \/ k = i]]
  /\ \E k \in DOMAIN calls' : calls'[k].read /\ Unfinished(k)
  /\ node' = "waiting"
  /\ Does(WaitsOn(i))
  /\ UNCHANGED <<run, wrote, asking>>

\* A write is refused while a turn is open (CallScope.track_turn).
MayWrite == \A i \in DOMAIN calls : ~Unfinished(i)

\* What a write is: where it sits, and all that it was decided from.
Effect == [code |-> mine, nth |-> wrote + 1, from |-> did]

Stage ==
  /\ Decides(Writes)
  /\ wrote < MaxWrites /\ MayWrite
  /\ IF replayed
     THEN wrote' = wrote + 1 /\ Does(Writes) /\ UNCHANGED <<journal, node>>
     ELSE /\ journal' = Append(journal, [kind |-> "staged", by |-> me,
                                         effect |-> Effect])
          /\ node' = "parked" /\ UNCHANGED <<wrote, did>>
  /\ UNCHANGED <<claims, code, calls, asking, again, kept, replayed>>

Return ==
  /\ Decides(Returns)
  /\ \A i \in DOMAIN calls : ~Unfinished(i)
  /\ node' = "returned"
  /\ kept' = IF replayed THEN kept ELSE [by |-> me, did |-> did]
  /\ UNCHANGED <<journal, claims, code, calls, did, wrote, asking,
                 again, replayed>>

\* What an attempt that is over leaves to the next: nothing but the journal.
Fresh == /\ calls' = <<>> /\ did' = <<>> /\ wrote' = 0 /\ asking' = FALSE

\* The drain dispatches a parked node's write, unless it has been sent before.
Dispatch ==
  /\ node = "parked"
  /\ \E outcome \in {"sent", "not sent"} :
       /\ outcome = "not sent" => Cardinality(DOMAIN claims) < Refusals
       /\ IF Effect \in DOMAIN claims /\ claims[Effect].state = "sent"
          THEN outcome = "sent" /\ UNCHANGED claims
          ELSE claims' = [e \in DOMAIN claims \cup {Effect} |->
                            IF e = Effect THEN [by |-> me, state |-> outcome]
                            ELSE claims[e]]
       /\ IF outcome = "sent"
          THEN /\ node' = "deciding" /\ wrote' = wrote + 1 /\ Does(Writes)
               /\ UNCHANGED <<calls, asking>>
          ELSE node' = "down" /\ Fresh
  /\ UNCHANGED <<journal, code, plan, again, kept, replayed>>
-----------------------------------------------------------------------------
(* What becomes of its calls while it waits.  Nothing is due before it was  *)
(* first due: so code that is what it was then is handed a served turn, and *)
(* gives up on one, where it was and did then, and nowhere else.            *)

Open(i) == node = "waiting" /\ calls[i].read /\ calls[i].state = "open"

Served(i) == calls[i].turn # 0
TurnOf(i) == journal[calls[i].turn]
FirstRecorded(o) == journal[o].origin                               \* Defect
Order(o) == o

\* _Pacer.due: an earlier outcome of the same attempt, asked for again, is not
\* handed over or given up on yet.
Blocked(i) ==
  \E k \in DOMAIN calls :
     /\ Served(k) /\ calls[k].state = "open"
     /\ TurnOf(k).by = TurnOf(i).by
     /\ Order(calls[k].turn) < Order(calls[i].turn)

SameCode(i) == code[TurnOf(i).by] = mine

\* The turns an attempt's questions may be served.
Recorded(a) == IF replayed THEN Kept ELSE Pinned(a)

\* A served outcome is due its recorded wait after its question.  For code that is
\* what it was, running at the pace it ran at, what came back before it has been
\* asked by then.
InTime(i) ==
  SameCode(i) =>
    LET turns == Recorded(TurnOf(i).by)
    IN  \A n \in DOMAIN turns :
          turns[n] < calls[i].turn => \E k \in DOMAIN calls : calls[k].turn = turns[n]

Due(i) == ~Blocked(i) /\ InTime(i)

Response(i, what) ==
  [kind |-> "response", by |-> me, of |-> calls[i].request, what |-> what,
   origin |-> IF Served(i) THEN TurnOf(i).origin ELSE Len(journal) + 1]

\* A replay tells the node, and writes nothing.
TellsReplayed(i, what) ==
  /\ calls' = [calls EXCEPT ![i].state = "over"]
  /\ Does(Sees(i, what))
  /\ node' = "deciding"
  /\ UNCHANGED journal

Records(i, what) ==
  /\ journal' = Append(journal, Response(i, what))
  /\ calls' = [calls EXCEPT ![i].state = "written", ![i].told = Len(journal) + 1]
  /\ UNCHANGED <<did, node>>

Ends(i, what) == IF replayed THEN TellsReplayed(i, what) ELSE Records(i, what)

aside == <<claims, code, again, kept, replayed, plan, wrote, asking>>

Answer(i) ==
  /\ Open(i) /\ ~Served(i)
  /\ \E what \in Answers : Ends(i, what)
  /\ UNCHANGED aside

Serve(i) ==
  /\ Open(i) /\ Served(i)
  /\ TurnOf(i).what # GaveUp /\ Due(i)
  /\ Ends(i, TurnOf(i).what)
  /\ UNCHANGED aside

\* The node's deadline fires, or it cancels the call.
GiveUp(i) ==
  /\ Open(i)
  /\ Served(i) /\ SameCode(i) => TurnOf(i).what = GaveUp /\ Due(i)
  /\ Ends(i, GaveUp)
  /\ UNCHANGED aside

\* ... while its answer is written: a second outcome says it never had it.
GiveUpLate(i) ==
  /\ node = "waiting" /\ calls[i].state = "written"
  /\ journal[calls[i].told].what # GaveUp
  /\ Served(i) => ~SameCode(i)
  /\ Ends(i, GaveUp)
  /\ UNCHANGED aside

\* Outcomes reach the node in the order they were written.
See(i) ==
  /\ node = "waiting" /\ calls[i].state = "written"
  /\ \A k \in DOMAIN calls :
        calls[k].state = "written" => calls[i].told <= calls[k].told
  /\ calls' = [calls EXCEPT ![i].state = "over"]
  /\ Does(Sees(i, journal[calls[i].told].what))
  /\ node' = "deciding"
  /\ UNCHANGED <<run, plan, wrote, asking>>

\* Nothing else happens first: all that the node waits for is waiting too.
Stuck == \A k \in DOMAIN calls : /\ calls[k].state # "written"
                                 /\ Open(k) => Served(k) /\ ~Due(k)

\* The bound on waiting for a served turn passes (_wait_out, _Pacer.due): it is
\* asked again if the operator said so and none of it was handed over, or the
\* node is halted.
Expire(i) ==
  /\ Open(i) /\ Served(i)
  /\ TurnOf(i).what = GaveUp \/ Blocked(i)
  /\ SameCode(i) => Stuck
  /\ IF again /\ Live /\ TurnOf(i).what = GaveUp /\ calls[i].question \notin Streamed
     THEN calls' = [calls EXCEPT ![i].turn = 0] /\ UNCHANGED <<journal, node>>
     ELSE /\ calls' = [calls EXCEPT ![i].state = "expired"]
          /\ node' = "halted"
          /\ journal' = IF replayed THEN journal
                        ELSE Append(journal, Response(i, GaveUp))
  /\ UNCHANGED <<aside, did>>

-----------------------------------------------------------------------------
\* (Before its first write it leaves nothing to serve: the attempt that follows
\* is as this one was.)
Crash ==
  /\ Live /\ node \in {"deciding", "waiting", "parked"}
  /\ wrote > 0
  /\ node' = "down" /\ again' = FALSE
  /\ Fresh
  /\ UNCHANGED <<journal, claims, code, kept, replayed, plan>>

\* A resume runs the node again, its code as it was or new.
Resume ==
  /\ Live /\ node \in {"down", "halted"} /\ me < MaxAttempts
  /\ \/ code' = Append(code, mine) /\ UNCHANGED plan
     \/ mine <= Changes /\ code' = Append(code, mine + 1) /\ plan' = <<>>
  /\ again' \in {FALSE} \cup {node = "halted"}
  /\ node' = "deciding" /\ Fresh
  /\ UNCHANGED <<journal, claims, kept, replayed>>

Replay ==
  /\ Live /\ node = "returned"
  /\ replayed' = TRUE
  /\ node' = "deciding" /\ Fresh
  /\ UNCHANGED <<journal, claims, code, again, plan, kept>>

Next ==
  \/ \E q \in Questions : Ask(q) \/ AskReplay(q)
  \/ Waits(0) \/ Stage \/ Return \/ Dispatch \/ Crash \/ Resume \/ Replay
  \/ \E i \in DOMAIN calls : \/ Waits(i) \/ Answer(i) \/ Serve(i) \/ GiveUp(i)
                              \/ GiveUpLate(i) \/ See(i) \/ Expire(i)

Spec == Init /\ [][Next]_vars

-----------------------------------------------------------------------------
(* Two attempts of the same code that send their n-th write send the same:  *)
(* what an attempt decides again is what may already have gone out, however *)
(* its answers came back, were given up on, or were written as it died.     *)
OneDecision ==
  \A e, f \in DOMAIN claims :
    /\ {claims[e].state, claims[f].state} = {"sent"}
    /\ e.code = f.code /\ e.nth = f.nth
    => e = f

(* A served node is stopped only for waiting on a turn of an attempt whose  *)
(* code was other than its own: the order served turns are handed over in   *)
(* never keeps code that is what it was from going on.                      *)
ServedNodeGoesOn ==
  node = "halted" /\ Live =>
    \A i \in DOMAIN calls : calls[i].state = "expired" => ~SameCode(i)

(* A replay of the run has its node do what the attempt that retired did,   *)
(* on what that one saw, step by step, and come to the same end.            *)
ReplayReproduces ==
  replayed =>
    /\ node \notin {"diverged", "halted"}
    /\ IsPrefix(did, kept.did)
    /\ node = "returned" => did = kept.did
=============================================================================
