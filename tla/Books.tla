-------------------------------- MODULE Books --------------------------------
(***************************************************************************)
(* The books of a run: every entry a drive journals that the ledger, the   *)
(* budget or a recovery reads, from the first run_started to the last      *)
(* run_finished, across crashes, resumes, dead letters and an operator's   *)
(* word.  A run is a chain of nodes; some make their calls in one model    *)
(* turn and guess the next call as each arrives, and the nodes of Together *)
(* are the lanes of one Parallel group.  Dispatch, Turn, Drive and Group   *)
(* model the machinery itself in more detail; here it is what is left in   *)
(* the record that matters.                                                *)
(***************************************************************************)
EXTENDS State, Budget, Ledger, TLC

CONSTANTS Positions,  \* the number of writes each node makes, by node
          Guessing,   \* the nodes whose turn a drafter speculates on
          Together,   \* the lanes of a Parallel group: consecutive nodes, or none
          Output,     \* what each node leaves in the state: a value by key, or Gone
          Inputs,     \* the run's inputs
          Asked,      \* the writes whose upstream can be asked about them
          MaxDrives, MaxFaults, MaxGuesses  \* bounds

Gone == <<"gone">>
LastNode == Len(Positions)
Nodes == 1 .. LastNode
Writes == {w \in Nodes \X (1 .. 3) : w[2] <= Positions[w[1]]}

\* The program position a node begins at -- the lanes of a group all where the
\* group forked, and what follows them after the longest -- and that of a write.
ForkStep(n) ==
  LET alone == {k \in Nodes \ Together : k < n}
      lanes == IF n \in Together THEN {} ELSE {k \in Together : k < n}
  IN  FoldSet(LAMBDA k, sum : Positions[k] + sum, 0, alone)
      + Max({0} \cup {Positions[k] : k \in lanes})
StepOf(w) == ForkStep(w[1]) + w[2]

VARIABLES journal, \* the run's entries
          claims,  \* the dispatch table, by write
          world,   \* the writes the upstream took, in the order it took them
          drive,   \* the process driving the run, or Down
          signed,  \* the length of the journal when its ledger was signed, or 0
          spent    \* drives begun, faults met and guesses opened, against the bounds

vars == <<journal, claims, world, drive, signed, spent>>

Down == [phase |-> "down"]
NoClaim == [status |-> "none", outcome |-> "unknown", effect |-> 0, branch |-> 0]
NoGuess == [branch |-> 0, effect |-> 0]

Init ==
  /\ journal = <<>>
  /\ claims = [w \in Writes |-> NoClaim]
  /\ world = <<>>
  /\ drive = Down
  /\ signed = 0
  /\ spent = [drives |-> 0, faults |-> 0, guesses |-> 0]

Here == Len(journal) + 1
Log(entries) == journal' = journal \o entries
Goto(phase) == drive' = [drive EXCEPT !.phase = phase]
Quiet == UNCHANGED <<claims, world, signed, spent>>

\* The write the drive is at.
Current == <<drive.node, drive.at>>
Writing == Current \in Writes

(***************************************************************************)
(* Entries.                                                                *)
(***************************************************************************)

Resolved(branch, status, step, tokens, seq) ==
  [kind |-> "branch_resolved", branch |-> branch, status |-> status,
   step |-> step, tokens |-> tokens, retireSeq |-> seq]

Forked(node, guess) ==
  [kind |-> "branch_forked", node |-> node, guess |-> guess]

Staged(branch, w, stage) ==
  [kind |-> "effect_staged", branch |-> branch, write |-> w,
   step |-> StepOf(w), stage |-> stage]

Outcome(kind, effect, branch, w, stage, index, authorised, sent) ==
  [kind |-> kind, effect |-> effect, branch |-> branch, write |-> w, stage |-> stage,
   index |-> index, authorisedBy |-> authorised, sent |-> sent]

Policy(event, reason) == [kind |-> "policy_event", event |-> event, reason |-> reason]

(***************************************************************************)
(* Recovery: what a resume builds on.  Only what retired counts.           *)
(***************************************************************************)

RetiredBranches == Retired(journal)
Deltas == Kind(journal, {"state_delta_applied"})
Groups == Kind(journal, {"group_forked"})

\* The state the run started from, with the deltas of the branches that
\* retired, up to an offset.
StateBefore(before) ==
  FoldLeft(LAMBDA document, o : Apply(document, journal[o].patch), Obj(Inputs),
    SetToSortSeq({o \in Deltas : o < before /\ journal[o].branch \in RetiredBranches}, <))

RetiredNodes == {journal[b].node : b \in RetiredBranches}
LanesLeft == IF Groups = {} THEN {} ELSE Together \ RetiredNodes

\* What a drive starts with: the state, the lanes of a group it has to finish
\* and the state that group forked from.  A new Scheduler: nothing it counts
\* carries over -- not what was spent, not how many branches retired.
NewDrive ==
  [phase |-> "next", node |-> 0, at |-> 0, branch |-> 0, confirmed |-> 0, effect |-> 0,
   committed |-> StateBefore(Here), base |-> Obj(Inputs), lanes |-> LanesLeft,
   groupBase |-> IF Groups = {} THEN Obj(Inputs) ELSE StateBefore(Max(Groups)),
   guess |-> NoGuess, joining |-> <<>>, asked |-> FALSE, index |-> 0, retireSeq |-> 0,
   budget |-> FreshBudget, ok |-> TRUE, first |-> Here]

Finished == Kind(journal, {"run_finished"})
Done == Finished # {} /\ journal[Max(Finished)].ok

Begin(mode) ==
  /\ drive = Down
  /\ spent.drives < MaxDrives
  /\ Log(<<[kind |-> "run_started", mode |-> mode]>>)
  /\ drive' = NewDrive
  /\ spent' = [spent EXCEPT !.drives = @ + 1]
  /\ UNCHANGED <<claims, world, signed>>

Run == journal = <<>> /\ Begin("run")
Resume == journal # <<>> /\ ~Done /\ Begin("resume")

\* The process dies: what is journaled, claimed and sent stays.
Crash ==
  /\ drive # Down
  /\ spent.drives < MaxDrives
  /\ drive' = Down
  /\ UNCHANGED <<journal, claims, world, signed, spent>>

(***************************************************************************)
(* The loop: which node is next, and its branch.                           *)
(***************************************************************************)

\* The graph routes on committed state: every node leaves its number there.
Reached == Body(Body(drive.committed)["step"])
NextNode == IF drive.lanes # {} THEN Min(drive.lanes) ELSE Reached + 1

ForkGroup ==
  /\ drive.phase = "next"
  /\ drive.lanes = {}
  /\ NextNode \in Together
  /\ Log(<<[kind |-> "group_forked"]>>)
  /\ drive' = [drive EXCEPT !.lanes = Together, !.groupBase = drive.committed]
  /\ Quiet

Fork ==
  /\ drive.phase = "next"
  /\ NextNode \in Nodes
  /\ NextNode \in Together => drive.lanes # {}
  /\ Log(<<Forked(NextNode, FALSE)>>)
  /\ drive' = [drive EXCEPT
       !.phase = IF NextNode \in Guessing THEN "emit" ELSE "settle",
       !.node = NextNode,
       !.at = IF NextNode \in Guessing THEN 0 ELSE 1,
       !.branch = Here,
       !.index = 0,
       !.base = IF NextNode \in Together THEN drive.groupBase ELSE drive.committed,
       !.joining = [p \in 1 .. Positions[NextNode] |-> NoGuess]]
  /\ Quiet

(***************************************************************************)
(* A turn: the model emits its calls one by one, and after each the next   *)
(* is guessed if the gate lets it.                                         *)
(***************************************************************************)

Calls == Positions[drive.node]
CallsDone == drive.at = Calls
NowAt(p, phase, guess) ==
  drive' = [drive EXCEPT !.at = p, !.phase = phase, !.guess = guess]

\* A call arrives that nothing guessed, or the turn ends with no guess open.
Emit ==
  /\ drive.phase = "emit" /\ drive.guess = NoGuess
  /\ IF CallsDone THEN NowAt(1, "settle", NoGuess) ELSE NowAt(drive.at + 1, "guess", NoGuess)
  /\ UNCHANGED journal
  /\ Quiet

\* The gate is closed: said once in the journal, and nothing is guessed.
Closing(budget) == ShouldDisable(budget) # Open /\ budget.closed = Open
Closure(budget) == Policy("speculation_disabled", ShouldDisable(budget))

GateClosed ==
  /\ drive.phase = "guess"
  /\ ~MaySpeculate(drive.budget)
  /\ Log(IF Closing(drive.budget) THEN <<Closure(drive.budget)>> ELSE <<>>)
  /\ drive' = [drive EXCEPT !.phase = "emit",
                            !.budget = Disable(@, ShouldDisable(drive.budget))]
  /\ Quiet

NoCandidate ==
  /\ drive.phase = "guess"
  /\ MaySpeculate(drive.budget)
  /\ Goto("emit")
  /\ UNCHANGED journal
  /\ Quiet

\* A guess is a branch of its own, and the write it makes is staged there, at
\* the position the model's next call would have.
Guess ==
  /\ drive.phase = "guess"
  /\ MaySpeculate(drive.budget)
  /\ spent.guesses < MaxGuesses
  /\ Log(<<Forked(drive.node, TRUE),
           Staged(Here, <<drive.node, drive.at + 1>>, 0)>>)
  /\ drive' = [drive EXCEPT !.phase = "emit",
                            !.guess = [branch |-> Here, effect |-> Here + 1]]
  /\ spent' = [spent EXCEPT !.guesses = @ + 1]
  /\ UNCHANGED <<claims, world, signed>>

\* analyse refuses the candidate: a resolution, and no fork.  Its branch id is
\* one nothing else has.
Stall ==
  /\ drive.phase = "guess"
  /\ MaySpeculate(drive.budget)
  /\ spent.guesses < MaxGuesses
  /\ Log(<<Resolved(Here, "stalled", ForkStep(drive.node), 0, -1)>>)
  /\ Goto("emit")
  /\ spent' = [spent EXCEPT !.guesses = @ + 1]
  /\ UNCHANGED <<claims, world, signed>>

\* What a guess costs.
Tokens == 1

\* The next call is what was guessed, or it is not, or there is none: graded,
\* and the window's state journaled, before the guess itself is resolved.
Grade(hit) ==
  /\ drive.phase = "emit" /\ drive.guess # NoGuess
  /\ hit => ~CallsDone
  /\ Log(<<Policy("alpha_observed", "a prediction resolved")>>)
  /\ drive' = [drive EXCEPT !.phase = IF hit THEN "hit" ELSE "miss",
                            !.budget = Record(@, hit, Tokens)]
  /\ Quiet

Hit ==
  /\ drive.phase = "hit"
  /\ Log(<<Resolved(drive.guess.branch, "confirmed", ForkStep(drive.node), 0, -1)>>)
  /\ drive' = [drive EXCEPT !.at = @ + 1, !.phase = "guess", !.guess = NoGuess,
                            !.joining[drive.at + 1] = drive.guess]
  /\ Quiet

\* Squashed: what it staged is discarded, and what it cost goes on record.
Miss ==
  /\ drive.phase = "miss"
  /\ Log(<<[kind |-> "effect_discarded", branch |-> drive.guess.branch],
           Resolved(drive.guess.branch, "squashed", ForkStep(drive.node), Tokens, -1)>>)
  /\ IF CallsDone THEN NowAt(1, "settle", NoGuess) ELSE NowAt(drive.at + 1, "guess", NoGuess)
  /\ Quiet

(***************************************************************************)
(* The turn is journaled: its writes are staged, or adopted from the guess *)
(* that made them, and drained, one after the other.  The branch is        *)
(* confirmed, durably, before the first.                                   *)
(***************************************************************************)

Stage ==
  /\ drive.phase = "settle"
  /\ Writing
  /\ LET joined == drive.joining[drive.at]
     IN  /\ Log(<<IF joined = NoGuess
                  THEN Staged(drive.branch, Current, drive.at - 1)
                  ELSE [kind |-> "effect_adopted", branch |-> drive.branch]>>)
         /\ drive' = [drive EXCEPT
              !.phase = IF drive.at = 1 THEN "confirm" ELSE "claim",
              !.effect = IF joined = NoGuess THEN Here ELSE joined.effect,
              !.joining[drive.at] = NoGuess]
  /\ Quiet

Confirm ==
  /\ drive.phase = "confirm"
  /\ Log(<<Resolved(drive.branch, "confirmed", ForkStep(drive.node), 0, -1)>>)
  /\ drive' = [drive EXCEPT !.phase = IF Writing THEN "claim" ELSE "delta",
                            !.confirmed = Here]
  /\ Quiet

\* A node that writes nothing is confirmed and committed all the same.
NothingToWrite ==
  /\ drive.phase = "settle"
  /\ ~Writing
  /\ Goto(IF drive.at = 1 THEN "confirm" ELSE "delta")
  /\ UNCHANGED journal
  /\ Quiet

NextWrite == [drive EXCEPT !.phase = "settle", !.at = @ + 1]

(***************************************************************************)
(* The drain of one write.                                                 *)
(***************************************************************************)

Owned == [status |-> "in_flight", outcome |-> "unknown",
          effect |-> drive.effect, branch |-> drive.branch]
ClaimNow == claims[Current]

Claim ==
  /\ drive.phase = "claim"
  /\ ClaimNow.status = "none" \/ ClaimNow.outcome = "not_sent"
  /\ claims' = [claims EXCEPT ![Current] = Owned]
  /\ drive' = [drive EXCEPT !.phase = "send", !.asked = FALSE]
  /\ UNCHANGED <<journal, world, signed, spent>>

\* Delivered by an earlier drive: skipped, with no entry.
ClaimDelivered ==
  /\ drive.phase = "claim"
  /\ ClaimNow.status = "dispatched"
  /\ drive' = NextWrite
  /\ UNCHANGED journal
  /\ Quiet

ClaimAmbiguous ==
  /\ drive.phase = "claim"
  /\ ClaimNow.status \in {"in_flight", "dead_letter"} /\ ClaimNow.outcome # "not_sent"
  /\ drive' = [drive EXCEPT !.phase = "ask", !.asked = FALSE]
  /\ UNCHANGED journal
  /\ Quiet

InWorld(w) == \E i \in DOMAIN world : world[i] = w

HearLanded ==
  /\ drive.phase = "ask"
  /\ Current \in Asked /\ InWorld(Current)
  /\ Goto("record")
  /\ UNCHANGED journal
  /\ Quiet

HearAbsent ==
  /\ drive.phase = "ask"
  /\ Current \in Asked /\ ~InWorld(Current)
  /\ drive' = [drive EXCEPT !.phase = "send", !.asked = TRUE]
  /\ UNCHANGED journal
  /\ Quiet

HearNothing ==
  /\ drive.phase = "ask"
  /\ Current \notin Asked
  /\ Goto("bury")
  /\ UNCHANGED journal
  /\ Quiet

\* Sent, and answered.
Send ==
  /\ drive.phase = "send"
  /\ world' = Append(world, Current)
  /\ Goto("record")
  /\ UNCHANGED <<journal, claims, signed, spent>>

Fault == spent.faults < MaxFaults /\ spent' = [spent EXCEPT !.faults = @ + 1]

\* Refused before it left.
Refused ==
  /\ drive.phase = "send"
  /\ Fault
  /\ Goto("mark")
  /\ UNCHANGED <<journal, claims, world, signed>>

\* Sent, and no answer: it took effect or it did not.  The upstream is asked,
\* once.
ReplyLost(landed) ==
  /\ drive.phase = "send"
  /\ Fault
  /\ world' = IF landed THEN Append(world, Current) ELSE world
  /\ Goto(IF drive.asked THEN "bury" ELSE "ask")
  /\ UNCHANGED <<journal, claims, signed>>

Settled(status, outcome) ==
  claims' = [claims EXCEPT ![Current].status = status, ![Current].outcome = outcome]
EntryNow(kind, sent) ==
  Outcome(kind, drive.effect, drive.branch, Current, drive.at - 1, drive.index,
          drive.confirmed, sent)

\* The entry and the claim are one transaction.
Deliver ==
  /\ drive.phase = "record"
  /\ Log(<<EntryNow("effect_dispatched", "yes")>>)
  /\ Settled("dispatched", "settled")
  /\ drive' = [NextWrite EXCEPT !.index = @ + 1]
  /\ UNCHANGED <<world, signed, spent>>

MarkNotSent ==
  /\ drive.phase = "mark"
  /\ claims' = [claims EXCEPT ![Current].outcome = "not_sent"]
  /\ Goto("buryUnsent")
  /\ UNCHANGED <<journal, world, signed, spent>>

\* A dead letter: the claim stays closed unless the request never left.
Close(sent) == Settled("dead_letter", IF sent = "no" THEN "not_sent" ELSE "settled")

Bury ==
  /\ drive.phase \in {"bury", "buryUnsent"}
  /\ LET sent == IF drive.phase = "bury" THEN "maybe" ELSE "no"
     IN  /\ Log(<<EntryNow("effect_dead_lettered", sent)>>)
         /\ Close(sent)
  /\ Goto("halt")
  /\ UNCHANGED <<world, signed, spent>>

\* The node is stopped: guesses confirmed and not yet adopted are discarded.
Unadopted == {p \in DOMAIN drive.joining : drive.joining[p] # NoGuess}

Halt ==
  /\ drive.phase = "halt"
  /\ Log(FlattenSeq([i \in 1 .. Cardinality(Unadopted) |->
       LET guess == drive.joining[SetToSortSeq(Unadopted, <)[i]]
       IN  <<[kind |-> "effect_discarded", branch |-> guess.branch],
             Resolved(guess.branch, "squashed", ForkStep(drive.node), 0, -1)>>]))
  /\ drive' = [drive EXCEPT !.phase = "close", !.ok = FALSE]
  /\ Quiet

(***************************************************************************)
(* Retirement: the delta is durable before the entry that says the branch  *)
(* retired.                                                                *)
(***************************************************************************)

\* What the node leaves in its branch's copy of the state.
Wrote(base, node) ==
  LET out == Output[node]
      removed == {k \in DOMAIN out : out[k] = Gone}
  IN  Obj([k \in (Members(base) \cup DOMAIN out) \ removed |->
             IF k \in DOMAIN out THEN out[k] ELSE Body(base)[k]])

\* The state the node's delta gives, and the change it makes: none at all if the
\* node left the state as it found it, and that is not journaled.
Delta == Diff(drive.base, Wrote(drive.base, drive.node))
Result ==
  IF drive.node \in Together
  THEN CommitValues(drive.committed, Delta, Wrote(drive.base, drive.node))
  ELSE Commit(drive.committed, Delta)

ApplyDelta ==
  /\ drive.phase = "delta"
  /\ LET result == Result
     IN  /\ Log(IF Delta = <<>> THEN <<>>
                ELSE <<[kind |-> "state_delta_applied", branch |-> drive.branch,
                        patch |-> result.patch]>>)
         /\ drive' = [drive EXCEPT !.phase = "retire", !.committed = result.state]
  /\ Quiet

Retire ==
  /\ drive.phase = "retire"
  /\ Log(<<Resolved(drive.branch, "retired", ForkStep(drive.node), 0, drive.retireSeq + 1)>>)
  /\ drive' = [drive EXCEPT !.phase = "next", !.retireSeq = @ + 1,
                            !.lanes = @ \ {drive.node}]
  /\ Quiet

(***************************************************************************)
(* The end of a drive.                                                     *)
(***************************************************************************)

LoopEnds ==
  /\ drive.phase = "next"
  /\ NextNode \notin Nodes
  /\ Goto("close")
  /\ UNCHANGED journal
  /\ Quiet

\* A closure nothing else announced.
CloseGateIfSpent(budget) == IF Closing(budget) THEN <<Closure(budget)>> ELSE <<>>

CloseGate ==
  /\ drive.phase = "close"
  /\ Log(CloseGateIfSpent(drive.budget))
  /\ drive' = [drive EXCEPT !.phase = "finish",
                            !.budget = Disable(@, ShouldDisable(drive.budget))]
  /\ Quiet

\* A run is not done while a write it claimed may have gone out.
AccountForClaims(ok) == ok /\ Unsettled(claims) = {}

Finish ==
  /\ drive.phase = "finish"
  /\ Log(<<[kind |-> "run_finished", ok |-> AccountForClaims(drive.ok)]>>)
  /\ drive' = Down
  /\ Quiet

(***************************************************************************)
(* With the process down: the operator, who has checked the upstream, says *)
(* what became of a write, or signs the ledger as it stands.               *)
(***************************************************************************)

LastDeadLetter(w) ==
  LET dead == {o \in Kind(journal, {"effect_dead_lettered"}) : journal[o].write = w}
  IN  IF dead = {} THEN -1 ELSE journal[Max(dead)].authorisedBy

Resolvable(w) == drive = Down /\ claims[w].status \in {"in_flight", "dead_letter"}

ResolveLanded(w) ==
  /\ Resolvable(w) /\ InWorld(w)
  /\ Log(<<Outcome("effect_dispatched", claims[w].effect, claims[w].branch, w, -1, -1,
                   LastDeadLetter(w), "yes")>>)
  /\ claims' = [claims EXCEPT ![w].status = "dispatched", ![w].outcome = "settled"]
  /\ UNCHANGED <<world, drive, signed, spent>>

ResolveNotSent(w) ==
  /\ Resolvable(w) /\ ~InWorld(w) /\ claims[w].outcome # "not_sent"
  /\ Log(<<Policy("effect_resolved", "never took effect")>>)
  /\ claims' = [claims EXCEPT ![w].status = "dead_letter", ![w].outcome = "not_sent"]
  /\ UNCHANGED <<world, drive, signed, spent>>

SignLedger ==
  /\ drive = Down /\ journal # <<>> /\ signed = 0
  /\ signed' = Len(journal)
  /\ UNCHANGED <<journal, claims, world, drive, spent>>

Loop == ForkGroup \/ Fork \/ LoopEnds \/ CloseGate \/ Finish
Turn == Emit \/ GateClosed \/ NoCandidate \/ Guess \/ Stall
        \/ (\E hit \in BOOLEAN : Grade(hit)) \/ Hit \/ Miss
Drain == Stage \/ Confirm \/ NothingToWrite \/ Claim \/ ClaimDelivered \/ ClaimAmbiguous
         \/ HearLanded \/ HearAbsent \/ HearNothing
         \/ Send \/ Refused \/ (\E landed \in BOOLEAN : ReplyLost(landed))
         \/ Deliver \/ MarkNotSent \/ Bury \/ Halt
Operator == SignLedger \/ \E w \in Writes : ResolveLanded(w) \/ ResolveNotSent(w)

Next == Run \/ Resume \/ Crash \/ Loop \/ Turn \/ Drain \/ ApplyDelta \/ Retire \/ Operator

Spec == Init /\ [][Next]_vars

-----------------------------------------------------------------------------

\* What the ledger says, read with no process running: every write in the world
\* has its one row or is listed as one that may have been sent, every row that
\* says "dispatched" is in the world, no write has two rows, and only a row that
\* stands on an operator's word makes a run read as sending out of order.
OnAnOperatorsWord(row) ==
  \A o \in Kind(journal, {"effect_dispatched"}) : journal[o].write = row.write => journal[o].index < 0
ReceiptAccountsForTheWorld ==
  drive = Down =>
    LET rows == Rows(journal)
        sent == {r.write : r \in SentRows(journal)}
    IN  /\ \A w \in Writes :
             /\ w \in sent => InWorld(w)
             /\ InWorld(w) => w \in sent \cup Unsettled(claims)
        /\ \A r, s \in rows : r.write = s.write => r = s
        /\ OrderAnomalies(journal) # {} => \E r \in SentRows(journal) : OnAnOperatorsWord(r)

\* A signature that verifies is of a ledger that is still true: what it says
\* was sent was, and what is in the world beyond it is listed as unsettled.
VerifiedReceiptIsTrue ==
  LET then == SubSeq(journal, 1, signed)
      sent == {r.write : r \in SentRows(then)}
  IN  drive = Down /\ signed # 0 /\ VerifyLedger(then, journal) = "OK" =>
        \A w \in Writes :
          /\ w \in sent => InWorld(w)
          /\ InWorld(w) => w \in sent \cup Unsettled(claims)

\* Whatever it took to get there -- crashes, guesses, dead letters, an operator
\* -- a run that reports success shows the receipt it would have shown had
\* nothing happened to it.
SameReceiptAsUninterrupted ==
  drive = Down /\ Done =>
    /\ Comparable(journal, claims)
    /\ NormalisedRows(journal) =
         {[write |-> w, authorised |-> ForkStep(w[1]), status |-> "DISPATCHED"] : w \in Writes}

\* The state a node leaves, said without patches: each key it changed, handed
\* to its reducer with the value committed so far.
Plainly(document, n, base) ==
  LET out == Output[n]
      changed == {k \in DOMAIN out : out[k] # At(Body(base), k)}
      gone == {k \in changed : out[k] = Gone}
  IN  Obj([k \in (Members(document) \cup changed) \ gone |->
             IF k \notin changed THEN Body(document)[k]
             ELSE IF HasReducer(k) THEN Reduce(Reducers[k], At(Body(document), k), out[k])
             ELSE out[k]])
PlainState[n \in 0 .. LastNode] ==
  IF n = 0 THEN Obj(Inputs)
  ELSE Plainly(PlainState[n - 1], n,
         IF n \in Together THEN PlainState[Min(Together) - 1] ELSE PlainState[n - 1])

\* The state a resume rebuilds from the journal, and the one a drive holds, are
\* what the nodes that retired leave when they run one after the other.
StateIsAsPlainlyRun ==
  /\ drive = Down => StateBefore(Here) = PlainState[Cardinality(RetiredNodes)]
  /\ drive # Down /\ drive.phase = "next" =>
       drive.committed = PlainState[Cardinality(RetiredNodes)]

\* The gate, read from the record alone: within one drive, what its squashed
\* guesses cost and how the last Window of its guesses went say whether it may
\* guess again -- and no guess is opened once they say no, a closure is
\* recorded only then, with its reason, once, and never left unsaid by a drive
\* that finished.
Graded(from, to) ==
  {o \in Kind(journal, {"branch_resolved"}) : o >= from /\ o < to
     /\ \E f \in Kind(journal, {"branch_forked"}) : f = journal[o].branch /\ journal[f].guess
     /\ \A d \in Resolutions(journal, journal[o].branch, Statuses) : d >= o}
SpeaksAgainst(from, to) ==
  LET graded == Graded(from, to)
      late == {o \in graded : Cardinality({d \in graded : d > o}) < Window}
      missed == {o \in graded : journal[o].status = "squashed"}
  IN  CASE Cardinality(missed) * Tokens >= MaxWasted -> "max_wasted_tokens"
        [] Cardinality(missed) * Tokens < MaxWasted /\ Cardinality(late) = Window
           /\ Cardinality(late \ missed) * FloorDen < FloorNum * Window -> "alpha_below_floor"
        [] OTHER -> Open

DriveOf(o) == Max({s \in Kind(journal, {"run_started"}) : s <= o})
Closures == {o \in Kind(journal, {"policy_event"}) : journal[o].event = "speculation_disabled"}

GateFollowsTheRecord ==
  drive = Down =>
    /\ \A o \in Kind(journal, {"branch_forked"}) :
         journal[o].guess => SpeaksAgainst(DriveOf(o), o) = Open
    /\ \A o \in Closures :
         /\ journal[o].reason = SpeaksAgainst(DriveOf(o), o)
         /\ \A d \in Closures : DriveOf(d) = DriveOf(o) => d = o
    /\ \A o \in Finished :
         SpeaksAgainst(DriveOf(o), o) # Open => \E d \in Closures : DriveOf(d) = DriveOf(o)

\* ledger.py says its rows are the order in which things left, and
\* ledger_matches_world holds it to that.
LedgerMatchesTheWorldItMade ==
  drive = Down /\ Done => LedgerMatchesWorld(journal, world)
=============================================================================
