------------------------------- MODULE Ledger -------------------------------
(***************************************************************************)
(* The receipt: what journal/ledger.py makes of a run's journal, what a    *)
(* signature covers, and the relation verify/equivalence.py compares two   *)
(* runs by.  Pure operators over a journal (a sequence of entries, their   *)
(* positions the offsets) and a claim table.  An effect is named by its    *)
(* dedupe key; an effect id and a branch id are the offset of the entry    *)
(* that introduced them.                                                   *)
(***************************************************************************)
EXTENDS Integers, Sequences, SequencesExt, FiniteSets, FiniteSetsExt

Kind(journal, kinds) == {o \in DOMAIN journal : journal[o].kind \in kinds}

(***************************************************************************)
(* Branches: what the journal says became of each.                         *)
(***************************************************************************)

Resolutions(journal, branch, statuses) ==
  {o \in Kind(journal, {"branch_resolved"}) :
     journal[o].branch = branch /\ journal[o].status \in statuses}

Statuses == {"confirmed", "retired", "squashed", "stalled"}
ResolvedBranches(journal) ==
  {journal[o].branch : o \in Kind(journal, {"branch_resolved"})}
FinalStatus(journal, branch) ==
  journal[Max(Resolutions(journal, branch, Statuses))].status

Outcomes(journal) == Kind(journal, {"effect_dispatched", "effect_dead_lettered"})

\* Where a branch first counts: its confirming entry, or -- confirmed by none --
\* the first outcome of a write of its own.
Ranked(journal) ==
  {b \in ResolvedBranches(journal) :
     Resolutions(journal, b, {"confirmed", "retired"}) # {}}
  \cup {journal[o].branch : o \in Outcomes(journal)}
FirstSeen(journal, branch) ==
  LET resolved == Resolutions(journal, branch, {"confirmed", "retired"})
  IN  IF resolved # {} THEN Min(resolved)
      ELSE Min({o \in Outcomes(journal) : journal[o].branch = branch})

Retired(journal) ==
  {b \in ResolvedBranches(journal) : Resolutions(journal, b, {"retired"}) # {}}
RetireSeq(journal, branch) ==
  journal[Max(Resolutions(journal, branch, {"retired"}))].retireSeq

\* All or nothing: the ordinals the journal holds, if it holds one for every
\* branch that counts, and the order of confirmation otherwise.
Derived(journal, branch) ==
  Cardinality({b \in Ranked(journal) :
                 FirstSeen(journal, b) < FirstSeen(journal, branch)})
RetireOrder(journal, branch) ==
  IF Retired(journal) # {} /\ Ranked(journal) \subseteq Retired(journal)
  THEN RetireSeq(journal, branch)
  ELSE Derived(journal, branch)

(***************************************************************************)
(* Rows.                                                                   *)
(***************************************************************************)

\* The step of the confirming turn: from the entry the outcome names, or from
\* the confirming entry of its branch.  Defect: the offset of that entry.
ByOffset(journal, o) == journal[o].authorisedBy
AuthorisedByStep(journal, o) ==
  LET named == journal[o].authorisedBy
      own == Resolutions(journal, journal[o].branch, {"confirmed"})
  IN  IF named \in DOMAIN journal THEN journal[named].step
      ELSE IF own # {} THEN journal[Min(own)].step
      ELSE -1

\* Recorded by an operator, an outcome has no place of its own: the one it was
\* staged at -- on the branch that staged it -- stands in.
DispatchIndex(journal, o) ==
  IF journal[o].index >= 0 THEN journal[o].index
  ELSE journal[journal[o].effect].stage

Row(journal, o, status) ==
  [write |-> journal[o].write,
   effect |-> journal[o].effect,
   branch |-> journal[o].branch,
   step |-> journal[journal[o].effect].step,
   stage |-> IF journal[o].stage >= 0 THEN journal[o].stage
             ELSE journal[journal[o].effect].stage,
   index |-> DispatchIndex(journal, o),
   rank |-> RetireOrder(journal, journal[o].branch),
   authorised |-> AuthorisedByStep(journal, o),
   status |-> status]

\* A dead letter is the last word on its write unless the write went out later:
\* one effect, one outcome.  Defect: it keeps its row whatever came after it.
EveryDeadLetter(journal) == Kind(journal, {"effect_dead_lettered"})
StandingDeadLetters(journal) ==
  {o \in Kind(journal, {"effect_dead_lettered"}) :
     /\ \A d \in Kind(journal, {"effect_dispatched"}) : journal[d].write # journal[o].write
     /\ \A d \in Kind(journal, {"effect_dead_lettered"}) :
          journal[d].write = journal[o].write => d <= o}

SentRows(journal) ==
  {Row(journal, o, "DISPATCHED") : o \in Kind(journal, {"effect_dispatched"})}
Rows(journal) ==
  SentRows(journal)
  \cup {Row(journal, o, "DEAD_LETTER") : o \in StandingDeadLetters(journal)}

RowBefore(r, s) ==
  \/ r.rank < s.rank
  \/ r.rank = s.rank /\ r.index < s.index
  \/ r.rank = s.rank /\ r.index = s.index /\ r.effect < s.effect
Ordered(rows) == SetToSortSeq(rows, RowBefore)

\* The places at which a branch's sent writes, in ledger order, are not those of
\* the program's order: position, then stage.
ProgramBefore(r, s) == r.step < s.step \/ (r.step = s.step /\ r.stage < s.stage)
OrderAnomalies(journal) ==
  LET sent == SentRows(journal)
      OfBranch(b) == {r \in sent : r.branch = b}
  IN  UNION {{<<b, i>> : i \in {j \in 1 .. Cardinality(OfBranch(b)) :
                SetToSortSeq(OfBranch(b), ProgramBefore)[j] # Ordered(OfBranch(b))[j]}} :
              b \in {r.branch : r \in sent}}

(***************************************************************************)
(* The aggregates beside the rows.                                         *)
(***************************************************************************)

WastedTokens(journal) ==
  FoldSet(LAMBDA o, sum : journal[o].tokens + sum, 0,
      {o \in Kind(journal, {"branch_resolved"}) :
         /\ journal[o].status \in {"squashed", "stalled"}
         /\ FinalStatus(journal, journal[o].branch) = journal[o].status})

Discarded(journal) == Cardinality(Kind(journal, {"effect_discarded"}))
Squashed(journal) ==
  Cardinality({b \in ResolvedBranches(journal) : FinalStatus(journal, b) = "squashed"})

PolicyEvents(journal) ==
  LET events == SetToSortSeq(Kind(journal, {"policy_event"}), <)
  IN  [i \in DOMAIN events |-> journal[events[i]].event]

\* Why speculation was switched off: the last closure's reason.
DisabledReason(journal) ==
  LET closures == {o \in Kind(journal, {"policy_event"}) :
                     journal[o].event = "speculation_disabled"}
  IN  IF closures = {} THEN "open" ELSE journal[Max(closures)].reason

\* Guesses refused before they were opened, by the position they were refused at.
Stalls(journal) ==
  LET refused == {o \in Kind(journal, {"branch_resolved"}) : journal[o].status = "stalled"}
  IN  SortSeq([i \in 1 .. Cardinality(refused) |-> journal[SetToSortSeq(refused, <)[i]].step], <)

Terminal(journal) == Kind(journal, {"run_finished"}) # {}

\* Effects that may be in the world and that nothing has settled: read from the
\* claims, and never signed.
Unsettled(claims) ==
  {w \in DOMAIN claims :
     claims[w].status \in {"in_flight", "dead_letter"} /\ claims[w].outcome # "not_sent"}

(***************************************************************************)
(* What a signature covers.  The chain a ledger binds itself to stops      *)
(* before the first run_finished entry.  Defect: the binding is all that   *)
(* is signed.                                                              *)
(***************************************************************************)

JournalHead(journal) ==
  LET finished == Kind(journal, {"run_finished"})
  IN  IF finished = {} THEN journal ELSE SubSeq(journal, 1, Min(finished) - 1)

\* Everything is folded from the entries: nothing is taken from what the run
\* reported of itself.  The counts of reads, contexts and the window's contents
\* are left out: no entry here carries them.
BuildLedger(journal) ==
  [rows |-> Ordered(Rows(journal)),
   squashed_branches |-> Squashed(journal),
   discarded_effects |-> Discarded(journal),
   stalls |-> Stalls(journal),
   wasted_tokens |-> WastedTokens(journal),
   speculation_disabled_reason |-> DisabledReason(journal),
   dispatch_order_anomalies |-> OrderAnomalies(journal),
   policy_events |-> PolicyEvents(journal),
   journal_head |-> JournalHead(journal),
   terminal |-> Terminal(journal)]

\* Whether the run has finished is in the ledger and not in what is signed: it is
\* known only after the signature is made.
BindingOnly(journal) == JournalHead(journal)
LedgerPayload(journal) == [BuildLedger(journal) EXCEPT !.terminal = FALSE]

\* signed is the journal as it was when its ledger was signed; the ledger is
\* rebuilt from the journal as it is now, and the signature checked on that.
VerifyLedger(signed, journal) ==
  IF LedgerPayload(journal) = LedgerPayload(signed) THEN "OK" ELSE "INTEGRITY"

(***************************************************************************)
(* verify/equivalence.py: the fields two runs are compared on, and whether *)
(* a ledger accounts for the world, write for write and in order.          *)
(***************************************************************************)

NormalisedRows(journal) ==
  {[write |-> r.write, authorised |-> r.authorised, status |-> r.status] :
     r \in Rows(journal)}

Comparable(journal, claims) == Terminal(journal) /\ Unsettled(claims) = {}

LedgerMatchesWorld(journal, world) ==
  LET sent == Ordered(SentRows(journal))
  IN  [i \in DOMAIN sent |-> sent[i].write] = world
=============================================================================
