------------------------------- MODULE Budget -------------------------------
(***************************************************************************)
(* What speculation may cost: the rolling window of graded guesses, and    *)
(* the run-level budgets that close the gate (core/policy.py).  One value  *)
(* of a drive's budget at a time; every operator gives the next one.  The  *)
(* guesses graded are those of a drafter (tiers 1 and 2): tier 0 never     *)
(* forks a branch and is never graded.                                     *)
(***************************************************************************)
EXTENDS Naturals, Sequences, SequencesExt

CONSTANTS Window,    \* alpha_window: guesses graded before the rate is judged
          FloorNum,  \* alpha_floor, as a fraction
          FloorDen,
          MaxWasted  \* max_wasted_tokens

ASSUME PolicyAssumption ==
  /\ Window \in Nat \ {0}
  /\ FloorNum \in Nat /\ FloorDen \in Nat \ {0} /\ FloorNum <= FloorDen
  /\ MaxWasted \in Nat

Open == "open"
FreshBudget == [samples |-> <<>>, wasted |-> 0, closed |-> Open]

HitsIn(samples) == Len(SelectSeq(samples, LAMBDA s : s))

\* The window keeps the last ones.
LastOf(samples) ==
  SubSeq(samples, IF Len(samples) <= Window THEN 1 ELSE Len(samples) - Window + 1,
         Len(samples))

\* Only a miss wastes its tokens.
Record(budget, hit, tokens) ==
  [budget EXCEPT !.samples = LastOf(Append(@, hit)),
                 !.wasted = IF hit THEN @ ELSE @ + tokens]

Disable(budget, reason) == [budget EXCEPT !.closed = reason]

\* Unknown is never below: the rate is judged once the window is full.
Below(samples) ==
  /\ Len(samples) >= Window
  /\ HitsIn(samples) * FloorDen < FloorNum * Len(samples)

\* A spent budget is named before a poor rate.  Defect: a ceiling counts as
\* spent only once it is passed.
PassedOnly(budget) == budget.wasted > MaxWasted
Exhausted(budget) == budget.wasted >= MaxWasted

ShouldDisable(budget) ==
  CASE budget.closed # Open -> budget.closed
    [] budget.closed = Open /\ Exhausted(budget) -> "max_wasted_tokens"
    [] budget.closed = Open /\ ~Exhausted(budget) /\ Below(budget.samples) ->
         "alpha_below_floor"
    [] OTHER -> Open

MaySpeculate(budget) == ShouldDisable(budget) = Open
=============================================================================
