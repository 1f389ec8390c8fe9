--------------------------- MODULE SequentialTurn ---------------------------
(***************************************************************************)
(* A model turn run without speculation, as the world sees it: the node's  *)
(* earlier write, then - only if the whole reply was journaled - the calls *)
(* it asked for, one after another, with none left out in between, then    *)
(* whatever the node writes next.  A read of the reply that no write of    *)
(* the turn can change answers the same whenever it is made, and however   *)
(* often: it commutes with everything.  An aside is a read nobody asked     *)
(* for: it is answered from before anything the turn decided.              *)
(***************************************************************************)
EXTENDS Integers, Sequences

CONSTANTS Asked, Reads, Dependent, Asides

VARIABLES made,     \* the calls made, in order
          outcome   \* what became of the turn

SeqOwn == 0
SeqLater == Asked + 1
Commuting == Reads \ Dependent
InOrder == (1 .. Asked) \ Commuting

Made == {made[i] : i \in DOMAIN made}

SeqInit == made = <<>> /\ outcome = "none"

\* The reply is journaled, or the turn fails; a caller that gave up while the
\* reply was being written never has it.
TurnOutcome ==
  /\ Made \cap InOrder = {}
  /\ \/ outcome = "none" /\ outcome' \in {"answered", "failed"}
     \/ outcome = "answered" /\ outcome' = "failed"
  /\ UNCHANGED made

Make(c) == made' = Append(made, c) /\ UNCHANGED outcome

MakeOwn == Made \subseteq Commuting \cup Asides /\ Make(SeqOwn)

MakeBlock(k) ==
  /\ outcome = "answered"
  /\ k \notin Made /\ SeqLater \notin Made
  /\ \A j \in InOrder : j < k => j \in Made
  /\ Make(k)

MakeLater ==
  /\ outcome # "none"
  /\ SeqLater \notin Made
  /\ Make(SeqLater)

MakeAside(c) == Made \cap (InOrder \cup {SeqLater}) = {} /\ Make(c)

SeqNext ==
  \/ TurnOutcome \/ MakeOwn \/ MakeLater
  \/ (\E k \in InOrder : MakeBlock(k)) \/ (\E k \in Commuting : Make(k))
  \/ (\E c \in Asides : MakeAside(c))

SeqSpec == SeqInit /\ [][SeqNext]_<<made, outcome>>
=============================================================================
