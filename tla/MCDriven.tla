------------------------------ MODULE MCDriven ------------------------------
(* Two nodes side by side, then again, or one of them visited again alone. *)
EXTENDS Driven

CONSTANTS a, b
MCNodes == {a, b}
MCSupersteps == {<<b>>, <<a, b>>}
=============================================================================
