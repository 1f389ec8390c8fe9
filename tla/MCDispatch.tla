----------------------------- MODULE MCDispatch -----------------------------
(* Three writes, one of each kind of tool: 1 has a `reconcile`, 2 declared   *)
(* repeats harmless, 3 has neither.                                          *)
EXTENDS Dispatch

MCIdempotent == {2}
MCReconcilable == {1}
=============================================================================
