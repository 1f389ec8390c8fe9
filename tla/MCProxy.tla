------------------------------ MODULE MCProxy ------------------------------
(* Three calls, two of them the same write, and two reports of a decision.  *)
EXTENDS Proxy, TLC

CONSTANTS r1, r2, r3, charge, refund

MCWants == (r1 :> charge) @@ (r2 :> charge) @@ (r3 :> refund)
Interchangeable == Permutations({r1, r2}) \cup Permutations(Reports)
=============================================================================
