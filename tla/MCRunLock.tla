----------------------------- MODULE MCRunLock -----------------------------
(* Two drivers in one process and one in another.                           *)
EXTENDS RunLock, TLC

CONSTANTS a, b, c, home, away

InOneProcess == Permutations({a, b})
MCHome == (a :> home) @@ (b :> home) @@ (c :> away)
=============================================================================
