--------------------------- MODULE MCServedTurns ---------------------------
(* Two questions at most, one of them streamed, and one write, over three   *)
(* attempts, with new code once and one write refused.                      *)
EXTENDS ServedTurns
=============================================================================
