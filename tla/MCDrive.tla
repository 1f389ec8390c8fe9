------------------------------- MODULE MCDrive -------------------------------
(* Two nodes, the first of two positions and the second of one. *)
EXTENDS Drive

MCBegins == <<0, 2, 3>>
=============================================================================
