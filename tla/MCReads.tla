------------------------------- MODULE MCReads -------------------------------
(* One task reads and writes twice over, beside one that does so once, and a    *)
(* third that only reads.                                                       *)
EXTENDS Reads, TLC

Read(r) == [does |-> "read", row |-> r]
Write(r) == [does |-> "write", row |-> r]

CONSTANTS a, b, look, x, y

MCScript ==
  (a :> <<Read(x), Write(y), Read(x), Write(y)>>) @@ (b :> <<Read(y), Write(x)>>)
    @@ (look :> <<Read(x)>>)
=============================================================================
