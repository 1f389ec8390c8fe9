------------------------------ MODULE MCGroup ------------------------------
(* Three lanes and the node after them.                                     *)
EXTENDS Group

MCEarly == <<1, 2, 1, 1>>
MCLate == <<2, 0, 0, 0>>
MCReads == <<{}, {}, {1}>>
MCTouches == <<{"sum"}, {"a"}, {}>>
MCTouchesLate == <<{"a"}, {}, {"a", "sum"}>>
=============================================================================
