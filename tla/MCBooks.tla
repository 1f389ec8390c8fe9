------------------------------- MODULE MCBooks -------------------------------
(* A turn of two writes, guessed; then two lanes of one write each. *)
EXTENDS Books

MCKeyOrder == <<"cart", "log", "step", "top">>
MCReducers == [log |-> "append", step |-> "max", top |-> "max"]
MCPositions == <<2, 1, 1>>
MCInputs == [cart |-> List(<<Num(1), Num(2), Num(3)>>), step |-> Num(0), log |-> List(<<>>)]
MCOutput == <<
  [cart |-> List(<<Num(7)>>), log |-> List(<<Num(1)>>), step |-> Num(1)],
  [log |-> List(<<Num(1), Num(2)>>), step |-> Num(2), top |-> Num(5)],
  [cart |-> Gone, log |-> List(<<Num(3)>>), step |-> Num(3), top |-> Num(4)]>>
MCGuessing == {1, 2}
MCTogether == {2, 3}
MCAsked == {<<2, 1>>}
=============================================================================
