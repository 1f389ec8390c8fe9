CONSTANTS
  Questions = {ask_x, ask_y}
  Answers = {yes}
  Streamed = {ask_x}
  MaxAsks = 2
  MaxWrites = 1
  MaxAttempts = 3
  Changes = 1
  Refusals = 1
SPECIFICATION Spec
INVARIANTS OneDecision ServedNodeGoesOn ReplayReproduces
CHECK_DEADLOCK FALSE
