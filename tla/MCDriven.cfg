CONSTANTS
  a = a
  b = b
  Nodes <- MCNodes
  Supersteps <- MCSupersteps
  MaxSupersteps = 2
  MaxCalls = 2
CHECK_DEADLOCK FALSE
SPECIFICATION Spec
INVARIANTS EveryVisitSendsItsOwn NoVerdictIsLost
