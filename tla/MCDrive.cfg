CONSTANTS
  Last = 2
  Begins <- MCBegins
  Decisions = {charge, refund}
  MaxResumes = 2
CHECK_DEADLOCK FALSE
SPECIFICATION Spec
INVARIANTS RunsInPlace SentOnceInTurn RetirementIsWhole SuccessIsWhole
