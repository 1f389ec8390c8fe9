CONSTANTS
  r1 = r1
  r2 = r2
  r3 = r3
  charge = charge
  refund = refund
  None = None
  Requests = {r1, r2, r3}
  Decisions = {charge, refund}
  Wants <- MCWants
  Reports = {one, two}
  MaxDrops = 1
SYMMETRY Interchangeable
SPECIFICATION Spec
INVARIANTS OneSendPerDecision ToldOfItsOwn ReleasedWithItsAnswer
CHECK_DEADLOCK FALSE
