SPECIFICATION Spec
CONSTANTS
  Last = 3
  Writers = {1, 3, 4}
  Early <- MCEarly
  Late <- MCLate
  Reads <- MCReads
  Touches <- MCTouches
  TouchesLate <- MCTouchesLate
  Reducible = {"sum"}
  MaxResumes = 2
INVARIANTS GroupRunsInPlace GroupSendsOnce LanesInOrder NoSilentOverwrite
PROPERTY NothingSentOnAClash
CHECK_DEADLOCK FALSE
