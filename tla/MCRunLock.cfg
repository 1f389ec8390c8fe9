CONSTANTS
  a = a
  b = b
  c = c
  home = home
  away = away
  None = None
  Drivers = {a, b, c}
  Processes = {home, away}
  Home <- MCHome
  MaxEntries = 2
  Losses = 1
  Failures = 1
SYMMETRY InOneProcess
SPECIFICATION Spec
INVARIANTS OneHolder OneLateSend ChainIsWhole FinishedIsLast
