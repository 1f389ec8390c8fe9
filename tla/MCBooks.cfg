CONSTANTS
  KeyOrder <- MCKeyOrder
  Reducers <- MCReducers
  Window = 2
  FloorNum = 1
  FloorDen = 1
  MaxWasted = 2
  Positions <- MCPositions
  Guessing <- MCGuessing
  Together <- MCTogether
  Output <- MCOutput
  Inputs <- MCInputs
  Asked <- MCAsked
  MaxDrives = 2
  MaxFaults = 1
  MaxGuesses = 2
CHECK_DEADLOCK FALSE
SPECIFICATION Spec
INVARIANTS ReceiptAccountsForTheWorld VerifiedReceiptIsTrue SameReceiptAsUninterrupted StateIsAsPlainlyRun GateFollowsTheRecord
