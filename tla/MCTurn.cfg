CONSTANTS
  Placeholders <- MCPlaceholders
  Reply <- MCReply
  Registry <- MCRegistry
  Policy <- MCPolicy
  Misguesses <- MCMisguesses
  Touches <- MCTouches
SPECIFICATION Spec
INVARIANTS OnlyDecidedCallsSent SentInProgramOrder NothingIsLost PositionsAreNotTiming
PROPERTY SpeculationPreservesSemantics
