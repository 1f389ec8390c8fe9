CONSTANTS
  Placeholders <- MCPlaceholders
  Reply <- MCShortReply
  Registry <- MCRegistry
  Policy <- MCPolicy
  Misguesses <- MCMisguesses
  Touches <- MCShortTouches
SPECIFICATION FairSpec
PROPERTIES TurnEnds ReturnedNodeRetires
