SPECIFICATION FairSpec
INVARIANTS
  EveryPairLearned
  OnlyTheText
  Probabilities
  PositionNeutralInside
PROPERTIES
  NoStretchCut
  Finishes
CONSTANTS
  a = a
  b = b
  unknown = unknown
  hole = hole
  NumWordModules = 4
  MaxMultiWordSize = 2
  ReferenceFrameSize = 3
  Words <- MCWords
  Phrases <- MCPhrases
  Unknown <- unknown
  Hole <- hole
  Texts <- MCTexts
CHECK_DEADLOCK FALSE
