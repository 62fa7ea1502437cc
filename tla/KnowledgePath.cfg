SPECIFICATION Spec
CONSTANTS
  NumSymbols = 3
  BandGap = 30
  LinkStrength <- MCLinkStrength
  Inputs <- MCInputs
  Levels = {1, 2}
  MaxCol = 65535
  MinBuckets = 2
  Null = Null
  MaxLinks = 3
  MaxTotal = 100
INVARIANTS
  NoAccident
  MultiplyAgrees
PROPERTY
  RefinesKnowledge
