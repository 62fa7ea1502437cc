SPECIFICATION Spec
CONSTANTS
  NumSymbols = 3
  BandGap = 30
  NumWordModules = 3
  MaxMultiWordSize = 2
  ReferenceFrameSize = 14
  Index = 1
  Threads = {t1}
  Free = Free
  Corpus <- PairsCorpus
  Starts <- FromOneWord
  Inputs <- MCInputs
  Link <- MCLink
PROPERTIES
  KeepsMaximum
