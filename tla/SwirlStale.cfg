SPECIFICATION Spec
CONSTANTS
  NumSymbols = 3
  BandGap = 30
  NumWordModules = 3
  MaxMultiWordSize = 2
  ReferenceFrameSize = 14
  Index = 1
  Threads = {t1, t2}
  Free = Free
  Corpus <- PairsCorpus
  Starts <- FromTwo
  Inputs <- MCInputs
  Link <- MCLink
SYMMETRY Symmetry
INVARIANTS
  TransfersSomething
