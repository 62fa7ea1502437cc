SPECIFICATION Spec
CONSTANTS
  NumSymbols = 2
  BandGap = 30
  NumWordModules = 5
  MaxMultiWordSize = 4
  ReferenceFrameSize = 14
  Index = 1
  Threads = {t1}
  Free = Free
  Corpus <- PalindromeCorpus
  Starts <- FromOneWord
  Inputs <- MCInputs
  Link <- MCLink
INVARIANTS
  KnowledgeBaseExists
PROPERTIES
  RefinesRound
