SPECIFICATION FairSpec
CONSTANTS
  NumSymbols = 2
  BandGap = 30
  NumWordModules = 3
  MaxMultiWordSize = 4
  ReferenceFrameSize = 14
  Index = 1
  Threads = {t1, t2}
  Free = Free
  Corpus <- ShrinkingCorpus
  Starts <- FromZero
  Inputs <- MCInputs
  Link <- MCLink
INVARIANTS
  TypeOK
  NoWaitCycle
  TransferIsExclusive
  SettledAboveBand
  SweepsBounded
  LevelsPaid
PROPERTIES
  Terminates
\* A state in which every thread is blocked is a violation of Terminates.
CHECK_DEADLOCK FALSE
