\* Every vocabulary of three phrases, and every sentence of up to six tokens on
\* levels of five modules; a sentence of the maximal length has no successor.
SPECIFICATION LayoutSpec
CONSTANTS
  a = a
  b = b
  Tokens = {a, b}
  MaxLength = 4
  NumWordModules = 5
  MaxMultiWordSize = 4
  Words = {a, b}
  Phrases <- MCPhrases
  Unknown = unknown
  Hole = hole
  MaxSentence = 6
INVARIANTS
  StoresWhatWasAdded
  LongestMatch
  AllMatches
  PhrasesInPlace
  NothingMissed
  WordsInPlace
PROPERTIES
  PastIsSettled
CHECK_DEADLOCK FALSE
