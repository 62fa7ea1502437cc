\* A beginning padded with empty strings.
SPECIFICATION Spec
CONSTANTS
  a = a
  b = b
  NumWordModules = 5
  MaxMultiWordSize = 4
  Words = {a, b}
  Phrases <- MCPhrases
  Unknown = unknown
  Hole = hole
  Dummy = dummy
  Requests <- PaddedRequests
  MaxCalls = 1
INVARIANTS
  WordsObserved
