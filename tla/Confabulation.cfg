\* Every kind of request, two calls one after the other, fair.
SPECIFICATION FairSpec
CONSTANTS
  a = a
  b = b
  NumWordModules = 5
  MaxMultiWordSize = 4
  Words = {a, b}
  Phrases <- MCPhrases
  Unknown = unknown
  Hole = hole
  Dummy = dummy
  Requests <- AllRequests
  MaxCalls = 2
INVARIANTS
  InStep
  AnswersObserved
  PhrasesObserved
PROPERTIES
  Returns
