SPECIFICATION Spec
CONSTANTS
  Characters <- MCCharacters
  Abbr = Abbr
  Stop = Stop
  Space = Space
  Mark = Mark
  Null = Null
  AbbrLetters <- MCAbbrLetters
  TokenDelimiters <- MCTokenDelimiters
  Marks <- MCMarks
  MaxMultiWords = 4
  MinSingle = 2
  MinMulti = 2
  MaxSingleSymbols = 2
  MaxMultiSymbols = 5
  SizeT = 1048576
  Texts <- CollidingTexts
INVARIANT
  CountsOccurrences
CHECK_DEADLOCK FALSE
