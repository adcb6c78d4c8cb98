SPECIFICATION Spec
CONSTANTS
  MaxChars = 4
  MaxPieces = 4
  Texts <- MCTexts
INVARIANTS
  TypeOK
  Progress
  NothingSkipped
  ParserInput
  QuotesPair
  WordsWhole
CHECK_DEADLOCK FALSE
