SPECIFICATION WrittenSpec
CONSTANTS
  Tokens <- Kinds
  MaxTokens = 6
  MaxValueTokens = 1
  MaxParams = 1
INVARIANTS
  CastHasType
CHECK_DEADLOCK FALSE
