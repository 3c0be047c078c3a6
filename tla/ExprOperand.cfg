SPECIFICATION WrittenSpec
CONSTANTS
  Tokens <- Kinds
  MaxTokens = 4
  MaxValueTokens = 1
  MaxParams = 1
INVARIANTS
  OperandsPresent
CHECK_DEADLOCK FALSE
