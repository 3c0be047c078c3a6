SPECIFICATION FairWrittenSpec
CONSTANTS
  Tokens <- Kinds
  MaxTokens = 8
  MaxValueTokens = 6
  MaxParams = 2
INVARIANTS
  TypeOK
  PrecedenceRespected
  TreesShareNothing
  
PROPERTIES
  Returns
CHECK_DEADLOCK FALSE
