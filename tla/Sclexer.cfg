SPECIFICATION FairSpec
CONSTANTS
  LayoutLen = 7
  LexemeLen = 4
  MaxLines = 5
  Sources <- AllSources
  Symbols <- LexemeSymbols
  Keywords <- LexemeKeywords
  Comments <- CommentOpeners
  Letters = {"a", "s"}
  Digits = {"1"}
  Chunk = 2
INVARIANTS
  TypeOK
  BlocksBalanced
  NeedEndExact
  TokensStored
  TokensBounded
  IndentFollowsSource
  LocExact
  EndsWithEol
  LongestSymbol
  NothingLost
PROPERTIES
  EveryCallProgresses
  Terminates
CHECK_DEADLOCK FALSE
