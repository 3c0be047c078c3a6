SPECIFICATION Spec
CONSTANTS
  LayoutLen = 0
  LexemeLen = 2
  MaxLines = 0
  Sources <- AllSources
  Symbols <- LexemeSymbols
  Keywords <- LexemeKeywords
  Comments <- CommentOpeners
  Letters = {"a", "s"}
  Digits = {"1"}
  Chunk = 2
INVARIANT SymbolSpelled
CHECK_DEADLOCK FALSE
