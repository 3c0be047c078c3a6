\* A statement is freed, or its tree crashes the compiler: that is its deadlock.
SPECIFICATION PrintingSpec
CONSTANTS
  Idents <- MCIdents
  Functions <- MCFunctions
  MaxDepth = 8
  Statements <- MCStatements
CHECK_DEADLOCK FALSE
INVARIANTS
  TypeOK
  AcceptsWhatFits
  GeneratesTyped
  FreesOwn
  AstIsJson
