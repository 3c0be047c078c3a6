\* A file ends, is rejected, or crashes the compiler: that is its deadlock.
SPECIFICATION Spec
CONSTANTS
  Names = {"x"}
  Signatures <- MCSignatures
  MaxStatements = 3
  MaxToplevel = 2
  MaxDepth = 3
CHECK_DEADLOCK FALSE
INVARIANTS
  TypeOK
  NestsAsIndented
  LookupSafe
  FreedOnce
PROPERTIES
  BindingsStable
