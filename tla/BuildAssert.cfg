SPECIFICATION Spec
CONSTANTS
  main = main
  a = a
  b = b
  Files <- OnlyMain
  Contents <- PrivateContents
  Entries <- OnlyMain
  Modes = {"asm"}
  MaxDepth = 3
  MayKill = FALSE
  MaxEdits = 0
  MaxClock = 1
  MaxRuns = 2
INVARIANT NoAssertFailure
CHECK_DEADLOCK FALSE
