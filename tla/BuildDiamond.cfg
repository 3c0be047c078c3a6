SPECIFICATION Spec
CONSTANTS
  main = main
  a = a
  b = b
  Files <- DiamondFiles
  Contents <- DiamondContents
  Entries <- OnlyMain
  Modes = {"asm"}
  MaxDepth = 4
  MayKill = TRUE
  MaxEdits = 1
  MaxClock = 1
  MaxRuns = 2
INVARIANTS
  TypeOK
  OutputOnce
  UsesPrecede
  SuccessOutputsEntry
CHECK_DEADLOCK FALSE
