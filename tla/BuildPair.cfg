SPECIFICATION FairSpec
CONSTANTS
  main = main
  a = a
  b = b
  Files <- PairFiles
  Contents <- PairContents
  Entries <- OnlyMain
  Modes = {"asm", "ast"}
  MaxDepth = 3
  MayKill = TRUE
  MaxEdits = 1
  MaxClock = 2
  MaxRuns = 2
INVARIANTS
  StaleOnlyInWindow
  OutputBeforeCache
PROPERTIES
  RunsEnd
CHECK_DEADLOCK FALSE
