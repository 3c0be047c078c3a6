\* Functions end: that is their deadlock.
SPECIFICATION FairSpec
CONSTANTS
  MaxStatements = 4
  Programs <- AllBodies
CHECK_DEADLOCK FALSE
INVARIANTS
  TypeOK
  LabelsOnce
PROPERTIES
  ImplementsStructured
  StatementsGoOn
