SPECIFICATION Spec
CONSTANT Given <- MCGiven
INVARIANTS
  TypeOK
  Accounted
