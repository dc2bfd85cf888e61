\* Two walks over a process tree that changes under them.
SPECIFICATION Spec
CONSTANTS
  MaxPid = 4
  Weights <- MCWeights
INVARIANTS
  TypeOK
  SumIsOfDescendants
  HeaviestIsFound
PROPERTY CallsReturn
CHECK_DEADLOCK FALSE
