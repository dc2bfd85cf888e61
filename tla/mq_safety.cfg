\* All policies, spurious wakeups and failed allocations.
SPECIFICATION Spec
CONSTANTS
  Workers = {w1, w2, w3}
  Configs <- MCAllConfigs
  MaxArrivals = 10
  SpuriousWakeups = TRUE
  MallocMayFail = TRUE
SYMMETRY MCSymmetry
INVARIANTS
  TypeOK
  Bounded
  ArrivalOrder
  NobodySleepsInVain
  DroppedHaveLeft
PROPERTY ImplementsPromise
CHECK_DEADLOCK FALSE
