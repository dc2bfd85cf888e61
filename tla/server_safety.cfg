\* Descriptors and counters under every policy and every client.
SPECIFICATION Spec
CONSTANTS
  Workers = {w1, w2}
  Configs <- MCConfigs
  MaxArrivals = 6
  SpuriousWakeups = TRUE
  MallocMayFail = TRUE
  Fds <- MCFds
SYMMETRY MCSymmetry
INVARIANTS
  TypeOK
  DescriptorsDenote
  EveryConnectionHeld
  RollbackFrees
  DescriptorsSuffice
  StatsAddUp
PROPERTY UsesQueue
CHECK_DEADLOCK FALSE
