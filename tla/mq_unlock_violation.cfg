\* An allocation failure under random drops returns with the mutex held.
SPECIFICATION Spec
CONSTANTS
  Workers = {w1}
  Configs <- MCAllConfigs
  MaxArrivals = 6
  SpuriousWakeups = FALSE
  MallocMayFail = TRUE
INVARIANT ReturnsUnlocked
CHECK_DEADLOCK FALSE
