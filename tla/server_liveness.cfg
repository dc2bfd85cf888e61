\* Every accepted client is done with, unless all workers are stuck.
SPECIFICATION FairSpec
CONSTANTS
  Workers = {w1, w2}
  Configs <- MCOneSlotConfigs
  MaxArrivals = 4
  SpuriousWakeups = FALSE
  MallocMayFail = TRUE
  Fds <- MCFds
PROPERTY EveryClientDone
CHECK_DEADLOCK FALSE
