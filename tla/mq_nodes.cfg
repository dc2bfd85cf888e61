\* The list of nodes against the monitor, and its progress.
SPECIFICATION FairSpec
CONSTANTS
  Workers = {w1, w2}
  Configs <- MCConfigs
  MaxArrivals = 9
  ExtraArrivals = 3
  SpuriousWakeups = {"BLOCK", "DROP_TAIL", "DROP_HEAD"}
  MallocMayFail = TRUE
INVARIANTS
  ListWellFormed
  EachBlockOwned
PROPERTIES
  ImplementsMonitor
  PutReturns
  Empties
CHECK_DEADLOCK FALSE
