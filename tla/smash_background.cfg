\* Commands that never put a job back: ids and children.
SPECIFICATION Spec
CONSTANTS
  Pids <- MCThree
  Commands = {"run", "start", "kill -9", "kill -19", "kill -18", "quit kill"}
  SelfStops = FALSE
  CtrlZAgain = TRUE
  MaxJobs = 4
INVARIANTS
  TypeOK
  IdsIncreasing
  EveryChildTracked
PROPERTY RemovesOnlyFinished
CHECK_DEADLOCK FALSE
