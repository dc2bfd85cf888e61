\* bg puts a job back without raising the counter of ids.
SPECIFICATION Spec
CONSTANTS
  Pids <- MCTwo
  Commands = {"run", "start", "bg"}
  SelfStops = FALSE
  CtrlZAgain = FALSE
  MaxJobs = 4
PROPERTY RemovesOnlyFinished
CHECK_DEADLOCK FALSE
