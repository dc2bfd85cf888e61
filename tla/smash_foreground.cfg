\* Every command, and children that stop by themselves.
SPECIFICATION FairSpec
CONSTANTS
  Pids <- MCThree
  Commands = {"run", "start", "fg", "bg", "kill -9", "kill -19", "kill -18", "quit kill"}
  SelfStops = TRUE
  CtrlZAgain = FALSE
  MaxJobs = 4
INVARIANT StoppedIsMarked
PROPERTY PromptReturns
CHECK_DEADLOCK FALSE
