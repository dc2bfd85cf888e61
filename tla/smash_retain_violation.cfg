\* Ctrl-Z between the two assignments of fg.
SPECIFICATION Spec
CONSTANTS
  Pids <- MCTwo
  Commands = {"start", "fg"}
  SelfStops = FALSE
  CtrlZAgain = FALSE
  MaxJobs = 4
INVARIANT RetainsId
CHECK_DEADLOCK FALSE
