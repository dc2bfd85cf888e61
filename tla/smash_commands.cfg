\* Pipes, redirections, background jobs and the descriptors they leave.
SPECIFICATION FairSpec
CONSTANTS
  Lines <- MCLines
  MaxLines = 2
  Pids <- MCPids
  Fds <- MCFds
  Inherited <- MCInherited
  ForkMayFail = TRUE
INVARIANTS
  OnlyFirstWrites
  DescriptorsRestored
  StartsListed
  ChildrenListed
PROPERTY PromptReturns
CHECK_DEADLOCK FALSE
