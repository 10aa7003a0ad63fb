CONSTANTS
  MaxTask = 2
  MaxIo = 2
  f1 = f1
  f2 = f2
  Fds <- MCFds
  MaxTimer = 1
  RingDepth = 1
  MaxBusy = 1
  MoveHandles = FALSE
SPECIFICATION Spec
INVARIANT ExitLeavesNoTasks
