CONSTANTS
  MaxTask = 3
  MaxIo = 0
  f1 = f1
  f2 = f2
  Fds = {}
  MaxTimer = 0
  RingDepth = 1
  MaxBusy = 1
  MoveHandles = TRUE
SPECIFICATION Spec
INVARIANT NoLostWakeup
