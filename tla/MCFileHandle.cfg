CONSTANTS
  fa = fa
  fb = fb
  s1 = s1
  s2 = s2
  Fds <- MCFds
  Slots <- MCSlots
  MaxOpen = 3
  Crashes = TRUE
  Droppable = {"open", "read", "write", "sync", "statx", "close"}
SPECIFICATION Spec
INVARIANT TypeOK
INVARIANT FdOwnedOnce
PROPERTY NoFdLeak
