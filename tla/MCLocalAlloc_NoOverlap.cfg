CONSTANTS
  ALIGN = 4
  Sizes = {1, 2}
  Aligns = {1, 2}
  MaxPages = 1
  MaxRanges = 2
SPECIFICATION Spec
INVARIANT NoOverlap
CHECK_DEADLOCK FALSE
