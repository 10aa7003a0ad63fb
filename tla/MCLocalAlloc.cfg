CONSTANTS
  ALIGN = 4
  Sizes = {2, 3}
  Aligns = {1, 2}
  MaxPages = 2
  MaxRanges = 2
SPECIFICATION Spec
INVARIANT TypeOK
INVARIANT BlocksInPageAndAligned
CHECK_DEADLOCK FALSE
