CONSTANTS
  MaxDepth = 3
  MaxQueue = 7
SPECIFICATION Spec
INVARIANT PushLoopMeetsSpec
