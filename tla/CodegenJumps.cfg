SPECIFICATION Spec
CONSTANTS
  f = f
  g = g
  l = l
  None = None
  FunctionNames <- MCFunctionNames
  Labels <- MCLabels
  Extents <- LoopExtents
INVARIANTS
  JumpsFollowTheLoop
CHECK_DEADLOCK FALSE
