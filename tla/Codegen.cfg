SPECIFICATION Spec
CONSTANTS
  f = f
  g = g
  l = l
  None = None
  FunctionNames <- MCFunctionNames
  Labels <- MCLabels
  Extents <- SoundExtents
INVARIANTS
  TypeOK EveryBlockEndsOnce NoConditionalCycle PhiMatchesPredecessors
  GotoReachesLabel LabelsAreLocal
CHECK_DEADLOCK FALSE
