SPECIFICATION RunSpec
CONSTANTS
  IntModulus <- MCIntModulus
  CharModulus <- MCCharModulus
  GarbageInts <- MCGarbageInts
  GarbageStates <- MCGarbageStates
  Functions <- OnlySetInLaterIteration
  Inputs <- MCInputs
INVARIANTS ClaimedValuesHold
