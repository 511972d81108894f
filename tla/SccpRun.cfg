SPECIFICATION RunSpec
CONSTANTS
  IntModulus <- MCIntModulus
  CharModulus <- MCCharModulus
  GarbageInts <- MCGarbageInts
  GarbageStates <- MCGarbageStates
  Functions <- AnalysedFunctions
  Inputs <- MCInputs
INVARIANTS TypeOK PhiHasValue NoLostBlock ClaimsHold
PROPERTIES ImplementsAnalysis
