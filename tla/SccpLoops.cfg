SPECIFICATION FairSpec
CONSTANTS
  IntModulus <- MCIntModulus
  CharModulus <- MCCharModulus
  GarbageInts <- MCGarbageInts
  GarbageStates <- MCGarbageStates
  Functions <- LoopingFunctions
INVARIANTS NeverDescends ReachableOnPath
PROPERTIES LatticeAscends Terminates
