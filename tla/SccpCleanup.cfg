SPECIFICATION CleanupSpec
CONSTANTS
  IntModulus <- MCIntModulus
  CharModulus <- MCCharModulus
  GarbageInts <- MCGarbageInts
  GarbageStates <- MCGarbageStates
  Functions <- CleanFunctions
INVARIANTS UsersAreUnknown NothingDangles NoDeadBlockLeft ResultIsFunction
CHECK_DEADLOCK FALSE
