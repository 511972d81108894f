SPECIFICATION RunSpec
CONSTANTS
  IntModulus <- MCIntModulus
  CharModulus <- MCCharModulus
  Functions <- BranchFunctions
  Inputs <- MCInputs
INVARIANTS WithinClaims
CHECK_DEADLOCK FALSE
