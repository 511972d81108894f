SPECIFICATION Spec
CONSTANTS
  S = S
  F = F
  Types <- MCTypes
  Nesting <- MCNesting
  Members <- MCMembers
  Variables <- MCVariables
  SizeofTypes <- MCSizeofTypes
  ReturnTypes <- MCReturnTypes
  Allowed = {}
  MaxOperands = 3
  MaxOperators = 2
INVARIANTS
  ValueHasItsType
  AddressPointsToIt
  EqualTypesEmitAlike
  StatementFits
CHECK_DEADLOCK FALSE
