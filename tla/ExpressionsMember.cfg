SPECIFICATION Spec
CONSTANTS
  S = S
  F = F
  Types <- MCTypes
  Nesting <- MCNesting
  Members <- TwoIntMembers
  Variables <- StructVariables
  SizeofTypes <- MCSizeofTypes
  ReturnTypes <- MCReturnTypes
  Allowed = {}
  MaxOperands = 3
  MaxOperators = 2
INVARIANTS
  MemberIsTheOneNamed
CHECK_DEADLOCK FALSE
