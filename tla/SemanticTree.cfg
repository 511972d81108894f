SPECIFICATION Spec
CONSTANTS
  a = a
  b = b
  S = S
  T = T
  None = None
  Names <- MCNames
  Tags <- MCTags
  Labels = {l}
  Signatures = {"void", "int"}
  WithParameter = {"int"}
  DefineForward = FALSE
  MaxNodes = 4
  MaxDeclarations = 3
  MaxNesting = 3
SYMMETRY MCSymmetry
INVARIANTS
  TypeOK LookUpIsLexical OneObjectPerFunction NoInfiniteStruct
PROPERTIES
  ImplementsScopes ClosedScopesAreFinal
CHECK_DEADLOCK FALSE
