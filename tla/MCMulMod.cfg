CONSTANTS
  WIDTH = 4
  Pow2 <- MCPow2
SPECIFICATION FSpec
INVARIANTS
  FTypeOK
  ReductionInvariant
  EquivInvariant
PROPERTIES
  UnitSpec
