CONSTANTS
  WIDTH = 4
  Pow2 <- MCPow2
SPECIFICATION USpec
INVARIANTS
  UTypeOK
  RemainderReduced
PROPERTIES
  UnitSpec
