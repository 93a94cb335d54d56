CONSTANTS
  WIDTH = 4
  Pow2 <- MCPow2
  Operands = {0, 5, 10, 15}
  Moduli = {0, 1, 7, 11, 14, 15}
SPECIFICATION CarefulSpec
INVARIANTS
  PreconditionsMet
PROPERTIES
  ServiceSpec
