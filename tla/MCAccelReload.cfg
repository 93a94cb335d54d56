CONSTANTS
  WIDTH = 4
  Pow2 <- MCPow2
  Operands = {14}
  Moduli = {3, 11}
SPECIFICATION NoResetSpec
INVARIANTS
  PreconditionsMet
