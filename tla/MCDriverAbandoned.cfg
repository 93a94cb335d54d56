CONSTANTS
  WIDTH = 4
  Pow2 <- MCPow2
  Methods = {"compute", "reset", "load_modulus", "load_operand", "start"}
  ModulusArgs <- MCOneModulus
  OperandArgs <- MCOneOperand
SPECIFICATION DriverSpec
INVARIANTS
  ComputeCorrect
