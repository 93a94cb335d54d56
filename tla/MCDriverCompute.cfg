CONSTANTS
  WIDTH = 4
  Pow2 <- MCPow2
  Methods = {"compute", "reset", "load_modulus", "load_operand", "start",
             "wait_and_read_result"}
  ModulusArgs <- MCModulusArgs
  OperandArgs <- MCOperandArgs
SPECIFICATION FairDriverSpec
INVARIANTS
  DriverTypeOK
  ComputeCorrectIfWaited
PROPERTIES
  CallsReturn CallsCountDown
