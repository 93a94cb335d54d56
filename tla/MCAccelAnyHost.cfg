CONSTANTS
  WIDTH = 4
  Pow2 <- MCPow2
  Operands = {5, 14}
  Moduli = {0, 3, 11}
SPECIFICATION FairSpec
INVARIANTS
  TypeOK
  StatusCoherent
  MulStartKept
PROPERTIES
  BusyEnds BusyCountsDown
