CONSTANTS
  WIDTH = 4
  Pow2 <- MCPow2
  RamWords = 2
  Requests <- MCRequests
  Programs = {"c", "rust", "wild"}
  RamAccesses <- MCRamAccesses
  WildRequests <- MCWildRequests
  MaxEffects = 2
  MaxGap = 2
  MaxResets = 0
  CYCLES = 139
  ResetEdges = 2
SPECIFICATION FairBenchSpec
INVARIANTS
  IntegrationPasses HaltsInTime
PROPERTIES
  BenchEnds
CHECK_DEADLOCK FALSE
