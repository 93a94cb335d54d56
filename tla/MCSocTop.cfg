CONSTANTS
  WIDTH = 4
  Pow2 <- MCPow2
  RamWords = 2
  Requests <- MCRequests
  Programs = {"c", "rust", "wild"}
  RamAccesses <- MCRamAccesses
  WildRequests <- MCWildRequests
  MaxEffects = 2
  MaxGap = 2
  MaxResets = 1
SPECIFICATION FairFirmwareSpec
INVARIANTS
  FirmwareTypeOK
  ReportRight
PROPERTIES
  MapSpec
  AccessEnds
  Halts
