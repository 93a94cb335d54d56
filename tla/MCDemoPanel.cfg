CONSTANTS
  WIDTH = 3
  Pow2 <- MCPow2
  Fields <- MCFields
SPECIFICATION FairPanelSpec
INVARIANTS
  PanelTypeOK
  NeverFault
  WordTellsCircuit
  NoOrphanInterval
  DemonstrationHolds
  LitWhileComputing
  LivePath
  
  ResultOfLastRun
  ContrastTracksField
  CaveatTold
PROPERTIES
  RunEnds
