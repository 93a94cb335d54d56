CONSTANTS
  WIDTH = 3
  Pow2 <- MCPow2
  Fields <- MCFields
SPECIFICATION PanelSpec
INVARIANTS
  PrimedForRun
