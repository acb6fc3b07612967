SPECIFICATION GateSpec
CONSTANTS
  Intact0 <- MCIntact0
  Edits <- MCEdits
  MaxEdits = 3
  PullEdits <- MCPullEdits
  MaxPullEdits = 4
  MdName <- MCMdName
  HiddenName <- MCHiddenName
  OddPart <- MCOddPart
  DocOrder <- MCDocOrder
INVARIANTS
  PassesExactlyIntact
  MainStaysIntact
CHECK_DEADLOCK FALSE
