SPECIFICATION FairSpec
CONSTANTS
  Line = {a, b}
  CodeLine = {a}
  DataLine = {a, b}
  None = None
  Cache <- MCCache
  NumWay <- OneWay
  MshrSize <- MCMshrSize
  RqSize <- MCRqSize
  WqSize <- MCWqSize
  PqSize <- MCPqSize
  PfFill <- PfBelowL1
  Bypass = FALSE
  Swap = TRUE
  MaxRequest = 3
INVARIANTS MissIsServed ReturnFindsMiss
PROPERTIES EverythingDrains
CHECK_DEADLOCK FALSE
