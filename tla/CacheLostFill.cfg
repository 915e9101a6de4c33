SPECIFICATION Spec
CONSTANTS
  Line = {a}
  CodeLine = {a}
  DataLine = {a}
  None = None
  Cache <- MCCache
  NumWay <- OneWay
  MshrSize <- MCMshrSize
  RqSize <- MCRqSize
  WqSize <- MCWqSize
  PqSize <- MCPqSize
  PfFill <- PfOfL1
  Bypass = FALSE
  Swap = FALSE
  MaxRequest = 3
INVARIANTS MissIsServed
CHECK_DEADLOCK FALSE
