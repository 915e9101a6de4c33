SPECIFICATION Spec
CONSTANTS
  Line = {a}
  CodeLine = {}
  DataLine = {a}
  None = None
  Cache <- MCCache
  NumWay <- OneWay
  MshrSize <- MCMshrSize
  RqSize <- MCRqSize
  WqSize <- MCWqSize
  PqSize <- MCPqSize
  PfFill <- PfNone
  Bypass = FALSE
  Swap = FALSE
  MaxRequest = 2
PROPERTIES StoreIsKept
CHECK_DEADLOCK FALSE
