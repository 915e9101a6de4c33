SPECIFICATION Spec
CONSTANTS
  Line = {a, b}
  CodeLine = {}
  DataLine = {a, b}
  None = None
  Cache <- MCCache
  NumWay <- OneWay
  MshrSize <- MCMshrSize
  RqSize <- MCRqSize
  WqSize <- MCWqSize
  PqSize <- MCPqSize
  PfFill <- PfOfData
  Bypass = TRUE
  Swap = FALSE
  MaxRequest = 4
INVARIANTS TypeOK DemandIsKept
PROPERTIES ModifiedMovesDown
CHECK_DEADLOCK FALSE
