SPECIFICATION FairSpec
CONSTANTS
  Line = {a, b, c}
  CodeLine = {}
  DataLine = {a, b, c}
  None = None
  Cache <- MCCache
  NumWay <- MCNumWay
  MshrSize <- MCMshrSize
  RqSize <- MCRqSize
  WqSize <- MCWqSize
  PqSize <- MCPqSize
  PfFill <- PfNone
  Bypass = FALSE
  Swap = TRUE
  MaxRequest = 4
PROPERTIES CoreIsAnswered
CHECK_DEADLOCK FALSE
