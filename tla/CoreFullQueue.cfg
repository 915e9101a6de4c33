SPECIFICATION FairSpec
CONSTANTS
  Traces <- FullQueueTrace
  CodeLine = {"x", "y"}
  Addr = {"a", "b"}
  Reg = {"r", "s"}
  IFETCH_SIZE = 2
  DECODE_SIZE = 1
  ROB_SIZE = 4
  LQ_SIZE = 1
  SQ_SIZE = 1
  SCHEDULER_SIZE = 4
  L1D_WQ_SIZE = 1
PROPERTIES EverythingRetires
CHECK_DEADLOCK FALSE
