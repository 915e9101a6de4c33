SPECIFICATION Spec
CONSTANTS
  Traces <- PairTrace
  CodeLine = {"x", "y"}
  Addr = {"a", "b"}
  Reg = {"r", "s"}
  IFETCH_SIZE = 2
  DECODE_SIZE = 1
  ROB_SIZE = 3
  LQ_SIZE = 2
  SQ_SIZE = 4
  SCHEDULER_SIZE = 3
  L1D_WQ_SIZE = 3
INVARIANTS ForwardingAgrees
CHECK_DEADLOCK FALSE
