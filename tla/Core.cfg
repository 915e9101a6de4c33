SPECIFICATION FairSpec
CONSTANTS
  Traces <- MCTraces
  CodeLine = {"x", "y"}
  Addr = {"a", "b"}
  Reg = {"r", "s"}
  IFETCH_SIZE = 2
  DECODE_SIZE = 1
  ROB_SIZE = 3
  LQ_SIZE = 2
  SQ_SIZE = 2
  SCHEDULER_SIZE = 3
  L1D_WQ_SIZE = 1
INVARIANTS TypeOK OperandsAreReady CountersAgree NothingIsForgotten StoresStayInOrder ForwardingAgrees NothingPastMispredict
PROPERTIES KeepsProgramOrder RetiresWhenLoadsFit
CHECK_DEADLOCK FALSE
