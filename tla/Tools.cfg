SPECIFICATION MCSpec
CONSTANTS
  nthreads = 2
  niter = 3
  Nspd = {1, 2}
  Wire = {1, 2}
  Evaluation <- MCEvaluation
  Invalid = Invalid
  NoTag = NoTag
  BIGNUM = 100000
  delay_wt = 1
  dynamic_power_wt = 2
  delay_dev = 60
  dynamic_power_dev = 400
  Config <- MCConfig
  DIMM_size <- MCSize
  cost <- MCCost
  bandwidth_load <- MCBandwidth
  io_energy <- MCEnergy
  INF = 900
  Input <- MCInput
  CvpTraces <- MCCvpTraces
  FirstPage = 2
  Programs <- MCPrograms
  SkipInstructions = 1
  TraceInstructions = 2
  BaseFiles <- MCBaseFiles
  Lines <- MCLines
  MaxLines = 2
  Arguments <- MCArguments
  IsPrefixOf <- MCIsPrefixOf
  Inputs <- MCInputs
  Cuts <- MCCuts
  SensedRows <- MCSensedRows
  MINSUBARRAYROWS = 16
  MAXSUBARRAYROWS = 262144
  MINSUBARRAYCOLS = 2
  MAXSUBARRAYCOLS = 262144
  Giga = 1073741824
  NUM_CPUS = 2
  warmup_instructions = 0
  simulation_instructions = 2
  RETIRE_WIDTH = 2
  PageWalkLatency = 2
  MaxCycle = 3
  TraceLists <- MCTraceLists
  NucaInputs <- MCNucaInputs
  MIN_BANKSIZE = 64
  Low_swing = 2
  ROUTER_TYPES = 2
  Network <- MCNetwork
  cont_stats <- MCContStats
  NoOrg = NoOrg
INVARIANTS RoiIsTheWindow PhasesAgree MeansWhatItSays CheckIsSound CutIsSound PicksLeastOfTheRest MirroredMemoryIsBest KindIsDeduced DataAvoidsCode TraceIsTheWindow PicksLeastNuca
PROPERTIES SearchIsComplete
CHECK_DEADLOCK FALSE
