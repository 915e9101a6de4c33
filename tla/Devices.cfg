SPECIFICATION MCSpec
CONSTANTS
  NUM_WAY = 4
  LLC_SET <- MCSet
  LLC_WAY = 2
  LeaderOf <- MCLeader
  maxRRPV = 2
  BIP_MAX = 2
  PSEL_MAX = 3
  SAMPLER_WAY = 2
  Tag = {s, t, u}
  Signature = {p, q}
  SHCT_MAX = 2
  NoTag = NoTag
  size = 4
  Data = {x, y, z}
  Void = Void
  limit = 2
  Line = {0, 2, 3}
  IP_TRACKER_COUNT = 3
  Ip = {0, 1, 2, 3}
  MaxCla = 2
  PageLines = 2
  OFFSET <- MCOffset
  NOFFSETS = 3
  SCORE_MAX = 3
  ROUND_MAX = 4
  BAD_SCORE = 1
  OffsetHalf = 4
  SMALL_SIZE = 4
  SMALLER_SIZE = 3
  WordBits = 4
  Limit = 6
  VPage = {1, 2, 3, 4}
  DRAM_PAGES = 3
  Draw = {0, 2}
  Run = {1}
  MODULUS = 8
  TLB_WAY = 1
INVARIANTS TablesInverse StaleIsOvertaken PoliciesAreSound PrefetchersAreSound BehavesAsSet
PROPERTIES KeepsOrderOfUse KeepsFifoOrder
