SPECIFICATION Spec
CONSTANTS
  nthreads = 2
  niter = 3
  Nspd = {1, 2}
  Wire = {1, 2}
  Evaluation <- MCEvaluation
  Invalid = Invalid
  NoTag = NoTag
  BIGNUM = 100000
  delay_wt = 1
  dynamic_power_wt = 2
  delay_dev = 60
  dynamic_power_dev = 400
  Config <- MCConfigNoEd
INVARIANT PicksLeastCost
CHECK_DEADLOCK FALSE
