SPECIFICATION Spec
CONSTANTS
  Auths = {a1}
  Prints = {p1}
  Buckets <- CodexBuckets
  GroupOf <- CodexGroups
  AttemptIds = {t1, t2}
  None = None
  MaxTime = 5
  Grace = 1
  Skew = 1
  VerifyDelay = 1
  Suppression = 2
  ObservationInterval = 2
  RetryDelays <- Delays
  MaxRetries = 1
  Observe <- CodexObserve
  VerifyActivation <- CodexVerify
  RollTolerance = 1
  LazyTolerance = 1
  FiveHours = 3
  SevenDays = 5
  LongestPlan = 7
  Missing = Missing
  ResetTimes = {2, 5}
  UsedPercents = {0, 1}
SYMMETRY AttemptSymmetry
PROPERTIES
  NormalResetEndsUnsentCycle
