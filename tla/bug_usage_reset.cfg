SPECIFICATION Spec
CONSTANTS
  Auths = {a1}
  Prints = {p1}
  Buckets <- CodexBuckets
  GroupOf <- CodexGroups
  AttemptIds = {t1, t2}
  None = None
  MaxTime = 5
  Grace = 0
  Skew = 1
  VerifyDelay = 0
  Suppression = 1
  ObservationInterval = 1
  RetryDelays <- NoDelays
  MaxRetries = 0
  Observe <- CodexObserve
  VerifyActivation <- CodexVerify
  RollTolerance = 1
  LazyTolerance = 1
  FiveHours = 3
  SevenDays = 5
  LongestPlan = 7
  Missing = Missing
  ResetTimes = {2, 3}
  UsedPercents = {0, 1}
SYMMETRY AttemptSymmetry
INVARIANTS
  SpacedSends
