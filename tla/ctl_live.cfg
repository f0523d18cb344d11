SPECIFICATION FairSpec
CONSTANTS
  Auths = {a1}
  Prints = {p1}
  Buckets <- ReviewBuckets
  GroupOf <- CodexGroups
  AttemptIds = {t1, t2}
  None = None
  MaxTime = 3
  Grace = 0
  Skew = 1
  VerifyDelay = 1
  Suppression = 1
  ObservationInterval = 1
  RetryDelays <- NoDelays
  MaxRetries = 0
  Observe <- ReviewObserve
  VerifyActivation <- CodexVerify
  RollTolerance = 1
  LazyTolerance = 0
  FiveHours = 3
  SevenDays = 5
  LongestPlan = 7
  Missing = Missing
  ResetTimes = {2, 5}
  UsedPercents = {0}
INVARIANTS
  FencesOnlyActivatable
PROPERTIES
  InFlightSettles
