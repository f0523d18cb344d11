SPECIFICATION Spec
CONSTANTS
  Auths = {a1}
  Prints = {p1}
  Buckets = {"gemini-5h", "gemini-weekly"}
  GroupOf <- AntigravityGroups
  AttemptIds = {t1, t2}
  None = None
  MaxTime = 2
  Grace = 0
  Skew = 1
  VerifyDelay = 0
  Suppression = 1
  ObservationInterval = 1
  RetryDelays <- NoDelays
  MaxRetries = 0
  Observe <- AntigravityObserve
  VerifyActivation <- AntigravityVerify
  RollTolerance = 1
  LazyTolerance = 0
  FiveHours = 3
  SevenDays = 5
  LongestPlan = 7
  Missing = Missing
  ResetTimes = {2, 4}
  UsedPercents = {0}
SYMMETRY AttemptSymmetry
INVARIANTS
  AtMostOneSendPerCycle
  NoSendOnOneObservation
  PlansOnlyLazyWindows
