SPECIFICATION Spec
CONSTANTS
  Creds = {c1, c2, c3}
  MaxConcurrency = 2
  RequestTimeout = 9
  ObservationInterval = 2
  ListTime = 1
  GetTime = 1
  LogTime = 1
  TurnTimes = {1}
  Delays = {0}
  Off = Off
INVARIANTS
  TypeOK
  NoDeadlineSleptThrough
  QueueingNeverTimesOut
  StopWaitsForHostCalls
PROPERTY
  RunsEnd
CHECK_DEADLOCK FALSE
