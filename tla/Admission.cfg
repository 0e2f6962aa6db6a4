SPECIFICATION FairSpec
CHECK_DEADLOCK FALSE
CONSTANTS
  Requests = {r1, r2, r3}
  Workers = {w1}
  NoRequest = NoRequest
  Limits = {1, 2}
  KeyLimit = 1
  RPM = 2
  DailyLimit = 2
  MonthlyLimit = 1
  QueueCapacity = 1
  MaxFaults = 1
INVARIANTS
  GateExact
  KeyConcurrency
  FlushedMeansWritten
PROPERTIES
  EverythingSettles
