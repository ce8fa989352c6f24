SPECIFICATION PathsSpec
CONSTANTS
  Feed <- MCFeed
  Cap = 2
  BatchSize = 2
  MaxEntries = 3
  MaxFaults = 2
  u1 = u1
  u2 = u2
  Callers <- MCCallers
  Processes = {"api"}
  Home <- MCHome
  Threads = 1
  PerMinute = 2
  PerDay = 3
  Minute = 2
  Threshold = 2
  Cooldown = 1
  FailureTTL = 2
  MaxClock = 2
  MaxCalls = 4
  MaxMishaps = 1
INVARIANTS
  LossBounded
  ProcessedMeansSettled
  SpendBounded
  LateAttemptsBounded
  FailuresExpire
PROPERTIES
  EveryEntrySettles
  CallsEnd
CHECK_DEADLOCK FALSE
