SPECIFICATION WorkersSpec
CONSTANTS
  t1 = t1
  t2 = t2
  Tenants <- MCTenants
  Cycle = 2
  Retry = 1
  BatchSize = 2
  MaxQueue = 3
  MaxCrashes = 1
  d1 = d1
  d2 = d2
  Decisions <- MCDecisions
  Agents = 3
  Cases = 1
  AgentBatch = 2
  MaxEvals = 3
  MaxExpiries = 1
  MaxFaults = 1
INVARIANTS
  EvalsBounded
  MarkerReleased
PROPERTIES
  RequestsServed
  PlannedUnlessOvertaken
  FullCadence
  PassAtomic
  ExplainedOrLost
