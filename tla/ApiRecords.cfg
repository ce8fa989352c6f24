SPECIFICATION RecordsSpec
CONSTANTS
    acme = acme
    zeta = zeta
    w1 = w1
    w2 = w2
    decided = decided
    dispatched = dispatched
    NoTenant = NoTenant
    NoRead = NoRead
    feed = feed
    table = table
    alice = alice
    bob = bob
    Kind <- MCKind
    Writers = {w1, w2}
    Tenants = {acme, zeta}
    Bodies = {decided, dispatched}
    MaxTime = 4
    MaxTampered = 2
    Connectors = {table, feed}
    Users = {alice, bob}
    Admins = {}
    Exempt = {feed}
    Sessions = {"poller", "manual"}
    MaxStamp = 2
    MaxCalls = 3
SYMMETRY Symmetry
INVARIANTS UntamperedVerifies Anchored TamperEvident GateFollowsData PollerNoRepeat ActiveWasChecked
CHECK_DEADLOCK FALSE
