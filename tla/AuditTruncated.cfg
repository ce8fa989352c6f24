SPECIFICATION AuditSpec
CONSTANTS
    acme = acme
    zeta = zeta
    w1 = w1
    w2 = w2
    decided = decided
    dispatched = dispatched
    Writers = {w1, w2}
    Tenants = {acme, zeta}
    Bodies = {decided, dispatched}
    NoTenant = NoTenant
    NoRead = NoRead
    MaxTime = 2
    MaxTampered = 1
SYMMETRY Symmetry
INVARIANTS TamperAlwaysSeen
