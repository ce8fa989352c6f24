SPECIFICATION Spec
CONSTANTS
    charge = charge
    buy = buy
    advice = advice
    battery = battery
    grid = grid
    ann = ann
    bob = bob
    n1 = n1
    n2 = n2
    n3 = n3
    n4 = n4
    Nonces = {n1, n2, n3}
    Actions = {charge}
    Assets = {battery}
    Target <- MCTarget
    AdvisoryOnly = {}
    OverEnvelope = {}
    MaxTime = 1
    NoRequest = NoRequest
    Deciders = {ann, bob}
    FourEyes = {}
    PlatformAdmins = {}
    Optimizer = Optimizer
    Nobody = Nobody
    Risk <- MCRisk
    AutonomyPolicies <- UnattendedPolicies
    NoPolicy = NoPolicy
    ApprovalWindow = 0
    Validity = 1
    NoAction = NoAction
    NoNonce = NoNonce
    CrashBudget = 1
SYMMETRY Symmetry
INVARIANTS TypeOK LedgerTruth DispatchExclusive AutonomousOnce PolicyBounds OutcomeMatchesLedger RepeatsBounded
PROPERTIES EstopQuiesces ImplementsOrders
