SPECIFICATION SourcesSpec
CONSTANTS
    file = file
    alice = alice
    bob = bob
    Connectors = {file}
    Users = {alice, bob}
    Admins = {}
    Exempt = {}
    Kind <- MCKind
    Sessions = {"poller"}
    MaxStamp = 2
    MaxCalls = 3
INVARIANT StopSticks
CHECK_DEADLOCK FALSE
