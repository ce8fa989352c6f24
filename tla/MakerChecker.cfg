SPECIFICATION SourcesSpec
CONSTANTS
    file = file
    alice = alice
    bob = bob
    Connectors = {file}
    Users = {alice, bob}
    Admins = {}
    Exempt = {file}
    Kind <- MCKind
    Sessions = {"poller"}
    MaxStamp = 2
    MaxCalls = 3
INVARIANT CheckedByAnother
CHECK_DEADLOCK FALSE
