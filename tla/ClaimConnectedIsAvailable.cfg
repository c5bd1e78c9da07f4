\* A node reconnects before the API notices that it was gone.
CONSTANTS
    p1 = p1
    c1 = c1
    c2 = c2
    i1 = i1
    i2 = i2
    Providers = {p1}
    Connections = {c1, c2}
    Jobs = {j1}
    NoConnection = NoConnection
    NoJob = NoJob
    NoProvider = NoProvider
    ProviderOf <- SameProvider
    InstanceOf <- SameNode
SPECIFICATION Spec
CHECK_DEADLOCK FALSE
INVARIANTS
    ConnectedIsAvailable
