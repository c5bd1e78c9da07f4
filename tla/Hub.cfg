\* Two nodes of one provider, two jobs, an administrator.
CONSTANTS
    p1 = p1
    c1 = c1
    c2 = c2
    i1 = i1
    i2 = i2
    Providers = {p1}
    Connections = {c1, c2}
    Jobs = {j1, j2}
    NoConnection = NoConnection
    NoJob = NoJob
    NoProvider = NoProvider
    ProviderOf <- SameProvider
    InstanceOf <- NodeEach
SPECIFICATION FairSpec
CHECK_DEADLOCK FALSE
INVARIANTS
    TypeOK
    ReadersNeverBlock
    ChannelWhileWaiting
PROPERTIES
    ImplementsCall
    DispatchReturns
    ReadersLeave
