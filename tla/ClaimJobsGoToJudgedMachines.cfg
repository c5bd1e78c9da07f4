\* Two machines of one provider, of which one has an approved advertisement.
CONSTANTS
    p1 = p1
    i1 = i1
    i2 = i2
    s1 = s1
    s2 = s2
    Providers = {p1}
    Models = {m1}
    Instances = {i1, i2}
    Sessions = {s1, s2}
    Requests = {r1}
    ProviderOf <- OneProvider
    InstanceOf <- NodeEach
    NoSession = NoSession
    NoInstance = NoInstance
    NoModel = NoModel
    AutoApprove = FALSE
    NodeStatus <- OneDrains
    HeartbeatTimeout = 1
    SweepInterval = 1
    MaxUnswept = 2
SPECIFICATION Spec
CHECK_DEADLOCK FALSE
INVARIANTS
    JobsGoToJudgedMachines
