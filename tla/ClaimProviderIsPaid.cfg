\* Who receives the provider's reward.
CONSTANTS
    u1 = u1
    u2 = u2
    p1 = p1
    p2 = p2
    r1 = r1
    r2 = r2
    r3 = r3
    MaxInt = 100
    Users = {u1}
    Providers = {p1}
    NoProvider = NoProvider
    Requests = {r1, r2}
    Owner <- OneOwner
    Prices <- OnlyCheap
    InputChars <- OneText
    RequestedTokens <- NoneOr2000
    DefaultMaxOutputTokens = 1000
    CompletionChars <- OneText
    Reports <- NoneOrMany
    Grant = 6
    Adjustments <- TakeOrGive
    AdjustmentBound = 0
    AmbiguousCommits = {}
    FaultyBound = 0
    CrashEnabled = FALSE
SPECIFICATION Spec
CHECK_DEADLOCK FALSE
INVARIANTS
    ProviderIsPaid
