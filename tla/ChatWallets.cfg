\* Two users and two providers, a model that may become free, failing calls, a
\* crash and silent providers.
CONSTANTS
    u1 = u1
    u2 = u2
    p1 = p1
    p2 = p2
    r1 = r1
    r2 = r2
    r3 = r3
    MaxInt = 100
    Users = {u1, u2}
    Providers = {p1, p2}
    NoProvider = NoProvider
    Requests = {r1, r3}
    Owner <- TwoOwners
    Prices <- CheapOrFree
    InputChars <- OneText
    RequestedTokens = {1000}
    DefaultMaxOutputTokens = 1000
    CompletionChars <- OneText
    Reports <- NoReport
    Grant = 3
    Adjustments <- TakeOrGive
    AdjustmentBound = 0
    AmbiguousCommits = {"create", "reserve", "dispatched", "release", "failed"}
    FaultyBound = 1
    CrashEnabled = TRUE
SPECIFICATION FairSpec
CHECK_DEADLOCK FALSE
INVARIANTS
    ReservedBacked
    AnswerMatchesCharge
    StatsCountJobs
PROPERTIES
    EveryRequestAnswered
