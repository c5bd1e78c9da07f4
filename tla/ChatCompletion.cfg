\* Two requests on one wallet, adjustments, a change of price, one request hit
\* by failing database calls, a crash.  Credits end at 8: a balance of 6 plus an
\* adjustment of 3 would not fit.
CONSTANTS
    u1 = u1
    u2 = u2
    p1 = p1
    p2 = p2
    r1 = r1
    r2 = r2
    r3 = r3
    MaxInt = 8
    Users = {u1}
    Providers = {p1}
    NoProvider = NoProvider
    Requests = {r1, r2}
    Owner <- OneOwner
    Prices <- CheapOrDear
    InputChars <- OneText
    RequestedTokens <- NoneOr2000
    DefaultMaxOutputTokens = 1000
    CompletionChars <- OneText
    Reports <- NoneOrMany
    Grant = 6
    Adjustments <- TakeOrGive
    AdjustmentBound = 3
    AmbiguousCommits = {"create", "reserve", "dispatched", "release", "failed"}
    FaultyBound = 1
    CrashEnabled = TRUE
SPECIFICATION Spec
SYMMETRY Symmetry
CHECK_DEADLOCK FALSE
INVARIANTS
    TypeOK
    ReservedBacked
    SpentIsMetered
    SettlementCovered
    NoReservationLeak
    AnswerMatchesCharge
    StatsCountJobs
PROPERTIES
    FinishedIsFinal
    KeepsPromise
