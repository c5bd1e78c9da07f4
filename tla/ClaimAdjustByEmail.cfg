\* The adjustment page alone: the form names a user by email.
SPECIFICATION Spec
CONSTANTS
    Pages = {"wallets"}
    Projects = {p1, p2}
    Keys = {k1, k2}
    Providers = {n1, n2}
    Ads = {a1, a2}
    Models = {m1, m2}
    Requests = {r1, r2}
    Users = {u1}
    Emails = {e1}
    ModelStatuses = {"active", "paused"}
    NewApproval = "pending"
    None = None
    MaxCalls = 2
    MaxRows <- RowsKept
    Found <- RowsFound
INVARIANT
    EmailFindsWallet
