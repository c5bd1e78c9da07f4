\* Two tabs of one browser and two accounts that are yet to register.
SPECIFICATION LiveSpec
CONSTANTS
    Tabs = {t1, t2}
    Accounts = {a1, a2}
    None = None
    BootstrapFirstUserAdmin = TRUE
INVARIANTS
    TypeOK
    AdminShellGuarded
    NameMatchesToken
    FirstIsAdmin
PROPERTIES
    ShellSettles
