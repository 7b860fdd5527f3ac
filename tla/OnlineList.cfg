\* The audio list: up to two rows of two accounts, one without a name, two taps.
CONSTANTS
    Accounts = {u1, u2}
    Incomplete = Incomplete
    NoUser = NoUser
    Sheet = TRUE
    MaxLength = 2
    MaxCalls = 2
SPECIFICATION FairSpec
INVARIANTS
    TypeOK
    RungIsShown
    OnlyNilFieldsKill
PROPERTIES
    ListAppears
\* The screen is left or the process has died.
CHECK_DEADLOCK FALSE
