\* One phone, two members, two taps on login.
CONSTANTS
    Phones = {p1}
    Accounts = {u1, u2}
    NoUser = NoUser
    Members = {u1, u2}
    MaxLaunches = 1
    MaxTaps = 2
    MaxVisits = 0
    MaxTokens = 1
SPECIFICATION Spec
INVARIANTS
    EmailMatchesUid
CHECK_DEADLOCK FALSE
