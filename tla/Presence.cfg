\* One phone, a member and somebody who may sign up, two launches.
CONSTANTS
    Phones = {p1}
    Accounts = {u1, u2}
    NoUser = NoUser
    Members = {u1}
    MaxLaunches = 2
    MaxTaps = 2
    MaxVisits = 2
    MaxTokens = 2
SPECIFICATION FairSpec
INVARIANTS
    TypeOK
    SignedInIsOnline
    ServerHasLaunchToken
    OnlineIsSomeonesDoing
PROPERTIES
    NobodyIsForgotten
    RequestIsAnswered
    ImplementsSession
\* After its last launch has ended a phone stays off.
CHECK_DEADLOCK FALSE
