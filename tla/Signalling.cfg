\* Two phones, two accounts that sign in on either, two calls; calls being
\* dialled come to something.
CONSTANTS
    u1 = u1
    u2 = u2
    Phones = {p1, p2}
    Accounts = {u1, u2}
    NoUser = NoUser
    NoPhone = NoPhone
    Uid <- MCUid
    MaxRings = 2
    MaxSessions = 4
SPECIFICATION FairSpec
INVARIANTS
    TypeOK
    SameRoomSameParties
    
    NoCallOffScreen
PROPERTIES
    WaitingCallerIsMet
\* Calls, launches and sign-ins are bounded.
CHECK_DEADLOCK FALSE
