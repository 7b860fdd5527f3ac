\* Every outcome of microphone and token request; two participants.
CONSTANTS
    None = None
    Participants = {p1, p2}
    Tracks = {v1}
    Microphones = {TRUE, FALSE}
    Replies = {"token", "errorBody", "nothing"}
SPECIFICATION Spec
INVARIANTS
    TypeOK
    RoomWhileButtonShows
PROPERTIES
    ImplementsCallLife
\* The screen is released or the process has died: nothing is left to do.
CHECK_DEADLOCK FALSE
