\* Somebody is in the room, or joins it, and nobody listens.
CONSTANTS
    None = None
    Participants = {p1}
    Tracks = {v1}
    Microphones = {FALSE}
    Replies = {"token"}
SPECIFICATION Spec
INVARIANTS
    ListensToAll
\* The screen is released or the process has died: nothing is left to do.
CHECK_DEADLOCK FALSE
