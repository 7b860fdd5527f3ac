\* The SDK may end the room while the button shows.
CONSTANTS
    None = None
    Participants = {p1}
    Tracks = {v1}
    Cameras = {FALSE}
    Microphones = {FALSE}
    Replies = {"token"}
SPECIFICATION Spec
INVARIANTS
    RoomWhileButtonShows
\* The screen is released or the process has died: nothing is left to do.
CHECK_DEADLOCK FALSE
