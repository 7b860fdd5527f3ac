\* A server that always answers with a valid token.
CONSTANTS
    None = None
    Participants = {p1}
    Tracks = {v1}
    Cameras = {FALSE}
    Microphones = {FALSE}
    Replies = {"token"}
SPECIFICATION Spec
INVARIANTS
    TokenWasFetched
\* The screen is released or the process has died: nothing is left to do.
CHECK_DEADLOCK FALSE
