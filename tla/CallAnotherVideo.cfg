\* Two participants with video, one of whom stops.
CONSTANTS
    None = None
    Participants = {p1, p2}
    Tracks = {v1}
    Cameras = {FALSE}
    Microphones = {FALSE}
    Replies = {"token"}
SPECIFICATION Spec
PROPERTIES
    FindsAnotherVideo
\* The screen is released or the process has died: nothing is left to do.
CHECK_DEADLOCK FALSE
