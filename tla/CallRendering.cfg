\* Two remote participants with one video track each; no local media.
CONSTANTS
    None = None
    Participants = {p1, p2}
    Tracks = {v1}
    Cameras = {FALSE}
    Microphones = {FALSE}
    Replies = {"token"}
SPECIFICATION Spec
SYMMETRY Symmetry
INVARIANTS
    ShownIsLive
    NoVideoMissed
    OneRenderer
    NothingAfterTheRoom
    CrashCauses
    OnlyOpenRoomLeavesACall
\* The screen is released or the process has died: nothing is left to do.
CHECK_DEADLOCK FALSE
