\* Every outcome of camera, microphone and token request; one participant with
\* two video tracks.
CONSTANTS
    None = None
    Participants = {p1}
    Tracks = {v1, v2}
    Cameras = {TRUE, FALSE}
    Microphones = {TRUE, FALSE}
    Replies = {"token", "errorBody", "nothing"}
SPECIFICATION FairSpec
INVARIANTS
    ShownIsLive
    EndIsComing
    CrashCauses
    TypeOK
PROPERTIES
    ImplementsCallLife
    VideoIsShown
    RoomEndIsNoticed
    CameraIsReleased
\* The screen is released or the process has died: nothing is left to do.
CHECK_DEADLOCK FALSE
