---------------------------- MODULE CallSession ----------------------------
(***************************************************************************)
(* One life of a CommunicationViewController, the video-call screen, from  *)
(* viewDidLoad to deinit: the token request that races a one-second sleep, *)
(* the connection, the rendering of one remote video, the buttons, and the *)
(* notification that puts another call screen in its place.                *)
(*                                                                         *)
(* Three actors: the main thread (viewDidLoad, delegate callbacks, taps),  *)
(* the URLSession thread that runs the completion of the token request,    *)
(* and the SDK of TwilioRoom.                                              *)
(***************************************************************************)
EXTENDS TwilioRoom, TokenFetch

CONSTANTS
    Cameras,        \* possible answers to "is there a capture device?"
    Microphones     \* possible answers to "can an audio track be created?"

ASSUME MediaAssumption ==
    /\ Cameras \subseteq BOOLEAN /\ Cameras # {}
    /\ Microphones \subseteq BOOLEAN /\ Microphones # {}

VARIABLES
    pc,                 \* where the main thread and the screen are
    cameraAvailable,    \* fixed for the device (FALSE on a simulator)
    camera,             \* self.camera and what its capture is doing
    localVideoTrack, localAudioTrack,
    room,               \* self.room # nil
    remoteParticipant,  \* the participant whose video is shown
    remoteView,         \* the weak outlet is # nil
    renderers,          \* feeds that have had remoteView added as renderer
    delegates,          \* participants whose delegate is this screen
    crash               \* why the process died

mediaVars == <<cameraAvailable, camera, localVideoTrack, localAudioTrack>>
remoteVars == <<remoteParticipant, remoteView, renderers, delegates>>
vars == <<sdkVars, tokenVars, pc, mediaVars, room, remoteVars, crash>>

\* Off the window a screen is held by its closures: "left" by the button, or
\* "replaced"; freed, it is "released" or "dropped".
Screens == {"new", "asleep", "ready", "left", "released", "replaced", "dropped", "crashed"}
TrackStates == {"nil", "on", "off"}
Crashes == {"none", "previewTrack", "tornToken", "roomNil", "remoteViewNil"}

TypeOK ==
    /\ SDKTypeOK /\ TokenTypeOK
    /\ pc \in Screens
    /\ cameraAvailable \in BOOLEAN
    /\ camera \in {"nil", "starting", "running", "failed", "stopped"}
    /\ localVideoTrack \in TrackStates
    /\ localAudioTrack \in TrackStates
    /\ room \in BOOLEAN
    /\ remoteParticipant \in Participants \cup {None}
    /\ remoteView \in BOOLEAN
    /\ renderers \subseteq Feeds
    /\ delegates \subseteq Participants
    /\ crash \in Crashes

Init ==
    /\ SDKInit /\ TokenInit
    /\ pc = "new"
    /\ cameraAvailable \in Cameras
    /\ camera = "nil" /\ localVideoTrack = "nil" /\ localAudioTrack = "nil"
    /\ room = FALSE
    /\ remoteParticipant = None /\ remoteView = TRUE
    /\ renderers = {} /\ delegates = {}
    /\ crash = "none"

-----------------------------------------------------------------------------
(* viewDidLoad, up to sleep(1) and from there on. *)

\* startPreview has nothing to do, or makes the camera and its track.
StartPreview ==
    IF cameraAvailable
    THEN camera' = "starting" /\ localVideoTrack' = "on"
    ELSE UNCHANGED <<camera, localVideoTrack>>

\* startPreview force-unwraps a track (or camera) the SDK could not make.
PreviewFails ==
    /\ cameraAvailable
    /\ pc' = "crashed" /\ crash' = "previewTrack"

\* Mutant: the token is asked for before the preview is started.
Bug_RequestsFirst ==
    /\ pc = "new"
    /\ RequestToken
    /\ \/ StartPreview /\ pc' = "asleep" /\ UNCHANGED crash
       \/ PreviewFails /\ UNCHANGED <<camera, localVideoTrack>>
    /\ UNCHANGED <<sdkVars, cameraAvailable, localAudioTrack, room, remoteVars>>

ViewDidLoad ==
    /\ pc = "new"
    /\ \/ /\ StartPreview
          /\ RequestToken
          /\ pc' = "asleep"
          /\ UNCHANGED crash
       \/ /\ PreviewFails
          /\ UNCHANGED <<tokenVars, camera, localVideoTrack>>
    /\ UNCHANGED <<sdkVars, cameraAvailable, localAudioTrack, room, remoteVars>>

PrepareLocalMedia ==
    /\ \E mic \in Microphones :
           localAudioTrack' = IF mic THEN "on" ELSE "nil"
    /\ IF localVideoTrack = "nil"
       THEN StartPreview ELSE UNCHANGED <<camera, localVideoTrack>>

\* Mutant: the result of connect is not kept in self.room (line 142).
Bug_RoomNotKept ==
    /\ pc = "asleep"
    /\ PrepareLocalMedia
    /\ UseToken
    /\ SDKConnect
    /\ pc' = "ready"
    /\ UNCHANGED <<cameraAvailable, room, remoteVars, crash>>

\* The rest of viewDidLoad, on the main thread, after sleep(1).
Connect ==
    /\ pc = "asleep"
    /\ PrepareLocalMedia
    /\ UseToken
    /\ SDKConnect
    /\ room' = TRUE
    /\ pc' = "ready"
    /\ UNCHANGED <<cameraAvailable, remoteVars, crash>>

\* The same, with a torn read of the token.
ConnectTorn ==
    /\ pc = "asleep"
    /\ TornRead
    /\ pc' = "crashed" /\ crash' = "tornToken"
    /\ PrepareLocalMedia
    /\ UNCHANGED <<sdkVars, tokenVars, cameraAvailable, room, remoteVars>>

-----------------------------------------------------------------------------
(* The completion of the token request, on a URLSession thread.  It holds   *)
(* the screen strongly, and runs whatever the screen has become.            *)

\* The SDK's room may outlive the screen that held it.
Alive == pc \notin {"new", "crashed"}

FetchStep ==
    /\ Alive
    /\ ReplyArrives \/ StoreToken
    /\ UNCHANGED <<sdkVars, pc, mediaVars, room, remoteVars, crash>>

-----------------------------------------------------------------------------
(* Delegate callbacks.  The main queue runs them one at a time, in order,   *)
(* and only when viewDidLoad no longer holds the main thread.               *)

Running == pc \in {"ready", "left", "replaced"}
Next1 == Head(callbacks)

Handle(kinds) ==
    /\ Running
    /\ callbacks # <<>>
    /\ Next1.kind \in kinds
    /\ callbacks' = Tail(callbacks)
    /\ UNCHANGED <<sdkRoom, members, departed, subscribed, ended>>
    /\ UNCHANGED <<tokenVars, mediaVars>>

\* Mutant: the cleanup leaves the outlet as it is (no line 259).
Bug_OutletKept == remoteView

\* remoteView survives a cleanup only if nobody was being shown.
ViewAfterCleanup == remoteView /\ remoteParticipant = None

\* Render the first subscribed feed of `feeds', if any, in the outlet whose
\* value is `view' at that point; the array order of the SDK is not known.
Render(feeds, view) ==
    \/ /\ feeds = {}
       /\ remoteParticipant' = None
       /\ remoteView' = view
       /\ UNCHANGED <<renderers, pc, crash>>
    \/ /\ view
       /\ remoteView' = view
       /\ \E f \in feeds :
              /\ renderers' = renderers \cup {f}
              /\ remoteParticipant' = f[1]
       /\ UNCHANGED <<pc, crash>>
    \/ /\ feeds # {} /\ ~view           \* remoteView! with remoteView nil
       /\ remoteParticipant' = None
       /\ remoteView' = view
       /\ pc' = "crashed" /\ crash' = "remoteViewNil"
       /\ UNCHANGED renderers

FeedsOf(ps) == {f \in subscribed : f[1] \in ps}

\* Mutant: participants already in the room get no delegate (no loop 270-272).
Bug_NoDelegateAtConnect ==
    /\ Handle({"roomDidConnect"})
    /\ UNCHANGED <<pc, room, remoteVars, crash>>

RoomDidConnect ==
    /\ Handle({"roomDidConnect"})
    /\ delegates' = delegates \cup members
    /\ UNCHANGED <<pc, room, remoteParticipant, remoteView, renderers, crash>>

\* Mutant: the room is dropped and the participant left on show (no line 278).
Bug_NoCleanup ==
    /\ Handle({"roomDidDisconnect"})
    /\ room' = FALSE
    /\ UNCHANGED <<pc, remoteVars, crash>>

RoomDidDisconnect ==
    /\ Handle({"roomDidDisconnect"})
    /\ remoteView' = ViewAfterCleanup
    /\ remoteParticipant' = None
    /\ room' = FALSE
    /\ UNCHANGED <<pc, renderers, delegates, crash>>

\* Mutant: a refused connection is only logged (no line 286).
Bug_FailureOnlyLogged ==
    /\ Handle({"roomDidFailToConnect"})
    /\ UNCHANGED <<pc, room, remoteVars, crash>>

\* Mutant: a refused connection is tried again.
Bug_Redials ==
    /\ Running
    /\ callbacks # <<>> /\ Next1.kind = "roomDidFailToConnect"
    /\ callbacks' = Tail(callbacks)
    /\ sdkRoom' = "connecting"
    /\ UNCHANGED <<members, departed, subscribed, ended>>
    /\ UNCHANGED <<tokenVars, pc, mediaVars, room, remoteVars, crash>>

RoomDidFailToConnect ==
    /\ Handle({"roomDidFailToConnect"})
    /\ room' = FALSE
    /\ UNCHANGED <<pc, remoteVars, crash>>

ParticipantDidConnect ==
    /\ Handle({"participantDidConnect"})
    /\ delegates' = delegates \cup {Next1.participant}
    /\ UNCHANGED <<pc, room, remoteParticipant, remoteView, renderers, crash>>

\* Mutant: the departure of the other side is taken for the end of the room.
Bug_PeerEndsRoom ==
    /\ Handle({"participantDidDisconnect"})
    /\ room' = FALSE
    /\ UNCHANGED <<pc, remoteVars, crash>>

ParticipantDidDisconnect ==
    /\ Handle({"participantDidDisconnect"})
    /\ UNCHANGED <<pc, room, remoteVars, crash>>

\* Mutant: the test of line 344 is the wrong way round.
Bug_RenderIfShown ==
    /\ Handle({"didSubscribe"})
    /\ IF Next1.participant \in delegates /\ remoteParticipant # None
       THEN Render(FeedsOf({Next1.participant}), remoteView)
       ELSE UNCHANGED <<pc, remoteParticipant, remoteView, renderers, crash>>
    /\ UNCHANGED <<room, delegates>>

DidSubscribeToVideoTrack ==
    /\ Handle({"didSubscribe"})
    /\ IF Next1.participant \in delegates /\ remoteParticipant = None
       THEN Render(FeedsOf({Next1.participant}), remoteView)
       ELSE UNCHANGED <<pc, remoteParticipant, remoteView, renderers, crash>>
    /\ UNCHANGED <<room, delegates>>

\* Whoever may be rendered in the place of p: the participants that are left,
\* provided there is a room and p itself has not gone from it.
Remaining(p) == IF room /\ p \in members THEN members \ {p} ELSE {}

\* Mutant: nothing is done while the participant still has some other video.
Bug_OtherTrackWillDo ==
    /\ Handle({"didUnsubscribe"})
    /\ IF Next1.participant \in delegates
             /\ remoteParticipant = Next1.participant
             /\ FeedsOf({Next1.participant}) = {}
       THEN Render(FeedsOf(Remaining(Next1.participant)), ViewAfterCleanup)
       ELSE UNCHANGED <<pc, remoteParticipant, remoteView, renderers, crash>>
    /\ UNCHANGED <<room, delegates>>

DidUnsubscribeFromVideoTrack ==
    /\ Handle({"didUnsubscribe"})
    /\ IF Next1.participant \in delegates
             /\ remoteParticipant = Next1.participant
       THEN Render(FeedsOf(Remaining(Next1.participant)), ViewAfterCleanup)
       ELSE UNCHANGED <<pc, remoteParticipant, remoteView, renderers, crash>>
    /\ UNCHANGED <<room, delegates>>

HandleCallback ==
    \/ RoomDidConnect \/ RoomDidDisconnect \/ RoomDidFailToConnect
    \/ ParticipantDidConnect \/ ParticipantDidDisconnect
    \/ DidSubscribeToVideoTrack \/ DidUnsubscribeFromVideoTrack

-----------------------------------------------------------------------------
(* Buttons, the camera's completion, and the end of the screen. *)

\* Mutant: the home screen is shown and nothing else (no line 191).
Bug_LeaveOnly ==
    /\ pc = "ready"
    /\ pc' = "left"
    /\ UNCHANGED <<sdkVars, tokenVars, mediaVars, room, remoteVars, crash>>

\* self.room!.disconnect(), then the home tab bar becomes the window's root.
Disconnect ==
    /\ pc = "ready"
    /\ \/ room /\ SDKDisconnect /\ pc' = "left" /\ UNCHANGED crash
       \/ /\ ~room
          /\ pc' = "crashed" /\ crash' = "roomNil"
          /\ UNCHANGED sdkVars
    /\ UNCHANGED <<tokenVars, mediaVars, room, remoteVars>>

\* A tapped notification: AppDelegate.openRoom makes another call screen the
\* window's root.  This one goes without a word to its room.
Replaced ==
    /\ pc = "ready"
    /\ pc' = "replaced"
    /\ UNCHANGED <<sdkVars, tokenVars, mediaVars, room, remoteVars, crash>>

Toggled(track) ==
    CASE track = "on" -> "off" [] track = "off" -> "on" [] OTHER -> track

ToggleMic ==
    /\ pc = "ready"
    /\ localAudioTrack' = Toggled(localAudioTrack)
    /\ UNCHANGED <<sdkVars, pc, tokenVars, cameraAvailable, camera,
                   localVideoTrack, room, remoteVars, crash>>

ToggleVideo ==
    /\ pc = "ready"
    /\ localVideoTrack' = Toggled(localVideoTrack)
    /\ UNCHANGED <<sdkVars, pc, tokenVars, cameraAvailable, camera,
                   localAudioTrack, room, remoteVars, crash>>

\* The completion of startCapture, which holds the screen strongly.
CaptureStarted ==
    /\ Running
    /\ camera = "starting"
    /\ camera' \in {"running", "failed"}
    /\ UNCHANGED <<sdkVars, pc, tokenVars, cameraAvailable, localVideoTrack,
                   localAudioTrack, room, remoteVars, crash>>

\* What holds a screen off the window: the completions still to run.
Unheld == pc \in {"left", "replaced"} /\ fetch = "done" /\ camera # "starting"
Freed == IF pc = "left" THEN "released" ELSE "dropped"

\* Mutant: no deinit, the camera is left to itself (no lines 40-46).
Bug_CameraKept ==
    /\ Unheld
    /\ pc' = Freed
    /\ UNCHANGED <<sdkVars, tokenVars, mediaVars, room, remoteVars, crash>>

\* deinit, once no closure holds the screen: the camera is stopped.
Deinit ==
    /\ Unheld
    /\ pc' = Freed
    /\ camera' = IF camera = "nil" THEN "nil" ELSE "stopped"
    /\ UNCHANGED <<sdkVars, tokenVars, cameraAvailable, localVideoTrack,
                   localAudioTrack, room, remoteVars, crash>>

SDK ==
    /\ Alive
    /\ SDKStep(connectToken = "token")
    /\ UNCHANGED <<pc, tokenVars, mediaVars, room, remoteVars, crash>>

Next ==
    \/ ViewDidLoad \/ Connect \/ ConnectTorn
    \/ FetchStep
    \/ HandleCallback
    \/ Disconnect \/ Replaced \/ ToggleMic \/ ToggleVideo \/ CaptureStarted \/ Deinit
    \/ SDK

\* The main thread and the main queue run whenever they have something to do;
\* URLSession completes every request (it times out); an SDK that has been
\* asked to connect or to disconnect answers in the end; ARC releases.
Fairness ==
    /\ WF_vars(ViewDidLoad) /\ WF_vars(Connect \/ ConnectTorn)
    /\ WF_vars(FetchStep)
    /\ WF_vars(HandleCallback)
    /\ WF_vars(CaptureStarted) /\ WF_vars(Deinit)
    /\ WF_vars(SDK /\ sdkRoom \in {"connecting", "disconnecting"})

Spec == Init /\ [][Next]_vars
FairSpec == Spec /\ Fairness

-----------------------------------------------------------------------------
(* What the screen promises. *)

\* Whoever is shown is really there to be seen: the room is held, the outlet
\* exists, events of that participant reach the screen, and its rendered feed
\* is subscribed or the callback that takes it down is already queued.
\* (lines 231-262, 275-280, 299-304, 349-356)
ShownIsLive ==
    remoteParticipant # None =>
        /\ room /\ remoteView
        /\ remoteParticipant \in delegates
        /\ \E f \in renderers :
               /\ f[1] = remoteParticipant
               /\ \/ f \in subscribed
                  \/ Pending(TrackCallback("didUnsubscribe", f))
                  \/ Pending(RoomCallback("roomDidDisconnect"))

\* While the outlet exists and nobody is shown, no feed has been overlooked:
\* each subscribed one still has its didSubscribe callback coming.  It rests on
\* every participant getting its delegate before its first track callback.
\* (lines 266-273, 299-304, 339-347)
NoVideoMissed ==
    remoteView /\ remoteParticipant = None =>
        \A f \in subscribed : Pending(TrackCallback("didSubscribe", f))

\* "This example only renders 1 RemoteVideoTrack at a time" (line 269): no
\* renderer is ever removed, yet no second feed gets the same outlet.
OneRenderer == \A f, g \in renderers : f = g

\* Once the screen has let go of its room, nobody is shown and no callback is
\* left that could touch it. (lines 275-289)
NothingAfterTheRoom ==
    connectToken # "unset" /\ ~room =>
        callbacks = <<>> /\ remoteParticipant = None

\* A screen that still holds its room although the SDK has ended it has yet to
\* be told: the callback that says so is queued, whatever is handled before.
\* (lines 275-289)
EndIsComing ==
    room /\ sdkRoom = "disconnected" =>
        \/ Pending(RoomCallback("roomDidDisconnect"))
        \/ Pending(RoomCallback("roomDidFailToConnect"))

\* "Listen for all events to decide which track to render" (line 269): whoever is
\* in the room has this screen as its delegate, or the callback that sets it is
\* queued, whether they were there before or come meanwhile. (lines 266-273,
\* 299-304)
ListensToAll ==
    \A p \in members :
        \/ p \in delegates
        \/ Pending(MemberCallback("participantDidConnect", p))
        \/ Pending(RoomCallback("roomDidConnect"))

\* A call goes on under the screen's button, or behind a screen that openRoom
\* has taken away, and nowhere else: whoever hangs up, at whatever point of
\* connecting, has asked for the end of the room, and the room never comes back.
\* (lines 142, 190-196; AppDelegate 111-121)
OnlyOpenRoomLeavesACall ==
    sdkRoom \in {"connecting", "connected"} =>
        pc \in {"ready", "replaced", "dropped", "crashed"}

\* The screen keeps the promise of every call screen (CallLife): it dials once,
\* a hang-up ends the call, whatever it has come to by then, and nothing dials
\* again; a screen that openRoom takes away leaves its call as it is.
\* (lines 142, 190-196, 284-289; AppDelegate 111-121)
Screen ==
    IF pc \in {"new", "asleep"} THEN "opening"
    ELSE IF pc = "ready" THEN "open"
    ELSE IF pc \in {"replaced", "dropped"} THEN "gone"
    ELSE IF pc = "crashed" THEN "dead" ELSE "closed"

Life == INSTANCE CallLife WITH screen <- Screen, call <- sdkRoom

ImplementsCallLife == Life!Spec

\* The force-unwraps fail only in these histories: the preview's, on a device
\* with a camera, before anything is asked of any server (lines 148-188); the
\* torn token's, before anything is dialled (line 114); the button's, after the
\* SDK ended the room by itself (line 191); the outlet's, after one video was
\* shown and one ended, when another is to be rendered (line 238).
CrashCauses ==
    /\ crash = "previewTrack" => cameraAvailable /\ fetch = "idle" /\ sdkRoom = "none"
    /\ crash = "tornToken" => sdkRoom = "none"
    /\ crash = "roomNil" => ~room /\ sdkRoom = "disconnected"
    /\ crash = "remoteViewNil" =>
           /\ room /\ ~remoteView
           /\ renderers # {} /\ subscribed # {} /\ ended # {}

\* A video that stays subscribed does get shown to a user who stays, as long
\* as the outlet exists. (lines 339-347)
VideoIsShown ==
    \A f \in Feeds :
        (pc = "ready" /\ f \in subscribed /\ remoteView)
            ~> (\/ remoteParticipant # None \/ f \notin subscribed
                \/ ~remoteView \/ pc # "ready")

\* The end of the SDK's room, a refused connection included, reaches the
\* screen if it still exists. (lines 275-289)
RoomEndIsNoticed ==
    sdkRoom = "disconnected" ~> (~room \/ pc \in {"released", "dropped", "crashed"})

\* A screen off the window gives the camera back, whether it was left or taken
\* away, however late the token reply and the capture completion that keep it
\* alive. (lines 40-46, 190-196; AppDelegate 111-121)
CameraIsReleased ==
    pc \in {"left", "replaced"} ~>
        (\/ pc \in {"released", "dropped"} /\ camera \in {"nil", "stopped"}
         \/ pc = "crashed")

(* What the code says of itself and does not keep. *)

\* "the access token that we fetched" (line 113) is what connect is given.
TokenWasFetched == connectToken # "unset" => connectToken = "token"

\* "Find another Participant video to render, if possible" (line 358): when the
\* shown video goes and others remain in the room, one of them is shown.
FindsAnotherVideo ==
    [][ (/\ remoteParticipant # None /\ remoteParticipant' # remoteParticipant
         /\ room' /\ FeedsOf(Remaining(remoteParticipant)) # {})
        => remoteParticipant' # None ]_vars

\* self.room! (line 191) asserts that there is a room while the button shows.
RoomWhileButtonShows == crash # "roomNil"
=============================================================================
