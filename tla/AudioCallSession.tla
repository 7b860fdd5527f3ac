-------------------------- MODULE AudioCallSession --------------------------
(***************************************************************************)
(* One life of a CallOnlyViewController, the audio-call screen: the video  *)
(* screen without its video, and with every delegate method renamed (its   *)
(* name ends in "2"), so that the SDK, which looks for the protocol's      *)
(* names, calls none of them.  A callback is posted and has no effect; the *)
(* room ends and self.room stays; participants never get a delegate.       *)
(***************************************************************************)
EXTENDS TwilioRoom, TokenFetch

CONSTANT Microphones    \* possible answers to "can an audio track be created?"

ASSUME MicrophoneAssumption == Microphones \subseteq BOOLEAN

VARIABLES
    pc,                 \* where the main thread and the screen are
    localAudioTrack,
    room,               \* self.room # nil
    delegates,          \* participants whose delegate is this screen
    crash               \* why the process died

vars == <<sdkVars, tokenVars, pc, localAudioTrack, room, delegates, crash>>

TypeOK ==
    /\ SDKTypeOK /\ TokenTypeOK
    /\ pc \in {"new", "asleep", "ready", "left", "gone", "crashed"}
    /\ localAudioTrack \in {"nil", "on", "off"}
    /\ room \in BOOLEAN
    /\ delegates \subseteq Participants
    /\ crash \in {"none", "tornToken", "roomNil"}

Init ==
    /\ SDKInit /\ TokenInit
    /\ pc = "new" /\ localAudioTrack = "nil"
    /\ room = FALSE /\ delegates = {}
    /\ crash = "none"

-----------------------------------------------------------------------------
(* viewDidLoad, up to sleep(1) and from there on. *)

ViewDidLoad ==
    /\ pc = "new"
    /\ RequestToken
    /\ pc' = "asleep"
    /\ UNCHANGED <<sdkVars, localAudioTrack, room, delegates, crash>>

PrepareLocalMedia ==
    \E mic \in Microphones : localAudioTrack' = IF mic THEN "on" ELSE "nil"

\* Mutant: the result of connect is not kept in self.room (line 106).
Bug_RoomNotKept ==
    /\ pc = "asleep"
    /\ PrepareLocalMedia
    /\ UseToken
    /\ SDKConnect
    /\ pc' = "ready"
    /\ UNCHANGED <<room, delegates, crash>>

Connect ==
    /\ pc = "asleep"
    /\ PrepareLocalMedia
    /\ UseToken
    /\ SDKConnect
    /\ room' = TRUE
    /\ pc' = "ready"
    /\ UNCHANGED <<delegates, crash>>

\* The same, with a torn read of the token.
ConnectTorn ==
    /\ pc = "asleep"
    /\ TornRead
    /\ PrepareLocalMedia
    /\ pc' = "crashed" /\ crash' = "tornToken"
    /\ UNCHANGED <<sdkVars, tokenVars, room, delegates>>

-----------------------------------------------------------------------------
(* The other threads, the main queue, the buttons. *)

\* The SDK's room may outlive the screen that held it.
Alive == pc \notin {"new", "crashed"}

FetchStep ==
    /\ Alive
    /\ ReplyArrives \/ StoreToken
    /\ UNCHANGED <<sdkVars, pc, localAudioTrack, room, delegates, crash>>

SDK ==
    /\ Alive
    /\ SDKStep(connectToken = "token")
    /\ UNCHANGED <<tokenVars, pc, localAudioTrack, room, delegates, crash>>

\* A callback finds no method of its name.
HandleCallback ==
    /\ pc \in {"ready", "left", "gone"}
    /\ callbacks # <<>>
    /\ callbacks' = Tail(callbacks)
    /\ UNCHANGED <<sdkRoom, members, departed, subscribed, ended>>
    /\ UNCHANGED <<tokenVars, pc, localAudioTrack, room, delegates, crash>>

\* Mutant: the room is asked to disconnect only once it is connected.
Bug_HangUpIfConnected ==
    /\ pc = "ready"
    /\ \/ /\ room /\ pc' = "left"
          /\ IF sdkRoom = "connected" THEN SDKDisconnect ELSE UNCHANGED sdkVars
          /\ UNCHANGED crash
       \/ /\ ~room
          /\ pc' = "crashed" /\ crash' = "roomNil"
          /\ UNCHANGED sdkVars
    /\ UNCHANGED <<tokenVars, localAudioTrack, room, delegates>>

\* self.room!.disconnect(), then the home tab bar becomes the window's root.
Disconnect ==
    /\ pc = "ready"
    /\ \/ room /\ SDKDisconnect /\ pc' = "left" /\ UNCHANGED crash
       \/ /\ ~room
          /\ pc' = "crashed" /\ crash' = "roomNil"
          /\ UNCHANGED sdkVars
    /\ UNCHANGED <<tokenVars, localAudioTrack, room, delegates>>

\* The list shows the screen by a "show" segue outside a navigation controller:
\* a sheet, which the user may swipe away.  A tapped notification takes it too:
\* AppDelegate.openRoom replaces the root under it.  The class notices neither.
TakenAway ==
    /\ pc = "ready"
    /\ pc' = "gone"
    /\ UNCHANGED <<sdkVars, tokenVars, localAudioTrack, room, delegates, crash>>

\* Without a track the whole assignment is skipped, its unwrapping included.
ToggleMic ==
    /\ pc = "ready" /\ localAudioTrack # "nil"
    /\ localAudioTrack' = IF localAudioTrack = "on" THEN "off" ELSE "on"
    /\ UNCHANGED <<sdkVars, tokenVars, pc, room, delegates, crash>>

Next ==
    \/ ViewDidLoad \/ Connect \/ ConnectTorn
    \/ FetchStep \/ SDK \/ HandleCallback
    \/ Disconnect \/ TakenAway \/ ToggleMic

Spec == Init /\ [][Next]_vars

-----------------------------------------------------------------------------
\* The audio screen keeps the promise of every call screen: it dials once, a
\* hang-up ends the call, whatever it has come to by then, and nothing dials
\* again; the call of a screen that is taken away, by a swipe or by openRoom,
\* goes on or ends as the SDK has it. (lines 106, 111-117; AppDelegate 111-121)
Screen ==
    IF pc \in {"new", "asleep"} THEN "opening"
    ELSE IF pc = "ready" THEN "open"
    ELSE IF pc = "left" THEN "closed"
    ELSE IF pc = "gone" THEN "gone" ELSE "dead"

Life == INSTANCE CallLife WITH screen <- Screen, call <- sdkRoom

ImplementsCallLife == Life!Spec

\* The disconnect button always finds its room: unlike the video screen, this
\* one never lets go of a room that the SDK has ended. (lines 106, 112, 163-179)
RoomWhileButtonShows ==
    crash # "roomNil" /\ (pc = "ready" => room)

\* "Listen for events from all Participants" (line 196): whoever is in the room
\* has this screen as its delegate, or the callback that sets it is queued.
ListensToAll ==
    \A p \in members :
        \/ p \in delegates
        \/ Pending(MemberCallback("participantDidConnect", p))
        \/ Pending(RoomCallback("roomDidConnect"))
=============================================================================
