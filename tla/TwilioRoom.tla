----------------------------- MODULE TwilioRoom -----------------------------
(***************************************************************************)
(* The part of the Twilio Video SDK that the app's call screens rely on,   *)
(* as one Room object.  The SDK is vendored, so this module is external:   *)
(* it is what the two call view controllers assume of the SDK, read from   *)
(* the calls they make and the delegate methods they implement.            *)
(*                                                                         *)
(* The SDK changes its own state on its own threads and then posts a       *)
(* delegate callback to the main queue.  The two are separate here: a      *)
(* handler runs later, and reads the SDK state of that later moment.       *)
(*                                                                         *)
(* A member of Participants is one RemoteParticipant OBJECT: a person who  *)
(* leaves and comes back is a second object with a new sid, so an object   *)
(* joins and departs at most once.  Likewise a track publication is        *)
(* subscribed at most once.  Reconnecting is a connected room whose two    *)
(* extra callbacks only log.                                               *)
(***************************************************************************)
EXTENDS Naturals, Sequences

CONSTANTS
    Participants,   \* RemoteParticipant objects
    Tracks,         \* names of the video tracks one participant may publish
    None            \* Swift's nil for a participant or a track

ASSUME NoneIsNil == None \notin Participants \cup Tracks

VARIABLES
    sdkRoom,        \* RoomState of the SDK's Room object
    members,        \* room.remoteParticipants
    departed,       \* participants that have left the room
    subscribed,     \* feeds with isTrackSubscribed and a non-nil remoteTrack
    ended,          \* feeds that were subscribed and no longer are
    callbacks       \* delegate callbacks posted to the main queue, in order

sdkVars == <<sdkRoom, members, departed, subscribed, ended, callbacks>>

Feeds == Participants \X Tracks

RoomStates ==
    {"none", "connecting", "connected", "disconnecting", "disconnected"}

RoomKinds == {"roomDidConnect", "roomDidFailToConnect", "roomDidDisconnect"}
MemberKinds == {"participantDidConnect", "participantDidDisconnect"}
TrackKinds == {"didSubscribe", "didUnsubscribe"}

Callback ==
    [kind : RoomKinds, participant : {None}, track : {None}]
        \cup [kind : MemberKinds, participant : Participants, track : {None}]
        \cup [kind : TrackKinds, participant : Participants, track : Tracks]

RoomCallback(k) == [kind |-> k, participant |-> None, track |-> None]
MemberCallback(k, p) == [kind |-> k, participant |-> p, track |-> None]
TrackCallback(k, f) == [kind |-> k, participant |-> f[1], track |-> f[2]]

Pending(c) == \E i \in 1..Len(callbacks) : callbacks[i] = c

SDKTypeOK ==
    /\ sdkRoom \in RoomStates
    /\ members \subseteq Participants
    /\ departed \subseteq Participants
    /\ subscribed \subseteq Feeds
    /\ ended \subseteq Feeds
    /\ callbacks \in Seq(Callback)

SDKInit ==
    /\ sdkRoom = "none"
    /\ members = {} /\ departed = {}
    /\ subscribed = {} /\ ended = {}
    /\ callbacks = <<>>

-----------------------------------------------------------------------------
(* Calls the app makes. *)

\* TwilioVideoSDK.connect: returns a Room that is still connecting.
SDKConnect ==
    /\ sdkRoom' = "connecting"
    /\ UNCHANGED <<members, departed, subscribed, ended, callbacks>>

\* room.disconnect(): asks for the end of the room; harmless once it is over.
SDKDisconnect ==
    /\ sdkRoom' = IF sdkRoom \in {"connecting", "connected"}
                  THEN "disconnecting" ELSE sdkRoom
    /\ UNCHANGED <<members, departed, subscribed, ended, callbacks>>

-----------------------------------------------------------------------------
(* What the SDK does by itself. *)

\* The join succeeds; some participants may already be in the room.
SDKDidConnect ==
    /\ sdkRoom = "connecting"
    /\ sdkRoom' = "connected"
    /\ members' \in SUBSET Participants
    /\ callbacks' = Append(callbacks, RoomCallback("roomDidConnect"))
    /\ UNCHANGED <<departed, subscribed, ended>>

\* The join is refused: bad token, duplicate identity, no network.
SDKFailsToConnect ==
    /\ sdkRoom = "connecting"
    /\ sdkRoom' = "disconnected"
    /\ callbacks' = Append(callbacks, RoomCallback("roomDidFailToConnect"))
    /\ UNCHANGED <<members, departed, subscribed, ended>>

\* The room ends: on the app's request, by the server, or after a lost
\* connection.  Whether the tracks still read as subscribed is unspecified.
SDKEnds ==
    /\ sdkRoom \in {"connected", "disconnecting"}
    /\ sdkRoom' = "disconnected"
    /\ callbacks' = Append(callbacks, RoomCallback("roomDidDisconnect"))
    /\ \/ UNCHANGED <<subscribed, ended>>
       \/ subscribed' = {} /\ ended' = ended \cup subscribed
    /\ UNCHANGED <<members, departed>>

SDKJoins(p) ==
    /\ sdkRoom = "connected"
    /\ p \notin members \cup departed
    /\ members' = members \cup {p}
    /\ callbacks' = Append(callbacks, MemberCallback("participantDidConnect", p))
    /\ UNCHANGED <<sdkRoom, departed, subscribed, ended>>

\* A participant's tracks are unsubscribed, with their callbacks, before it
\* is taken off room.remoteParticipants.
SDKLeaves(p) ==
    /\ sdkRoom = "connected"
    /\ p \in members
    /\ \A f \in subscribed : f[1] # p
    /\ members' = members \ {p}
    /\ departed' = departed \cup {p}
    /\ callbacks' = Append(callbacks, MemberCallback("participantDidDisconnect", p))
    /\ UNCHANGED <<sdkRoom, subscribed, ended>>

SDKSubscribes(f) ==
    /\ sdkRoom = "connected"
    /\ f[1] \in members
    /\ f \notin subscribed \cup ended
    /\ subscribed' = subscribed \cup {f}
    /\ callbacks' = Append(callbacks, TrackCallback("didSubscribe", f))
    /\ UNCHANGED <<sdkRoom, members, departed, ended>>

SDKUnsubscribes(f) ==
    /\ sdkRoom = "connected"
    /\ f \in subscribed
    /\ subscribed' = subscribed \ {f}
    /\ ended' = ended \cup {f}
    /\ callbacks' = Append(callbacks, TrackCallback("didUnsubscribe", f))
    /\ UNCHANGED <<sdkRoom, members, departed>>

\* Everything the SDK may do without being called, once it has a room.
\* `accepted' says whether the access token is one the server accepts.
SDKStep(accepted) ==
    \/ accepted /\ SDKDidConnect
    \/ SDKFailsToConnect
    \/ SDKEnds
    \/ \E p \in Participants : SDKJoins(p) \/ SDKLeaves(p)
    \/ \E f \in Feeds : SDKSubscribes(f) \/ SDKUnsubscribes(f)
=============================================================================
