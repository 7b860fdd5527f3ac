------------------------- MODULE CallSessionProofs -------------------------
(***************************************************************************)
(* Theorems about CallSession, for any sets of participants and tracks and *)
(* any outcomes of camera, microphone and token request.                   *)
(***************************************************************************)
EXTENDS CallSession, TwilioRoomProofs

-----------------------------------------------------------------------------
(* Type correctness. *)

LEMMA HandleTypes ==
    ASSUME TypeOK, NEW K, Handle(K)
    PROVE  /\ callbacks' \in Seq(Callback)
           /\ Next1 \in Callback
           /\ UNCHANGED <<sdkRoom, members, departed, subscribed, ended>>
           /\ UNCHANGED <<tokenVars, mediaVars>>
BY Taken DEF TypeOK, SDKTypeOK, Handle, Next1

LEMMA RenderTypes ==
    ASSUME TypeOK, NEW F \in SUBSET Feeds, NEW view \in BOOLEAN, Render(F, view)
    PROVE  /\ remoteParticipant' \in Participants \cup {None}
           /\ remoteView' \in BOOLEAN
           /\ renderers' \subseteq Feeds
           /\ pc' \in Screens
           /\ crash' \in Crashes
BY DEF TypeOK, Render, Feeds, Screens, Crashes

LEMMA TypeInit == Init => TypeOK
BY EmptySeq, MediaAssumption
   DEF Init, SDKInit, TokenInit, TypeOK, TokenTypeOK, SDKTypeOK, RoomStates, Screens, Tokens, Bodies,
       TrackStates, Crashes

LEMMA TypeStep == TypeOK /\ [Next]_vars => TypeOK'
<1> SUFFICES ASSUME TypeOK, [Next]_vars PROVE TypeOK'
  OBVIOUS
<1> USE DEF TypeOK, TokenTypeOK, tokenVars, mediaVars, remoteVars
<1>1. CASE ViewDidLoad
  BY <1>1 DEF ViewDidLoad, StartPreview, PreviewFails, RequestToken, sdkVars, SDKTypeOK,
              Screens, Tokens, Bodies, TrackStates, Crashes
<1>2. CASE Connect
  BY <1>2 DEF Connect, PrepareLocalMedia, StartPreview, UseToken, SDKConnect,
              SDKTypeOK, RoomStates, Screens, Tokens, Bodies, TrackStates
<1>3. CASE ConnectTorn
  BY <1>3 DEF ConnectTorn, PrepareLocalMedia, StartPreview, sdkVars, SDKTypeOK,
              Screens, TrackStates, Crashes
<1>4. CASE FetchStep
  BY <1>4 DEF FetchStep, ReplyArrives, StoreToken, sdkVars, SDKTypeOK, Bodies, Tokens
<1>6. CASE HandleCallback
  <2> USE HandleTypes DEF SDKTypeOK
  <2>1. CASE RoomDidConnect
    BY <2>1 DEF RoomDidConnect
  <2>2. CASE RoomDidDisconnect
    BY <2>2 DEF RoomDidDisconnect, ViewAfterCleanup
  <2>3. CASE RoomDidFailToConnect
    BY <2>3 DEF RoomDidFailToConnect
  <2>4. CASE ParticipantDidConnect
    <3>1. Next1.participant \in Participants
      BY <2>4 DEF ParticipantDidConnect, Handle, Callback, RoomKinds, TrackKinds
    <3> QED
      BY <2>4, <3>1 DEF ParticipantDidConnect
  <2>5. CASE ParticipantDidDisconnect
    BY <2>5 DEF ParticipantDidDisconnect
  <2>6. CASE DidSubscribeToVideoTrack
    BY <2>6, RenderTypes DEF DidSubscribeToVideoTrack, FeedsOf
  <2>7. CASE DidUnsubscribeFromVideoTrack
    BY <2>7, RenderTypes
       DEF DidUnsubscribeFromVideoTrack, FeedsOf, ViewAfterCleanup
  <2> QED
    BY <1>6, <2>1, <2>2, <2>3, <2>4, <2>5, <2>6, <2>7 DEF HandleCallback
<1>7. CASE Disconnect
  BY <1>7 DEF Disconnect, SDKDisconnect, sdkVars, SDKTypeOK, RoomStates,
              Screens, Crashes
<1>8. CASE ToggleMic
  BY <1>8 DEF ToggleMic, Toggled, sdkVars, SDKTypeOK, TrackStates
<1>9. CASE ToggleVideo
  BY <1>9 DEF ToggleVideo, Toggled, sdkVars, SDKTypeOK, TrackStates
<1>10. CASE CaptureStarted
  BY <1>10 DEF CaptureStarted, sdkVars, SDKTypeOK
<1>11. CASE Deinit
  BY <1>11 DEF Deinit, Freed, sdkVars, SDKTypeOK, Screens
<1>14. CASE Replaced
  BY <1>14 DEF Replaced, sdkVars, SDKTypeOK, Screens
<1>12. CASE SDK
  BY <1>12, SDKTypes DEF SDK
<1>13. CASE UNCHANGED vars
  BY <1>13 DEF vars, sdkVars, SDKTypeOK
<1> QED
  BY <1>1, <1>2, <1>3, <1>4, <1>6, <1>7, <1>8, <1>9, <1>10, <1>11, <1>12, <1>13,
     <1>14
     DEF Next

\* Every variable keeps its type: the screen, its media and its room (lines
\* 13-38) and the SDK's room stay within the states the code can put them in.
THEOREM TypeCorrect == Spec => []TypeOK
BY TypeInit, TypeStep, PTL DEF Spec

-----------------------------------------------------------------------------
(* The inductive invariant.  The screen's own state is tied to the SDK's    *)
(* through what is still queued between them.                               *)

Positions == 1..Len(callbacks)
EndKinds == {"roomDidDisconnect", "roomDidFailToConnect"}

\* A room exists from Connect on; until it is connected nothing has happened.
Phases ==
    /\ connectToken = "unset" <=> sdkRoom = "none"
    /\ sdkRoom = "none" => pc \in {"new", "asleep", "crashed"} /\ crash # "roomNil"
    /\ pc \in {"new", "asleep"} => sdkRoom = "none"
    /\ pc = "new" => fetch = "idle"
    /\ sdkRoom \in {"none", "connecting"} =>
           /\ callbacks = <<>> /\ subscribed = {}
           /\ remoteParticipant = None /\ remoteView /\ renderers = {}
    /\ sdkRoom = "none" => members = {}
    /\ pc = "crashed" <=> crash # "none"
    /\ pc \in {"left", "released"} => sdkRoom \in {"disconnecting", "disconnected"}

\* The end of the room is the last thing the SDK reports, a refused connection
\* the only thing.
EndIsLast ==
    \A i \in Positions :
        /\ callbacks[i].kind \in EndKinds => i = Len(callbacks) /\ sdkRoom = "disconnected"
        /\ callbacks[i].kind = "roomDidFailToConnect" =>
               Len(callbacks) = 1 /\ remoteParticipant = None

RoomHeld ==
    connectToken # "unset" /\ ~room =>
        /\ callbacks = <<>> /\ remoteParticipant = None
        /\ sdkRoom = "disconnected"

\* A feed is subscribed only while its participant is in the room; what is
\* reported of it has happened.
FeedsMakeSense ==
    /\ \A f \in subscribed : f[1] \in members
    /\ \A i \in Positions : callbacks[i].kind = "didUnsubscribe" => ended # {}
    /\ \A f \in Feeds : \A i \in Positions :
           callbacks[i] = TrackCallback("didSubscribe", f) => f \in subscribed \cup ended

\* The outlet is lost only to a video that was shown.
ViewLost ==
    /\ ~remoteView => renderers # {}
    /\ ~remoteView /\ room => ended # {}
    /\ renderers # {} /\ remoteParticipant = None => ~remoteView

\* Before a live feed's callback is handled its participant has a delegate:
\* it has one already, or a callback that gives it one comes first.
GivesDelegate(c, p) ==
    \/ c = MemberCallback("participantDidConnect", p)
    \/ c = RoomCallback("roomDidConnect")

DelegateComesFirst ==
    \A f \in subscribed : \A i \in Positions :
        callbacks[i] = TrackCallback("didSubscribe", f) =>
            \/ f[1] \in delegates
            \/ \E j \in 1..(i - 1) : GivesDelegate(callbacks[j], f[1])

\* The same of the participants: in the room without a delegate means that the
\* callback that gives it one is still queued.
MembersGetDelegates ==
    sdkRoom # "none" =>
        \A p \in members \ delegates : \E j \in Positions : GivesDelegate(callbacks[j], p)

IInv ==
    /\ TypeOK
    /\ Phases /\ EndIsLast /\ RoomHeld /\ FeedsMakeSense /\ ViewLost
    /\ MembersGetDelegates /\ DelegateComesFirst
    /\ ShownIsLive /\ NoVideoMissed /\ OneRenderer /\ CrashCauses

-----------------------------------------------------------------------------
(* The SDK's steps.  Each posts one callback; what the invariant needs to    *)
(* know of it is gathered in one lemma.                                     *)

Posting(c) ==
    /\ callbacks' = Append(callbacks, c)
    /\ sdkRoom \in {"connecting", "connected", "disconnecting"}
    /\ sdkRoom' \in {"connected", "disconnected"}
    /\ sdkRoom = "disconnecting" => sdkRoom' = "disconnected"
    /\ c.kind \in EndKinds => sdkRoom' = "disconnected"
    /\ sdkRoom' = "disconnected" =>
           c \in {RoomCallback("roomDidDisconnect"), RoomCallback("roomDidFailToConnect")}
    /\ c.kind = "roomDidFailToConnect" => sdkRoom = "connecting"
    /\ c.kind = "didUnsubscribe" => ended' # {}
    /\ ended \subseteq ended'
    /\ subscribed \cup ended \subseteq subscribed' \cup ended'
    /\ \A f \in subscribed' : f[1] \in members'
    /\ \A f \in subscribed' \ subscribed :
           c = TrackCallback("didSubscribe", f) /\ f \notin ended
    /\ \A f \in subscribed \ subscribed' :
           c \in {TrackCallback("didUnsubscribe", f), RoomCallback("roomDidDisconnect")}
    /\ \A f \in Feeds : c = TrackCallback("didSubscribe", f) => f \in subscribed'
    /\ \A p \in members' \ members : GivesDelegate(c, p)
    /\ subscribed' # {} => sdkRoom # "connecting"

LEMMA SDKPosts ==
    ASSUME IInv, NEW accepted, SDKStep(accepted)
    PROVE  \E c \in Callback : Posting(c)
<1> USE CallbackTypes
    DEF Posting, EndKinds, GivesDelegate, RoomCallback, MemberCallback,
        TrackCallback, RoomKinds, MemberKinds, TrackKinds
<1>0. SDKTypeOK /\ FeedsMakeSense /\ Phases
  BY DEF IInv, TypeOK
<1>1. CASE SDKDidConnect
  <2>1. Posting(RoomCallback("roomDidConnect"))
    BY <1>0, <1>1 DEF SDKDidConnect, Phases
  <2> QED
    BY <2>1
<1>2. CASE SDKFailsToConnect
  <2>1. Posting(RoomCallback("roomDidFailToConnect"))
    BY <1>0, <1>2 DEF SDKFailsToConnect, Phases
  <2> QED
    BY <2>1
<1>3. CASE SDKEnds
  <2>1. Posting(RoomCallback("roomDidDisconnect"))
    BY <1>0, <1>3 DEF SDKEnds, FeedsMakeSense
  <2> QED
    BY <2>1
<1>4. ASSUME NEW p \in Participants, SDKJoins(p)
      PROVE  \E c \in Callback : Posting(c)
  <2>1. Posting(MemberCallback("participantDidConnect", p))
    BY <1>0, <1>4 DEF SDKJoins, FeedsMakeSense
  <2> QED
    BY <2>1
<1>5. ASSUME NEW p \in Participants, SDKLeaves(p)
      PROVE  \E c \in Callback : Posting(c)
  <2>1. Posting(MemberCallback("participantDidDisconnect", p))
    BY <1>0, <1>5 DEF SDKLeaves, FeedsMakeSense
  <2> QED
    BY <2>1
<1>6. ASSUME NEW f \in Feeds, SDKSubscribes(f)
      PROVE  \E c \in Callback : Posting(c)
  <2>1. \A g \in Feeds : TrackCallback("didSubscribe", f)
                         = TrackCallback("didSubscribe", g) => f = g
    BY DEF Feeds
  <2>2. Posting(TrackCallback("didSubscribe", f))
    BY <1>0, <1>6, <2>1 DEF SDKSubscribes, FeedsMakeSense
  <2> QED
    BY <2>2
<1>7. ASSUME NEW f \in Feeds, SDKUnsubscribes(f)
      PROVE  \E c \in Callback : Posting(c)
  <2>1. Posting(TrackCallback("didUnsubscribe", f))
    BY <1>0, <1>7 DEF SDKUnsubscribes, FeedsMakeSense
  <2> QED
    BY <2>1
<1> QED
  BY <1>1, <1>2, <1>3, <1>4, <1>5, <1>6, <1>7 DEF SDKStep

LEMMA SDKKeepsInvariant ==
    ASSUME IInv, Alive, NEW accepted, SDKStep(accepted), TypeOK',
           UNCHANGED <<pc, tokenVars, mediaVars, room, remoteVars, crash>>
    PROVE  IInv'
<1>1. PICK c \in Callback : Posting(c)
  BY SDKPosts
<1>2. /\ Len(callbacks') = Len(callbacks) + 1
      /\ \A i \in Positions : callbacks'[i] = callbacks[i]
      /\ callbacks'[Len(callbacks) + 1] = c
      /\ \A d : Pending(d) => Pending(d)'
      /\ Pending(c)'
      /\ Len(callbacks) \in Nat
  BY <1>1, Posted, LenProperties DEF IInv, TypeOK, SDKTypeOK, Posting, Positions
<1>3. \A i \in Positions' : i \in Positions \/ i = Len(callbacks) + 1
  BY <1>2 DEF Positions
<1>4. UNCHANGED <<pc, connectToken, room, remoteParticipant, remoteView,
                  renderers, delegates, crash>>
  BY DEF tokenVars, remoteVars
<1> USE DEF IInv
<1>5. Phases'
  BY <1>1, <1>4 DEF Phases, Posting, Alive
<1>6. EndIsLast'
  <2>1. ASSUME NEW i \in Positions' PROVE
          /\ callbacks'[i].kind \in EndKinds =>
                 i = Len(callbacks') /\ sdkRoom' = "disconnected"
          /\ callbacks'[i].kind = "roomDidFailToConnect" =>
                 Len(callbacks') = 1 /\ remoteParticipant' = None
    <3>1. CASE i \in Positions
      BY <1>1, <1>2, <3>1 DEF EndIsLast, Posting, EndKinds
    <3>2. CASE i = Len(callbacks) + 1
      <4>1. callbacks'[i] = c
        BY <1>2, <3>2
      <4>2. c.kind = "roomDidFailToConnect" =>
                Len(callbacks) = 0 /\ remoteParticipant = None
        BY <1>1, EmptySeq DEF Posting, Phases
      <4> QED
        BY <1>1, <1>2, <1>4, <3>2, <4>1, <4>2 DEF Posting, EndKinds
    <3> QED
      BY <1>3, <3>1, <3>2
  <2> QED
    BY <2>1 DEF EndIsLast
<1>7. RoomHeld'
  BY <1>1, <1>4 DEF RoomHeld, Posting
<1>8. FeedsMakeSense'
  BY <1>1, <1>2, <1>3 DEF FeedsMakeSense, Posting
<1>9. ViewLost'
  BY <1>1, <1>4 DEF ViewLost, Posting
<1>10. MembersGetDelegates'
  <2>1. \A p \in members' \ delegates' : \E j \in Positions' : GivesDelegate(callbacks'[j], p)
    <3> TAKE p \in members' \ delegates'
    <3>1. CASE p \in members
      <4>1. PICK j \in Positions : GivesDelegate(callbacks[j], p)
        BY <1>1, <1>4, <3>1 DEF MembersGetDelegates, Posting
      <4> QED
        BY <1>2, <4>1 DEF Positions
    <3>2. CASE p \notin members
      BY <1>1, <1>2, <3>2 DEF Posting, Positions
    <3> QED
      BY <3>1, <3>2
  <2> QED
    BY <2>1 DEF MembersGetDelegates, GivesDelegate
<1>11. DelegateComesFirst'
  <2>1. ASSUME NEW f \in subscribed', NEW i \in Positions',
               callbacks'[i] = TrackCallback("didSubscribe", f), f[1] \notin delegates'
        PROVE  \E j \in 1..(i - 1) : GivesDelegate(callbacks'[j], f[1])
    <3>1. CASE i \in Positions
      <4>1. f \in subscribed
        BY <1>1, <1>2, <2>1, <3>1 DEF FeedsMakeSense, Posting, TypeOK, SDKTypeOK
      <4>2. PICK j \in 1..(i - 1) : GivesDelegate(callbacks[j], f[1])
        BY <1>2, <1>4, <2>1, <3>1, <4>1 DEF DelegateComesFirst
      <4> QED
        BY <1>2, <3>1, <4>2 DEF Positions
    <3>2. CASE i = Len(callbacks) + 1
      <4>1. f[1] \in members /\ sdkRoom # "none"
        BY <1>1, <1>2, <2>1, <3>2
           DEF Posting, FeedsMakeSense, GivesDelegate, TrackCallback,
               MemberCallback, RoomCallback
      <4>2. PICK j \in Positions : GivesDelegate(callbacks[j], f[1])
        BY <1>4, <2>1, <4>1 DEF MembersGetDelegates
      <4> QED
        BY <1>2, <3>2, <4>2 DEF Positions
    <3> QED
      BY <1>3, <3>1, <3>2
  <2> QED
    BY <2>1 DEF DelegateComesFirst, GivesDelegate
<1>12. ShownIsLive'
  BY <1>1, <1>2, <1>4 DEF ShownIsLive, Posting, Phases
<1>13. NoVideoMissed'
  BY <1>1, <1>2, <1>4 DEF NoVideoMissed, Posting
<1>14. OneRenderer'
  BY <1>4 DEF OneRenderer
<1>15. CrashCauses'
  BY <1>4 DEF CrashCauses, Phases, Alive
<1> QED
  BY <1>5, <1>6, <1>7, <1>8, <1>9, <1>10, <1>11, <1>12, <1>13, <1>14, <1>15

-----------------------------------------------------------------------------
(* The callbacks.  Taking one off the queue disturbs the parts of the        *)
(* invariant that speak of positions in the same way whatever it is.        *)

LEMMA HandleTakes ==
    ASSUME IInv, NEW K, Handle(K)
    PROVE  /\ Next1 \in Callback /\ Next1.kind \in K /\ Next1 = callbacks[1]
           /\ Running /\ callbacks # <<>>
           /\ Len(callbacks) \in Nat \ {0}
           /\ Len(callbacks') = Len(callbacks) - 1
           /\ 1 \in Positions
           /\ \A i \in Positions' : /\ i + 1 \in Positions
                                    /\ callbacks'[i] = callbacks[i + 1]
           /\ \A d : Pending(d) => d = Next1 \/ Pending(d)'
           /\ UNCHANGED <<sdkRoom, members, departed, subscribed, ended, connectToken>>
           /\ room /\ connectToken # "unset" /\ crash = "none"
<1>1. callbacks \in Seq(Callback) /\ callbacks # <<>> /\ callbacks' = Tail(callbacks)
  BY DEF IInv, TypeOK, SDKTypeOK, Handle
<1>2. crash = "none" /\ room /\ connectToken # "unset"
  BY DEF IInv, TypeOK, Phases, RoomHeld, Handle, Running
<1> QED
  BY <1>1, <1>2, Taken DEF Handle, Next1, Positions, tokenVars

LEMMA OtherCallbacksStay ==
    ASSUME IInv, NEW K, Handle(K)
    PROVE  /\ \A f : "didSubscribe" \notin K /\ Pending(TrackCallback("didSubscribe", f))
                         => Pending(TrackCallback("didSubscribe", f))'
           /\ \A f : "didUnsubscribe" \notin K /\ Pending(TrackCallback("didUnsubscribe", f))
                         => Pending(TrackCallback("didUnsubscribe", f))'
           /\ "roomDidDisconnect" \notin K /\ Pending(RoomCallback("roomDidDisconnect"))
                  => Pending(RoomCallback("roomDidDisconnect"))'
<1>1. \A k, f : TrackCallback(k, f).kind = k
  BY DEF TrackCallback
<1>2. RoomCallback("roomDidDisconnect").kind = "roomDidDisconnect"
  BY DEF RoomCallback
<1>3. \A d : Pending(d) /\ d.kind \notin K => Pending(d)'
  BY HandleTakes
<1> QED
  BY <1>1, <1>2, <1>3

LEMMA HandleKeepsOrder ==
    ASSUME IInv, NEW K, Handle(K), delegates \subseteq delegates',
           GivesDelegate(Next1, Next1.participant) /\ Next1.participant # None =>
               Next1.participant \in delegates',
           Next1 = RoomCallback("roomDidConnect") => members \subseteq delegates'
    PROVE  /\ EndIsLast' /\ FeedsMakeSense'
           /\ MembersGetDelegates' /\ DelegateComesFirst'
<1> USE HandleTakes
<1>1. \A p : GivesDelegate(Next1, p) /\ p \in members => p \in delegates'
  BY NoneIsNil DEF GivesDelegate, MemberCallback, IInv, TypeOK, SDKTypeOK
<1>2. EndIsLast'
  <2>1. ASSUME NEW i \in Positions', callbacks'[i].kind \in EndKinds
        PROVE  i = Len(callbacks') /\ sdkRoom' = "disconnected"
    BY <2>1 DEF IInv, EndIsLast, Positions
  <2>2. ASSUME NEW i \in Positions', callbacks'[i].kind = "roomDidFailToConnect"
        PROVE  FALSE
    <3>1. i + 1 \in Positions /\ callbacks[i + 1].kind = "roomDidFailToConnect"
      BY <2>2
    <3> QED
      BY <3>1 DEF IInv, EndIsLast, Positions
  <2> QED
    BY <2>1, <2>2 DEF EndIsLast
<1>3. FeedsMakeSense'
  BY DEF IInv, FeedsMakeSense
<1>4. MembersGetDelegates'
  <2>1. ASSUME NEW p \in members', p \notin delegates', sdkRoom' # "none"
        PROVE  \E j \in Positions' : GivesDelegate(callbacks'[j], p)
    <3>1. PICK j \in Positions : GivesDelegate(callbacks[j], p)
      BY <2>1 DEF IInv, MembersGetDelegates
    <3>2. j # 1
      BY <1>1, <2>1, <3>1
    <3>3. j - 1 \in Positions' /\ callbacks'[j - 1] = callbacks[j]
      BY <3>2 DEF Positions
    <3> QED
      BY <3>1, <3>3
  <2> QED
    BY <2>1 DEF MembersGetDelegates, GivesDelegate
<1>5. DelegateComesFirst'
  <2>1. ASSUME NEW f \in subscribed', NEW i \in Positions', f[1] \notin delegates',
               callbacks'[i] = TrackCallback("didSubscribe", f)
        PROVE  \E j \in 1..(i - 1) : GivesDelegate(callbacks'[j], f[1])
    <3>1. PICK j \in 1..i : GivesDelegate(callbacks[j], f[1])
      BY <2>1 DEF IInv, DelegateComesFirst, Positions
    <3>2. j # 1
      BY <1>1, <2>1, <3>1 DEF IInv, FeedsMakeSense
    <3>3. j - 1 \in 1..(i - 1) /\ callbacks'[j - 1] = callbacks[j]
      BY <2>1, <3>2 DEF Positions
    <3> QED
      BY <3>1, <3>3
  <2> QED
    BY <2>1 DEF DelegateComesFirst, GivesDelegate
<1> QED
  BY <1>2, <1>3, <1>4, <1>5

LEMMA RoomDidConnectKeeps ==
    ASSUME IInv, RoomDidConnect, TypeOK'
    PROVE  IInv'
<1> USE DEF IInv, RoomDidConnect
<1>1. Handle({"roomDidConnect"})
  OBVIOUS
<1>2. EndIsLast' /\ FeedsMakeSense' /\ MembersGetDelegates' /\ DelegateComesFirst'
  BY <1>1, HandleTakes, HandleKeepsOrder
     DEF GivesDelegate, MemberCallback, RoomCallback
<1>3. Phases' /\ RoomHeld' /\ ViewLost'
  BY <1>1, HandleTakes DEF Phases, RoomHeld, ViewLost, Running
<1>4. ShownIsLive'
  BY <1>1, HandleTakes, OtherCallbacksStay DEF ShownIsLive
<1>5. NoVideoMissed'
  BY <1>1, HandleTakes, OtherCallbacksStay DEF NoVideoMissed
<1>6. OneRenderer' /\ CrashCauses'
  BY <1>1, HandleTakes DEF OneRenderer, CrashCauses
<1> QED
  BY <1>2, <1>3, <1>4, <1>5, <1>6

LEMMA RoomDidDisconnectKeeps ==
    ASSUME IInv, RoomDidDisconnect, TypeOK'
    PROVE  IInv'
<1> USE DEF IInv, RoomDidDisconnect, ViewAfterCleanup
<1>1. Handle({"roomDidDisconnect"})
  OBVIOUS
<1>2. EndIsLast' /\ FeedsMakeSense' /\ MembersGetDelegates' /\ DelegateComesFirst'
  BY <1>1, HandleTakes, HandleKeepsOrder
     DEF GivesDelegate, MemberCallback, RoomCallback
<1>3. sdkRoom = "disconnected" /\ callbacks' = <<>>
  <2>1. sdkRoom = "disconnected" /\ Len(callbacks) = 1
    BY <1>1, HandleTakes DEF EndIsLast, EndKinds
  <2>2. callbacks' \in Seq(Callback) /\ Len(callbacks') = 0
    BY <1>1, <2>1, HandleTakes DEF TypeOK, SDKTypeOK
  <2> QED
    BY <2>1, <2>2, EmptySeq
<1>4. Phases' /\ RoomHeld'
  BY <1>1, <1>3, HandleTakes DEF Phases, RoomHeld, Running
<1>5. ViewLost' /\ OneRenderer' /\ CrashCauses' /\ ShownIsLive'
  BY <1>1, HandleTakes DEF ViewLost, OneRenderer, CrashCauses, ShownIsLive
<1>6. NoVideoMissed'
  <2>1. remoteView' => remoteView /\ remoteParticipant = None
    BY DEF TypeOK
  <2>2. subscribed' = subscribed
    BY <1>1, HandleTakes
  <2> QED
    BY <1>1, <2>1, <2>2, OtherCallbacksStay DEF NoVideoMissed
<1> QED
  BY <1>2, <1>3, <1>4, <1>5, <1>6

LEMMA RoomDidFailToConnectKeeps ==
    ASSUME IInv, RoomDidFailToConnect, TypeOK'
    PROVE  IInv'
<1> USE DEF IInv, RoomDidFailToConnect, remoteVars
<1>1. Handle({"roomDidFailToConnect"})
  OBVIOUS
<1>2. EndIsLast' /\ FeedsMakeSense' /\ MembersGetDelegates' /\ DelegateComesFirst'
  BY <1>1, HandleTakes, HandleKeepsOrder
     DEF GivesDelegate, MemberCallback, RoomCallback
<1>3. sdkRoom = "disconnected" /\ callbacks' = <<>> /\ remoteParticipant = None
  <2>1. sdkRoom = "disconnected" /\ Len(callbacks) = 1 /\ remoteParticipant = None
    BY <1>1, HandleTakes DEF EndIsLast, EndKinds
  <2>2. callbacks' \in Seq(Callback) /\ Len(callbacks') = 0
    BY <1>1, <2>1, HandleTakes DEF TypeOK, SDKTypeOK
  <2> QED
    BY <2>1, <2>2, EmptySeq
<1>4. Phases' /\ RoomHeld'
  BY <1>1, <1>3, HandleTakes DEF Phases, RoomHeld, Running
<1>5. ViewLost' /\ OneRenderer' /\ CrashCauses' /\ ShownIsLive'
  BY <1>1, <1>3, HandleTakes DEF ViewLost, OneRenderer, CrashCauses, ShownIsLive
<1>6. NoVideoMissed'
  BY <1>1, HandleTakes, OtherCallbacksStay DEF NoVideoMissed
<1> QED
  BY <1>2, <1>3, <1>4, <1>5, <1>6

LEMMA ParticipantDidConnectKeeps ==
    ASSUME IInv, ParticipantDidConnect, TypeOK'
    PROVE  IInv'
<1> USE DEF IInv, ParticipantDidConnect
<1>1. Handle({"participantDidConnect"})
  OBVIOUS
<1>2. EndIsLast' /\ FeedsMakeSense' /\ MembersGetDelegates' /\ DelegateComesFirst'
  BY <1>1, HandleTakes, HandleKeepsOrder
     DEF GivesDelegate, MemberCallback, RoomCallback
<1>3. Phases' /\ RoomHeld' /\ ViewLost'
  BY <1>1, HandleTakes DEF Phases, RoomHeld, ViewLost, Running
<1>4. ShownIsLive'
  BY <1>1, HandleTakes, OtherCallbacksStay DEF ShownIsLive
<1>5. NoVideoMissed'
  BY <1>1, HandleTakes, OtherCallbacksStay DEF NoVideoMissed
<1>6. OneRenderer' /\ CrashCauses'
  BY <1>1, HandleTakes DEF OneRenderer, CrashCauses
<1> QED
  BY <1>2, <1>3, <1>4, <1>5, <1>6

LEMMA ParticipantDidDisconnectKeeps ==
    ASSUME IInv, ParticipantDidDisconnect, TypeOK'
    PROVE  IInv'
<1> USE DEF IInv, ParticipantDidDisconnect, remoteVars
<1>1. Handle({"participantDidDisconnect"})
  OBVIOUS
<1>2. EndIsLast' /\ FeedsMakeSense' /\ MembersGetDelegates' /\ DelegateComesFirst'
  BY <1>1, HandleTakes, HandleKeepsOrder
     DEF GivesDelegate, MemberCallback, RoomCallback
<1>3. Phases' /\ RoomHeld' /\ ViewLost'
  BY <1>1, HandleTakes DEF Phases, RoomHeld, ViewLost, Running
<1>4. ShownIsLive'
  BY <1>1, HandleTakes, OtherCallbacksStay DEF ShownIsLive
<1>5. NoVideoMissed'
  BY <1>1, HandleTakes, OtherCallbacksStay DEF NoVideoMissed
<1>6. OneRenderer' /\ CrashCauses'
  BY <1>1, HandleTakes DEF OneRenderer, CrashCauses
<1> QED
  BY <1>2, <1>3, <1>4, <1>5, <1>6

\* A callback about a track whose participant is not, or no longer, of interest
\* changes nothing but the queue.
LEMMA IgnoredTrackCallback ==
    ASSUME IInv, NEW K \in SUBSET TrackKinds, Handle(K), TypeOK',
           UNCHANGED <<pc, room, remoteVars, crash>>,
           \A f \in subscribed :
               Next1 = TrackCallback("didSubscribe", f) /\ f[1] \in delegates =>
                   remoteParticipant # None,
           \A f \in Feeds :
               Next1 = TrackCallback("didUnsubscribe", f) /\ f[1] \in delegates =>
                   f[1] # remoteParticipant
    PROVE  IInv'
<1> USE DEF IInv, remoteVars
<1>1. EndIsLast' /\ FeedsMakeSense' /\ MembersGetDelegates' /\ DelegateComesFirst'
  BY HandleTakes, HandleKeepsOrder
     DEF GivesDelegate, MemberCallback, RoomCallback, TrackKinds
<1>2. Phases' /\ RoomHeld' /\ ViewLost'
  BY HandleTakes DEF Phases, RoomHeld, ViewLost, Running
<1>3. ShownIsLive'
  <2>1. ASSUME remoteParticipant # None
        PROVE  \E f \in renderers :
                   /\ f[1] = remoteParticipant
                   /\ \/ f \in subscribed
                      \/ Pending(TrackCallback("didUnsubscribe", f))'
                      \/ Pending(RoomCallback("roomDidDisconnect"))'
    <3>1. PICK f \in renderers :
              /\ f[1] = remoteParticipant
              /\ \/ f \in subscribed
                 \/ Pending(TrackCallback("didUnsubscribe", f))
                 \/ Pending(RoomCallback("roomDidDisconnect"))
      BY <2>1 DEF ShownIsLive
    <3>2. remoteParticipant \in delegates
      BY <2>1 DEF ShownIsLive
    <3>3. Next1 # TrackCallback("didUnsubscribe", f)
      BY <3>1, <3>2 DEF TypeOK
    <3> QED
      BY <3>1, <3>3, HandleTakes, OtherCallbacksStay DEF TrackKinds
  <2> QED
    BY <2>1, HandleTakes DEF ShownIsLive
<1>4. NoVideoMissed'
  <2>1. ASSUME remoteView, remoteParticipant = None, NEW f \in subscribed
        PROVE  Pending(TrackCallback("didSubscribe", f))'
    <3>1. Pending(TrackCallback("didSubscribe", f))
      BY <2>1 DEF NoVideoMissed
    <3>2. Next1 # TrackCallback("didSubscribe", f)
      <4>1. SUFFICES ASSUME Next1 = TrackCallback("didSubscribe", f) PROVE FALSE
        OBVIOUS
      <4>2. f[1] \in delegates
        BY <4>1, HandleTakes DEF DelegateComesFirst
      <4> QED
        BY <2>1, <4>1, <4>2
    <3> QED
      BY <3>1, <3>2, HandleTakes
  <2> QED
    BY <2>1, HandleTakes DEF NoVideoMissed
<1>5. OneRenderer' /\ CrashCauses'
  BY HandleTakes DEF OneRenderer, CrashCauses
<1> QED
  BY <1>1, <1>2, <1>3, <1>4, <1>5

LEMMA DidSubscribeKeeps ==
    ASSUME IInv, DidSubscribeToVideoTrack, TypeOK'
    PROVE  IInv'
<1> DEFINE p == Next1.participant
           F == FeedsOf({p})
<1>1. Handle({"didSubscribe"}) /\ UNCHANGED <<room, delegates>>
  BY DEF DidSubscribeToVideoTrack
<1>2. \A f \in Feeds : Next1 = TrackCallback("didSubscribe", f) => f[1] = p
  BY DEF TrackCallback
<1>3. \A f \in Feeds : Next1 # TrackCallback("didUnsubscribe", f)
  BY <1>1, HandleTakes DEF TrackCallback
<1>4. subscribed \subseteq Feeds
  BY DEF IInv, TypeOK, SDKTypeOK
<1>5. CASE ~(p \in delegates /\ remoteParticipant = None)
  <2>1. UNCHANGED <<pc, room, remoteVars, crash>>
    BY <1>1, <1>5 DEF DidSubscribeToVideoTrack, remoteVars
  <2> QED
    BY <1>1, <1>2, <1>3, <1>4, <1>5, <2>1, IgnoredTrackCallback DEF TrackKinds
<1>6. CASE p \in delegates /\ remoteParticipant = None
  <2>0. Render(F, remoteView)
    BY <1>6 DEF DidSubscribeToVideoTrack
  <2>1. CASE F = {} /\ remoteParticipant' = None /\ remoteView' = remoteView
             /\ UNCHANGED <<renderers, pc, crash>>
    <3>1. UNCHANGED <<pc, room, remoteVars, crash>>
      BY <1>1, <1>6, <2>1 DEF remoteVars
    <3>2. \A f \in subscribed : Next1 # TrackCallback("didSubscribe", f)
      BY <1>2, <1>4, <2>1 DEF FeedsOf
    <3> QED
      BY <1>1, <1>3, <3>1, <3>2, IgnoredTrackCallback DEF TrackKinds
  <2>2. CASE ~(F = {} /\ remoteParticipant' = None /\ remoteView' = remoteView
               /\ UNCHANGED <<renderers, pc, crash>>)
    <3> USE DEF IInv
    <3>1. \/ /\ remoteView /\ remoteView' = remoteView
             /\ \E f \in F : /\ renderers' = renderers \cup {f}
                             /\ remoteParticipant' = f[1]
             /\ UNCHANGED <<pc, crash>>
          \/ /\ F # {} /\ ~remoteView /\ remoteView' = remoteView
             /\ remoteParticipant' = None
             /\ pc' = "crashed" /\ crash' = "remoteViewNil"
             /\ UNCHANGED renderers
      BY <2>0, <2>2 DEF Render
    <3>2. \A f \in F : f \in subscribed /\ f[1] = p /\ f[1] # None
      BY <1>4, NoneIsNil DEF FeedsOf, Feeds
    <3>3. EndIsLast' /\ FeedsMakeSense' /\ MembersGetDelegates' /\ DelegateComesFirst'
      BY <1>1, HandleTakes, HandleKeepsOrder
         DEF GivesDelegate, MemberCallback, RoomCallback
    <3>4. Phases'
      BY <1>1, <3>1, HandleTakes DEF Phases, Running
    <3>. room /\ room' /\ UNCHANGED <<ended, subscribed>>
      BY <1>1, HandleTakes
    <3>5. RoomHeld' /\ ViewLost'
      BY <3>1, <3>2 DEF RoomHeld, ViewLost
    <3>6. ShownIsLive'
      BY <1>1, <1>6, <3>1, <3>2, HandleTakes DEF ShownIsLive
    <3>7. NoVideoMissed'
      BY <3>1, <3>2 DEF NoVideoMissed
    <3>8. OneRenderer'
      BY <1>6, <3>1 DEF OneRenderer, ViewLost
    <3>9. CrashCauses'
      <4>1. crash = "none"
        BY <1>1, HandleTakes
      <4>2. ~remoteView => renderers # {} /\ ended # {}
        BY DEF ViewLost
      <4>3. F # {} => subscribed # {}
        BY <3>2
      <4> QED
        BY <3>1, <4>1, <4>2, <4>3 DEF CrashCauses
    <3> QED
      BY <3>3, <3>4, <3>5, <3>6, <3>7, <3>8, <3>9
  <2> QED
    BY <2>1, <2>2
<1> QED
  BY <1>5, <1>6

LEMMA DidUnsubscribeKeeps ==
    ASSUME IInv, DidUnsubscribeFromVideoTrack, TypeOK'
    PROVE  IInv'
<1> DEFINE p == Next1.participant
           F == FeedsOf(Remaining(p))
<1>1. Handle({"didUnsubscribe"}) /\ UNCHANGED <<room, delegates>>
  BY DEF DidUnsubscribeFromVideoTrack
<1>2. CASE ~(p \in delegates /\ remoteParticipant = p)
  <2>1. UNCHANGED <<pc, room, remoteVars, crash>>
    BY <1>1, <1>2 DEF DidUnsubscribeFromVideoTrack, remoteVars
  <2>2. \A f \in Feeds : Next1 # TrackCallback("didSubscribe", f)
    BY <1>1, HandleTakes DEF TrackCallback
  <2>3. \A f \in Feeds : Next1 = TrackCallback("didUnsubscribe", f) => f[1] = p
    BY DEF TrackCallback
  <2>4. subscribed \subseteq Feeds
    BY DEF IInv, TypeOK, SDKTypeOK
  <2> QED
    BY <1>1, <1>2, <2>1, <2>2, <2>3, <2>4, IgnoredTrackCallback DEF TrackKinds
<1>3. CASE p \in delegates /\ remoteParticipant = p
  <2> USE DEF IInv
  <2>1. remoteParticipant # None
    BY <1>3, NoneIsNil DEF TypeOK
  <2>2. ViewAfterCleanup = FALSE
    BY <2>1 DEF ViewAfterCleanup, TypeOK
  <2>3. /\ remoteParticipant' = None /\ remoteView' = FALSE
        /\ UNCHANGED renderers
        /\ \/ UNCHANGED <<pc, crash>>
           \/ /\ F # {}
              /\ pc' = "crashed" /\ crash' = "remoteViewNil"
    BY <1>3, <2>2 DEF DidUnsubscribeFromVideoTrack, Render
  <2>4. renderers # {} /\ ended # {}
    BY <1>1, <2>1, HandleTakes DEF ShownIsLive, FeedsMakeSense
  <2>5. EndIsLast' /\ FeedsMakeSense' /\ MembersGetDelegates' /\ DelegateComesFirst'
    BY <1>1, HandleTakes, HandleKeepsOrder
       DEF GivesDelegate, MemberCallback, RoomCallback
  <2>6. Phases'
    BY <1>1, <2>3, HandleTakes DEF Phases, Running
  <2>7. RoomHeld' /\ ViewLost'
    BY <1>1, <2>3, <2>4, HandleTakes DEF RoomHeld, ViewLost
  <2>8. ShownIsLive' /\ NoVideoMissed' /\ OneRenderer'
    BY <2>3 DEF ShownIsLive, NoVideoMissed, OneRenderer
  <2>9. CrashCauses'
    BY <1>1, <2>3, <2>4, HandleTakes DEF CrashCauses, FeedsOf
  <2> QED
    BY <2>5, <2>6, <2>7, <2>8, <2>9
<1> QED
  BY <1>2, <1>3

-----------------------------------------------------------------------------
(* The steps that leave the SDK and the remote side of the screen alone.     *)

LEMMA QuietStep ==
    ASSUME IInv, TypeOK', Phases', CrashCauses',
           UNCHANGED <<members, departed, subscribed, ended, callbacks>>,
           UNCHANGED <<room, remoteVars>>,
           connectToken # "unset" /\ UNCHANGED connectToken,
           sdkRoom = "disconnected" => sdkRoom' = "disconnected"
    PROVE  IInv'
<1> USE DEF IInv, remoteVars
<1>1. EndIsLast' /\ RoomHeld' /\ FeedsMakeSense' /\ ViewLost'
  BY DEF EndIsLast, RoomHeld, FeedsMakeSense, ViewLost, Positions
<1>2. sdkRoom # "none"
  BY DEF Phases
<1>3. MembersGetDelegates' /\ DelegateComesFirst'
  BY <1>2 DEF MembersGetDelegates, DelegateComesFirst, Positions, GivesDelegate
<1>4. ShownIsLive' /\ NoVideoMissed' /\ OneRenderer'
  BY DEF ShownIsLive, NoVideoMissed, OneRenderer, Pending
<1> QED
  BY <1>1, <1>3, <1>4

\* Before the room exists the invariant says little more than that.
LEMMA NoRoomYet ==
    ASSUME IInv, sdkRoom = "none", TypeOK', Phases', CrashCauses',
           UNCHANGED <<members, departed, subscribed, ended, callbacks>>,
           UNCHANGED remoteVars,
           \/ sdkRoom' = "none"
           \/ room' /\ members = {}
    PROVE  IInv'
<1> USE DEF IInv, remoteVars
<1>1. callbacks = <<>> /\ callbacks' = <<>> /\ subscribed = {} /\ subscribed' = {}
      /\ remoteParticipant = None /\ remoteView
  BY DEF Phases
<1>2. Positions = {} /\ Positions' = {}
  BY <1>1, EmptySeq DEF Positions
<1>3. EndIsLast' /\ FeedsMakeSense' /\ DelegateComesFirst'
  BY <1>1, <1>2 DEF EndIsLast, FeedsMakeSense, DelegateComesFirst
<1>4. RoomHeld' /\ MembersGetDelegates'
  BY DEF RoomHeld, MembersGetDelegates, Phases
<1>5. ViewLost' /\ ShownIsLive' /\ NoVideoMissed' /\ OneRenderer'
  BY <1>1 DEF ViewLost, ShownIsLive, NoVideoMissed, OneRenderer
<1> QED
  BY <1>3, <1>4, <1>5

LEMMA InvariantInit == Init => IInv
<1> SUFFICES ASSUME Init PROVE IInv
  OBVIOUS
<1> USE DEF Init, SDKInit, TokenInit
<1>1. TypeOK
  BY TypeInit
<1>2. Positions = {}
  BY EmptySeq DEF Positions
<1>3. Phases
  BY DEF Phases
<1>4. EndIsLast /\ RoomHeld /\ FeedsMakeSense /\ ViewLost /\ MembersGetDelegates
      /\ DelegateComesFirst
  BY <1>2 DEF EndIsLast, RoomHeld, FeedsMakeSense, ViewLost, MembersGetDelegates,
              DelegateComesFirst
<1>5. ShownIsLive /\ NoVideoMissed /\ OneRenderer /\ CrashCauses
  BY DEF ShownIsLive, NoVideoMissed, OneRenderer, CrashCauses
<1> QED
  BY <1>1, <1>3, <1>4, <1>5 DEF IInv

LEMMA InvariantStep == IInv /\ [Next]_vars => IInv'
<1> SUFFICES ASSUME IInv, [Next]_vars PROVE IInv'
  OBVIOUS
<1>0. TypeOK'
  BY TypeStep DEF IInv
<1>1. ASSUME ViewDidLoad
      PROVE  IInv'
  <2>1. sdkRoom = "none"
    BY <1>1 DEF ViewDidLoad, IInv, Phases
  <2>2. Phases' /\ CrashCauses'
    BY <1>0, <1>1, <2>1 DEF ViewDidLoad, PreviewFails, RequestToken, IInv, Phases,
                            CrashCauses, sdkVars, tokenVars, remoteVars
  <2> QED
    BY <1>0, <1>1, <2>1, <2>2, NoRoomYet DEF ViewDidLoad, sdkVars
<1>2. ASSUME Connect
      PROVE  IInv'
  <2>1. sdkRoom = "none"
    BY <1>2 DEF Connect, IInv, Phases
  <2>2. connectToken' # "unset"
    BY <1>2 DEF Connect, UseToken, IInv, TypeOK, TokenTypeOK, Tokens, Bodies
  <2>3. Phases' /\ CrashCauses'
    BY <1>2, <2>1, <2>2 DEF Connect, SDKConnect, IInv, Phases, CrashCauses, remoteVars
  <2>4. members = {}
    BY <2>1 DEF IInv, Phases
  <2> QED
    BY <1>0, <1>2, <2>1, <2>3, <2>4, NoRoomYet DEF Connect, SDKConnect
<1>3. ASSUME ConnectTorn
      PROVE  IInv'
  <2>1. sdkRoom = "none"
    BY <1>3 DEF ConnectTorn, IInv, Phases
  <2>2. Phases' /\ CrashCauses'
    BY <1>3, <2>1 DEF ConnectTorn, IInv, Phases, CrashCauses, sdkVars, tokenVars,
                      remoteVars
  <2> QED
    BY <1>0, <1>3, <2>1, <2>2, NoRoomYet DEF ConnectTorn, sdkVars
<1>4. ASSUME FetchStep \/ ToggleMic \/ ToggleVideo \/ CaptureStarted
             \/ Deinit \/ Replaced \/ UNCHANGED vars
      PROVE  IInv'
  <2>1. /\ UNCHANGED <<sdkRoom, members, departed, subscribed, ended, callbacks,
                       connectToken, room, remoteVars, crash>>
        /\ \/ UNCHANGED pc
           \/ pc = "left" /\ pc' = "released"
           \/ pc \in {"ready", "replaced"} /\ pc' \in {"replaced", "dropped"}
        /\ \/ UNCHANGED <<fetch, cameraAvailable>>
           \/ pc \notin {"new", "crashed"} /\ UNCHANGED cameraAvailable
    BY <1>4 DEF FetchStep, ReplyArrives, StoreToken, ToggleMic, ToggleVideo, CaptureStarted,
                Deinit, Unheld, Freed, Replaced, Alive, vars, sdkVars, tokenVars, mediaVars
  <2>2. Phases' /\ CrashCauses'
    BY <2>1 DEF IInv, Phases, CrashCauses, remoteVars
  <2> QED
    BY <1>0, <2>1, <2>2, NoRoomYet, QuietStep DEF IInv, Phases
<1>5. ASSUME HandleCallback
      PROVE  IInv'
  BY <1>0, <1>5, RoomDidConnectKeeps, RoomDidDisconnectKeeps, RoomDidFailToConnectKeeps,
     ParticipantDidConnectKeeps, ParticipantDidDisconnectKeeps, DidSubscribeKeeps,
     DidUnsubscribeKeeps
     DEF HandleCallback
<1>6. ASSUME Disconnect
      PROVE  IInv'
  <2>1. sdkRoom # "none" /\ connectToken # "unset" /\ UNCHANGED connectToken
    BY <1>6 DEF Disconnect, IInv, Phases, tokenVars
  <2>2. /\ UNCHANGED <<members, departed, subscribed, ended, callbacks, room, remoteVars>>
        /\ sdkRoom' \in {sdkRoom, "disconnecting"}
        /\ sdkRoom' # sdkRoom => sdkRoom \in {"connecting", "connected"}
    BY <1>6 DEF Disconnect, SDKDisconnect, sdkVars
  <2>3. Phases' /\ CrashCauses'
    <3>1. CASE room /\ SDKDisconnect /\ pc' = "left" /\ UNCHANGED crash
      BY <1>6, <2>1, <2>2, <3>1
         DEF Disconnect, SDKDisconnect, IInv, TypeOK, SDKTypeOK, RoomStates, Phases,
             CrashCauses, remoteVars
    <3>2. CASE ~room /\ pc' = "crashed" /\ crash' = "roomNil" /\ UNCHANGED sdkVars
      BY <1>6, <2>1, <2>2, <3>2 DEF Disconnect, IInv, Phases, CrashCauses, RoomHeld,
                                    remoteVars, sdkVars
    <3> QED
      BY <1>6, <3>1, <3>2 DEF Disconnect
  <2> QED
    BY <1>0, <2>1, <2>2, <2>3, QuietStep
<1>7. ASSUME SDK
      PROVE  IInv'
  BY <1>0, <1>7, SDKKeepsInvariant DEF SDK
<1> QED
  BY <1>1, <1>2, <1>3, <1>4, <1>5, <1>6, <1>7 DEF Next

LEMMA Invariant == Spec => []IInv
BY InvariantInit, InvariantStep, PTL DEF Spec

-----------------------------------------------------------------------------
(* What follows from it. *)

\* Whoever is shown is in a room that is held, in an outlet that exists, and
\* its rendered feed is live or about to be taken down (lines 231-262).
THEOREM ShownVideoIsLive == Spec => []ShownIsLive
<1>1. IInv => ShownIsLive
  BY DEF IInv
<1> QED
  BY <1>1, Invariant, PTL

\* While the outlet exists no subscribed feed is overlooked, in whatever order
\* participants, tracks and delegates come (lines 266-273, 299-304, 339-347).
THEOREM NoVideoIsMissed == Spec => []NoVideoMissed
<1>1. IInv => NoVideoMissed
  BY DEF IInv
<1> QED
  BY <1>1, Invariant, PTL

\* At most one feed is ever rendered (line 269).
THEOREM OneFeedIsRendered == Spec => []OneRenderer
<1>1. IInv => OneRenderer
  BY DEF IInv
<1> QED
  BY <1>1, Invariant, PTL

\* After the room has been let go nothing more happens (lines 275-289).
THEOREM RoomEndsLast == Spec => []NothingAfterTheRoom
<1>1. IInv => NothingAfterTheRoom
  BY DEF IInv, RoomHeld, NothingAfterTheRoom
<1> QED
  BY <1>1, Invariant, PTL

\* The force-unwraps of lines 191 and 238 fail in the histories named only.
THEOREM CrashesAreThese == Spec => []CrashCauses
<1>1. IInv => CrashCauses
  BY DEF IInv
<1> QED
  BY <1>1, Invariant, PTL

\* A call that goes on has its screen and its button, unless openRoom took the
\* screen away: none goes on behind a user who has hung up (lines 190-196;
\* AppDelegate 111-121).
THEOREM HangingUpEndsTheCall == Spec => []OnlyOpenRoomLeavesACall
<1>1. IInv => OnlyOpenRoomLeavesACall
  BY DEF IInv, TypeOK, Screens, Phases, OnlyOpenRoomLeavesACall
<1> QED
  BY <1>1, Invariant, PTL

\* Nobody in the room is without a delegate, unless the callback that gives it
\* one is queued (lines 266-273, 299-304).
THEOREM ListensToEverybody == Spec => []ListensToAll
<1>1. IInv => ListensToAll
  BY DEF IInv, Phases, MembersGetDelegates, GivesDelegate, Positions, Pending,
         ListensToAll
<1> QED
  BY <1>1, Invariant, PTL

LEMMA EndStep == IInv /\ IInv' /\ EndIsComing /\ [Next]_vars => EndIsComing'
<1> SUFFICES ASSUME IInv, IInv', EndIsComing, [Next]_vars PROVE EndIsComing'
  OBVIOUS
<1> DEFINE gone == RoomCallback("roomDidDisconnect")
           refused == RoomCallback("roomDidFailToConnect")
<1>1. CASE HandleCallback
  <2>1. ASSUME NEW K, Handle(K), UNCHANGED room, K \cap EndKinds = {}
        PROVE  EndIsComing'
    <3>1. gone.kind \in EndKinds /\ refused.kind \in EndKinds
      BY DEF RoomCallback, EndKinds
    <3>2. /\ Pending(gone) => Pending(gone)'
          /\ Pending(refused) => Pending(refused)'
      BY <2>1, <3>1, HandleTakes
    <3> QED
      BY <2>1, <3>2, HandleTakes DEF EndIsComing
  <2>2. CASE RoomDidDisconnect \/ RoomDidFailToConnect
    BY <2>2 DEF RoomDidDisconnect, RoomDidFailToConnect, EndIsComing
  <2>3. CASE RoomDidConnect \/ ParticipantDidConnect \/ ParticipantDidDisconnect
    BY <2>1, <2>3 DEF RoomDidConnect, ParticipantDidConnect,
                      ParticipantDidDisconnect, EndKinds
  <2>4. CASE DidSubscribeToVideoTrack \/ DidUnsubscribeFromVideoTrack
    BY <2>1, <2>4 DEF DidSubscribeToVideoTrack, DidUnsubscribeFromVideoTrack, EndKinds
  <2> QED
    BY <1>1, <2>2, <2>3, <2>4 DEF HandleCallback
<1>2. CASE SDK
  <2>1. PICK c \in Callback : Posting(c)
    BY <1>2, SDKPosts DEF SDK
  <2>2. Pending(c)'
    BY <2>1, Posted DEF IInv, TypeOK, SDKTypeOK, Posting
  <2> QED
    BY <2>1, <2>2 DEF Posting, EndIsComing
<1>3. CASE Disconnect
  BY <1>3 DEF Disconnect, SDKDisconnect, sdkVars, EndIsComing, Pending
<1>4. CASE Connect
  BY <1>4 DEF Connect, SDKConnect, EndIsComing
<1>5. CASE ViewDidLoad \/ ConnectTorn \/ FetchStep \/ ToggleMic \/ ToggleVideo
           \/ CaptureStarted \/ Deinit \/ Replaced \/ UNCHANGED vars
  BY <1>5 DEF ViewDidLoad, ConnectTorn, FetchStep, ToggleMic, ToggleVideo,
              CaptureStarted, Deinit, Replaced, vars, sdkVars, EndIsComing, Pending
<1> QED
  BY <1>1, <1>2, <1>3, <1>4, <1>5 DEF Next

\* A screen that holds a room the SDK has ended will be told so (lines 275-289).
THEOREM EndReachesScreen == Spec => []EndIsComing
<1>1. Init => EndIsComing
  BY DEF Init, EndIsComing
<1> QED
  BY <1>1, Invariant, EndStep, PTL DEF Spec

-----------------------------------------------------------------------------
(* The refinement: a call screen's life, with the SDK's room for the call.  *)

LEMMA LifeInit == Init => Life!Init
BY DEF Init, SDKInit, Life!Init, Screen

LEMMA LifeStep == IInv /\ [Next]_vars => [Life!Next]_Life!vars
<1> SUFFICES ASSUME IInv, [Next]_vars PROVE [Life!Next]_Life!vars
  OBVIOUS
<1> USE DEF Life!vars, Life!Next
<1>1. ASSUME UNCHANGED <<pc, sdkRoom>>
      PROVE  UNCHANGED Life!vars
  BY <1>1 DEF Screen
<1>2. ASSUME pc' = "crashed", pc # "crashed", UNCHANGED sdkRoom
      PROVE  Life!Die
  BY <1>2 DEF Life!Die, Screen
<1>3. CASE ViewDidLoad
  <2>1. CASE pc' = "asleep"
    BY <1>3, <2>1 DEF ViewDidLoad, sdkVars, Screen
  <2>2. CASE pc' = "crashed"
    BY <1>2, <1>3, <2>2 DEF ViewDidLoad, sdkVars
  <2> QED
    BY <1>3, <2>1, <2>2 DEF ViewDidLoad, PreviewFails
<1>4. CASE Connect
  <2>1. sdkRoom = "none"
    BY <1>4 DEF Connect, IInv, Phases
  <2>2. Life!Dial
    BY <1>4, <2>1 DEF Connect, SDKConnect, Life!Dial, Screen
  <2> QED
    BY <2>2
<1>5. CASE ConnectTorn
  BY <1>2, <1>5 DEF ConnectTorn, sdkVars
<1>6. CASE HandleCallback
  <2>1. UNCHANGED sdkRoom /\ pc \in {"ready", "left", "replaced"} /\ pc' \in {pc, "crashed"}
    <3>1. ASSUME NEW K, Handle(K)
          PROVE  UNCHANGED sdkRoom /\ pc \in {"ready", "left", "replaced"}
      BY <3>1 DEF Handle, Running
    <3> QED
      BY <1>6, <3>1
         DEF HandleCallback, RoomDidConnect, RoomDidDisconnect, RoomDidFailToConnect,
             ParticipantDidConnect, ParticipantDidDisconnect, Render,
             DidSubscribeToVideoTrack, DidUnsubscribeFromVideoTrack
  <2> QED
    BY <1>1, <1>2, <2>1
<1>7. CASE Disconnect
  <2>1. CASE room /\ SDKDisconnect /\ pc' = "left"
    <3>1. sdkRoom \in {"connecting", "connected", "disconnecting", "disconnected"}
      BY <1>7 DEF Disconnect, IInv, TypeOK, SDKTypeOK, RoomStates, Phases
    <3>2. Life!HangUp
      BY <1>7, <2>1, <3>1 DEF Disconnect, SDKDisconnect, Life!HangUp, Screen
    <3> QED
      BY <3>2
  <2>2. CASE pc' = "crashed" /\ UNCHANGED sdkVars
    BY <1>2, <1>7, <2>2 DEF Disconnect, sdkVars
  <2> QED
    BY <1>7, <2>1, <2>2 DEF Disconnect
<1>8. CASE Deinit
  BY <1>8 DEF Deinit, Unheld, Freed, sdkVars, Screen
<1>11. CASE Replaced
  BY <1>11 DEF Replaced, sdkVars, Life!TakeAway, Screen
<1>9. CASE SDK
  <2>1. SDKRoomMoves
    BY <1>9, SDKMoves DEF SDK
  <2> QED
    BY <1>9, <2>1 DEF SDK, SDKRoomMoves, Alive, Life!Network, Screen
<1>10. CASE FetchStep \/ ToggleMic \/ ToggleVideo \/ CaptureStarted \/ UNCHANGED vars
  BY <1>1, <1>10 DEF FetchStep, ToggleMic, ToggleVideo, CaptureStarted, vars, sdkVars
<1> QED
  BY <1>3, <1>4, <1>5, <1>6, <1>7, <1>8, <1>9, <1>10, <1>11 DEF Next

\* The video screen dials once, a hang-up ends its call, openRoom leaves its call
\* as it is, and it never dials again: it implements CallLife (lines 142, 190-196,
\* 284-289; AppDelegate 111-121).
THEOREM Refinement == Spec => ImplementsCallLife
BY LifeInit, LifeStep, Invariant, PTL DEF Spec, ImplementsCallLife, Life!Spec
=============================================================================
