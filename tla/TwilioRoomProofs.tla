-------------------------- MODULE TwilioRoomProofs --------------------------
(***************************************************************************)
(* What the proofs of both call screens need to know of TwilioRoom: the    *)
(* queue of callbacks, the types, and how the room's state moves.          *)
(***************************************************************************)
EXTENDS TwilioRoom, SequenceTheorems, TLAPS

-----------------------------------------------------------------------------
(* The queue of callbacks: what posting one and taking one do to it. *)

LEMMA CallbackTypes ==
    /\ \A k \in RoomKinds : RoomCallback(k) \in Callback
    /\ \A k \in MemberKinds, p \in Participants : MemberCallback(k, p) \in Callback
    /\ \A k \in TrackKinds, f \in Feeds : TrackCallback(k, f) \in Callback
BY DEF RoomCallback, MemberCallback, TrackCallback, Callback, Feeds

LEMMA Posted ==
    ASSUME callbacks \in Seq(Callback), NEW c \in Callback,
           callbacks' = Append(callbacks, c)
    PROVE  /\ callbacks' \in Seq(Callback)
           /\ Len(callbacks') = Len(callbacks) + 1
           /\ \A i \in 1..Len(callbacks) : callbacks'[i] = callbacks[i]
           /\ callbacks'[Len(callbacks) + 1] = c
           /\ \A d : Pending(d) => Pending(d)'
           /\ Pending(c)'
<1>1. /\ callbacks' \in Seq(Callback)
      /\ Len(callbacks') = Len(callbacks) + 1
      /\ \A i \in 1..Len(callbacks) : callbacks'[i] = callbacks[i]
      /\ callbacks'[Len(callbacks) + 1] = c
  BY AppendProperties
<1>2. Len(callbacks) \in Nat
  BY LenProperties
<1> QED
  BY <1>1, <1>2 DEF Pending

LEMMA Taken ==
    ASSUME callbacks \in Seq(Callback), callbacks # <<>>,
           callbacks' = Tail(callbacks)
    PROVE  /\ callbacks' \in Seq(Callback)
           /\ Len(callbacks) \in Nat \ {0}
           /\ Len(callbacks') = Len(callbacks) - 1
           /\ \A i \in 1..Len(callbacks') : callbacks'[i] = callbacks[i + 1]
           /\ Head(callbacks) = callbacks[1]
           /\ Head(callbacks) \in Callback
           /\ \A d : Pending(d) => d = Head(callbacks) \/ Pending(d)'
<1>1. /\ callbacks' \in Seq(Callback)
      /\ Len(callbacks') = Len(callbacks) - 1
      /\ \A i \in 1..Len(callbacks') : callbacks'[i] = callbacks[i + 1]
      /\ Head(callbacks) \in Callback
  BY HeadTailProperties
<1>2. Len(callbacks) \in Nat \ {0} /\ Head(callbacks) = callbacks[1]
  BY LenProperties, EmptySeq
<1>3. ASSUME NEW d, Pending(d), d # Head(callbacks)
      PROVE  Pending(d)'
  <2>1. PICK i \in 1..Len(callbacks) : callbacks[i] = d
    BY <1>3 DEF Pending
  <2>2. i - 1 \in 1..Len(callbacks') /\ callbacks'[i - 1] = d
    BY <1>1, <1>2, <1>3, <2>1
  <2> QED
    BY <2>2 DEF Pending
<1> QED
  BY <1>1, <1>2, <1>3

-----------------------------------------------------------------------------
(* The SDK's steps. *)

LEMMA SDKTypes ==
    ASSUME SDKTypeOK, NEW accepted, SDKStep(accepted)
    PROVE  SDKTypeOK'
<1> USE CallbackTypes, Posted DEF SDKTypeOK
<1>1. CASE SDKDidConnect
  BY <1>1 DEF SDKDidConnect, RoomStates, RoomKinds
<1>2. CASE SDKFailsToConnect
  BY <1>2 DEF SDKFailsToConnect, RoomStates, RoomKinds
<1>3. CASE SDKEnds
  BY <1>3 DEF SDKEnds, RoomStates, RoomKinds
<1>4. ASSUME NEW p \in Participants, SDKJoins(p)
      PROVE  SDKTypeOK'
  BY <1>4 DEF SDKJoins, MemberKinds
<1>5. ASSUME NEW p \in Participants, SDKLeaves(p)
      PROVE  SDKTypeOK'
  BY <1>5 DEF SDKLeaves, MemberKinds
<1>6. ASSUME NEW f \in Feeds, SDKSubscribes(f)
      PROVE  SDKTypeOK'
  BY <1>6 DEF SDKSubscribes, TrackKinds
<1>7. ASSUME NEW f \in Feeds, SDKUnsubscribes(f)
      PROVE  SDKTypeOK'
  BY <1>7 DEF SDKUnsubscribes, TrackKinds
<1> QED
  BY <1>1, <1>2, <1>3, <1>4, <1>5, <1>6, <1>7 DEF SDKStep

\* By itself the SDK only ever answers or ends a call.
SDKRoomMoves ==
    \/ UNCHANGED sdkRoom
    \/ sdkRoom = "connecting" /\ sdkRoom' \in {"connected", "disconnected"}
    \/ sdkRoom \in {"connected", "disconnecting"} /\ sdkRoom' = "disconnected"

LEMMA SDKMoves ==
    ASSUME NEW accepted, SDKStep(accepted)
    PROVE  SDKRoomMoves
BY DEF SDKStep, SDKDidConnect, SDKFailsToConnect, SDKEnds, SDKJoins, SDKLeaves,
       SDKSubscribes, SDKUnsubscribes, SDKRoomMoves
=============================================================================
