----------------------- MODULE AudioCallSessionProofs -----------------------
(***************************************************************************)
(* Theorems about AudioCallSession, for any participants and any outcomes  *)
(* of microphone and token request.                                        *)
(***************************************************************************)
EXTENDS AudioCallSession, TwilioRoomProofs

LEMMA TypeInit == Init => TypeOK
BY EmptySeq
   DEF Init, SDKInit, TokenInit, TypeOK, TokenTypeOK, SDKTypeOK, RoomStates, Tokens, Bodies

LEMMA TypeStep == TypeOK /\ [Next]_vars => TypeOK'
<1> SUFFICES ASSUME TypeOK, [Next]_vars PROVE TypeOK'
  OBVIOUS
<1> USE DEF TypeOK, TokenTypeOK, tokenVars
<1>1. CASE ViewDidLoad
  BY <1>1 DEF ViewDidLoad, RequestToken, sdkVars, SDKTypeOK, Tokens, Bodies
<1>2. CASE Connect
  BY <1>2 DEF Connect, PrepareLocalMedia, UseToken, SDKConnect, SDKTypeOK, RoomStates,
              Tokens, Bodies
<1>3. CASE ConnectTorn
  BY <1>3 DEF ConnectTorn, PrepareLocalMedia, sdkVars, SDKTypeOK
<1>4. CASE FetchStep
  BY <1>4 DEF FetchStep, ReplyArrives, StoreToken, sdkVars, SDKTypeOK, Bodies, Tokens
<1>5. CASE SDK
  BY <1>5, SDKTypes DEF SDK
<1>6. CASE HandleCallback
  BY <1>6, Taken DEF HandleCallback, SDKTypeOK
<1>7. CASE Disconnect
  BY <1>7 DEF Disconnect, SDKDisconnect, sdkVars, SDKTypeOK, RoomStates
<1>8. CASE ToggleMic
  BY <1>8 DEF ToggleMic, sdkVars, SDKTypeOK
<1>9. CASE TakenAway
  BY <1>9 DEF TakenAway, sdkVars, SDKTypeOK
<1>10. CASE UNCHANGED vars
  BY <1>10 DEF vars, sdkVars, SDKTypeOK
<1> QED
  BY <1>1, <1>2, <1>3, <1>4, <1>5, <1>6, <1>7, <1>8, <1>9, <1>10 DEF Next

\* Every variable of the audio screen and of its room keeps its type (lines
\* 14-29).
THEOREM TypeCorrect == Spec => []TypeOK
BY TypeInit, TypeStep, PTL DEF Spec

-----------------------------------------------------------------------------
(* There is no room before Connect, and there is one ever after.            *)

Phases ==
    /\ pc \in {"new", "asleep"} => sdkRoom = "none"
    /\ pc \in {"ready", "left", "gone"} => room /\ sdkRoom # "none"

IInv == TypeOK /\ Phases /\ RoomWhileButtonShows

LEMMA InvariantInit == Init => IInv
BY TypeInit DEF Init, SDKInit, IInv, Phases, RoomWhileButtonShows

LEMMA InvariantStep == IInv /\ [Next]_vars => IInv'
<1> SUFFICES ASSUME IInv, [Next]_vars PROVE IInv'
  OBVIOUS
<1>0. TypeOK'
  BY TypeStep DEF IInv
<1> USE <1>0 DEF IInv, Phases, RoomWhileButtonShows
<1>1. CASE ViewDidLoad \/ Connect \/ ConnectTorn
  BY <1>1 DEF ViewDidLoad, Connect, ConnectTorn, SDKConnect, sdkVars
<1>2. CASE Disconnect
  BY <1>2 DEF Disconnect, SDKDisconnect, sdkVars
<1>3. CASE SDK
  BY <1>3, SDKMoves DEF SDK, SDKRoomMoves
<1>4. CASE \/ FetchStep \/ HandleCallback \/ TakenAway \/ ToggleMic
           \/ UNCHANGED vars
  BY <1>4 DEF FetchStep, HandleCallback, TakenAway, ToggleMic, vars, sdkVars
<1> QED
  BY <1>1, <1>2, <1>3, <1>4 DEF Next

LEMMA Invariant == Spec => []IInv
BY InvariantInit, InvariantStep, PTL DEF Spec

\* The disconnect button always finds its room (lines 106, 112).
THEOREM ButtonFindsRoom == Spec => []RoomWhileButtonShows
<1>1. IInv => RoomWhileButtonShows
  BY DEF IInv
<1> QED
  BY <1>1, Invariant, PTL

-----------------------------------------------------------------------------
(* The refinement: a call screen's life, with the SDK's room for the call.  *)

LEMMA LifeInit == Init => Life!Init
BY DEF Init, SDKInit, Life!Init, Screen

LEMMA LifeStep == IInv /\ [Next]_vars => [Life!Next]_Life!vars
<1> SUFFICES ASSUME IInv, [Next]_vars PROVE [Life!Next]_Life!vars
  OBVIOUS
<1> USE DEF Life!vars, Life!Next
<1>1. CASE Connect
  BY <1>1 DEF Connect, SDKConnect, Life!Dial, Screen, IInv, Phases
<1>2. CASE ConnectTorn
  BY <1>2 DEF ConnectTorn, sdkVars, Life!Die, Screen
<1>3. CASE Disconnect
  <2>1. /\ pc = "ready" /\ room /\ SDKDisconnect /\ pc' = "left"
        /\ sdkRoom \in {"connecting", "connected", "disconnecting", "disconnected"}
    BY <1>3 DEF Disconnect, IInv, Phases, TypeOK, SDKTypeOK, RoomStates
  <2>2. Life!HangUp
    BY <2>1 DEF SDKDisconnect, Life!HangUp, Screen
  <2> QED
    BY <2>2
<1>4. CASE SDK
  <2>1. SDKRoomMoves
    BY <1>4, SDKMoves DEF SDK
  <2> QED
    BY <1>4, <2>1 DEF SDK, SDKRoomMoves, Alive, Life!Network, Screen, IInv, TypeOK
<1>5. CASE ViewDidLoad \/ FetchStep \/ HandleCallback \/ ToggleMic
           \/ UNCHANGED vars
  BY <1>5 DEF ViewDidLoad, FetchStep, HandleCallback, ToggleMic, vars, sdkVars,
              Screen
<1>6. CASE TakenAway
  BY <1>6 DEF TakenAway, sdkVars, Life!TakeAway, Screen
<1> QED
  BY <1>1, <1>2, <1>3, <1>4, <1>5, <1>6 DEF Next

\* The audio screen dials once, a hang-up ends its call, and nothing dials
\* again: it implements CallLife (lines 106, 111-117).
THEOREM Refinement == Spec => ImplementsCallLife
BY LifeInit, LifeStep, Invariant, PTL DEF Spec, ImplementsCallLife, Life!Spec
=============================================================================
