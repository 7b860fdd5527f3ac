----------------------------- MODULE Signalling -----------------------------
(***************************************************************************)
(* Calling somebody: a row of the online list is tapped, the cloud rings   *)
(* the other side by a push notification, and whoever taps that is taken   *)
(* to a video screen in the room of both.  Phones start and end, users     *)
(* sign in (Session), notifications are late, lost, or tapped long after.  *)
(*                                                                         *)
(* A call screen is what CallLife says of it: it dials as it comes up, and *)
(* hanging up ends its call.  But openRoom replaces the window's root, and *)
(* the audio screen is a sheet that can be swiped away: a call screen that *)
(* goes that way has not hung up, and its room goes on, or ends with the   *)
(* objects that held it (the SDK decides), which is a ghost here.  A crash *)
(* of a call screen is an end of the process.                              *)
(***************************************************************************)
EXTENDS Session, RoomNames

CONSTANTS
    NoPhone,
    Uid,            \* the string of each uid, and of nobody's
    MaxRings,       \* bound on the calls made
    MaxSessions     \* bound on the launches and the sign-ins, together

ASSUME SignallingAssumption ==
    /\ NoPhone \notin Phones
    /\ Uid \in [Accounts \cup {NoUser} -> Seq(Int)]
    /\ MaxRings \in Nat /\ MaxSessions \in Nat

VARIABLES
    screen,         \* the window's root, "off" without a process
    call,           \* what has become of the call of the call screen
    dialled,        \* the parties of that call, and the room it is in
    ghosts,         \* calls whose screen went without hanging up
    tokenAt,        \* the phone whose push token the server has for a user
    rung,           \* how many calls have been made
    pushes,         \* pushes under way to a phone
    shown,          \* the notifications on each phone
    signedIn,       \* accounts that have signed in on each phone (history)
    abandoned,      \* phones on which a call screen went so (history)
    sessions,       \* how many launches and sign-ins there have been
    answering       \* phones whose last call screen a notification has opened

processVars == <<sessionVars, sessions>>
roomVars == <<ghosts, abandoned, answering>>
callVars == <<screen, call, dialled, roomVars>>
pushVars == <<rung, pushes, shown>>
vars == <<processVars, callVars, tokenAt, pushVars, signedIn>>

Users == Accounts \cup {NoUser}
Pairs == Users \X Users
CallScreens == {"video", "audio"}
Pushes == [id : 1..MaxRings, to : Phones, parties : Pairs]

\* Receiver and caller, and the name of the room.
Calls == [of : Pairs, name : Seq(Int)]

\* The name of the room of receiver and caller, on the lists, the audio list and
\* in didReceive alike.
RoomNamed == [pair \in Pairs |-> RoomString(Uid[pair[1]], Uid[pair[2]])]
RoomName(pair) == RoomNamed[pair]
Joined(pair) == Uid[pair[1]] \o Uid[pair[2]]

TypeOK ==
    /\ SessionTypeOK
    /\ screen \in [Phones -> {"off", "start", "home"} \cup CallScreens]
    /\ call \in [Phones -> {"none", "connecting", "connected", "disconnected"}]
    /\ dialled \in [Phones -> Calls]
    /\ ghosts \in [Phones -> SUBSET Calls]
    /\ tokenAt \in [Accounts -> Phones \cup {NoPhone}]
    /\ rung \in 0..MaxRings /\ sessions \in 0..MaxSessions
    /\ pushes \subseteq Pushes
    /\ shown \in [Phones -> SUBSET Pushes]
    /\ signedIn \in [Phones -> SUBSET Accounts]
    /\ abandoned \subseteq Phones /\ answering \subseteq Phones
    /\ \A p \in Phones :
           /\ p \in alive <=> screen[p] # "off"
           /\ p \notin alive => ghosts[p] = {}
           /\ screen[p] \in CallScreens <=> call[p] # "none"

Init ==
    /\ SessionInit
    /\ screen = [p \in Phones |-> "off"]
    /\ call = [p \in Phones |-> "none"]
    /\ dialled = [p \in Phones |-> [of |-> <<NoUser, NoUser>>, name |-> <<>>]]
    /\ ghosts = [p \in Phones |-> {}]
    /\ tokenAt = [u \in Accounts |-> NoPhone]
    /\ sessions = 0 /\ rung = 0 /\ pushes = {} /\ shown = [p \in Phones |-> {}]
    /\ signedIn = [p \in Phones |-> {}] /\ abandoned = {} /\ answering = {}

-----------------------------------------------------------------------------
(* The session: see Presence for what these steps are made of. *)

\* One more launch or sign-in.
Counted == sessions < MaxSessions /\ sessions' = sessions + 1

Launch(p) ==
    /\ Starts(p) /\ Counted
    /\ screen' = [screen EXCEPT ![p] = "start"]
    /\ UNCHANGED <<call, dialled, roomVars, tokenAt, pushVars, signedIn>>

\* Mutant: the token is sent whatever the answer (out of line 57's else).
Bug_TokenSentAnyway(p, u) ==
    /\ p \in alive /\ Counted
    /\ \E t \in {p, NoPhone, tokenAt[u]} : tokenAt' = [tokenAt EXCEPT ![u] = t]
    /\ \/ UNCHANGED <<sessionVars, screen, signedIn>>
       \/ /\ SignedIn(p, u)
          /\ screen' = [screen EXCEPT ![p] = IF @ = "start" THEN "home" ELSE @]
          /\ signedIn' = [signedIn EXCEPT ![p] = @ \cup {u}]
    /\ UNCHANGED <<call, dialled, roomVars, pushVars>>

\* The sign-in may complete behind a screen that openRoom has put up.  The
\* token it sends for the user is this phone's, none yet, or lost.
SignIn(p, u) ==
    /\ SignedIn(p, u) /\ Counted
    /\ screen' = [screen EXCEPT ![p] = IF @ = "start" THEN "home" ELSE @]
    /\ \E t \in {p, NoPhone, tokenAt[u]} : tokenAt' = [tokenAt EXCEPT ![u] = t]
    /\ signedIn' = [signedIn EXCEPT ![p] = @ \cup {u}]
    /\ UNCHANGED <<call, dialled, roomVars, pushVars>>

\* Home, with the statics as they were.
SignUp(p) ==
    /\ screen[p] = "start"
    /\ screen' = [screen EXCEPT ![p] = "home"]
    /\ UNCHANGED <<processVars, call, dialled, roomVars, tokenAt, pushVars,
                   signedIn>>

\* Its calls end with the process; its notifications do not.
ProcessEnds(p) ==
    /\ Ends(p)
    /\ screen' = [screen EXCEPT ![p] = "off"]
    /\ call' = [call EXCEPT ![p] = "none"]
    /\ ghosts' = [ghosts EXCEPT ![p] = {}]
    /\ abandoned' = abandoned \ {p}
    /\ UNCHANGED <<sessions, dialled, answering, tokenAt, pushVars, signedIn>>

-----------------------------------------------------------------------------
(* Calling and being called. *)

\* A call screen comes up and dials the room it is given.
Dials(p, kind, pair, name) ==
    /\ screen' = [screen EXCEPT ![p] = kind]
    /\ call' = [call EXCEPT ![p] = "connecting"]
    /\ dialled' = [dialled EXCEPT ![p] = [of |-> pair, name |-> name]]

\* Mutant: the audio list does not sort the joined uids (no line 107).
Bug_AudioUnsorted(p, v, kind) ==
    /\ screen[p] = "home" /\ rung < MaxRings
    /\ rung' = rung + 1
    /\ \/ /\ tokenAt[v] # NoPhone
          /\ pushes' = pushes \cup
                 {[id |-> rung', to |-> tokenAt[v], parties |-> <<v, uid[p]>>]}
       \/ UNCHANGED pushes
    /\ Dials(p, kind, <<v, uid[p]>>,
             IF kind = "audio" THEN Joined(<<v, uid[p]>>)
                               ELSE RoomName(<<v, uid[p]>>))
    /\ answering' = answering \ {p}
    /\ UNCHANGED <<processVars, ghosts, abandoned, tokenAt, shown, signedIn>>

\* A row is tapped: calluser rings the phone the server knows, or fails.  The
\* list may be old: v need not be online any more, and may be the user.
RowTapped(p, v, kind) ==
    /\ screen[p] = "home" /\ rung < MaxRings
    /\ rung' = rung + 1
    /\ \/ /\ tokenAt[v] # NoPhone
          /\ pushes' = pushes \cup
                 {[id |-> rung', to |-> tokenAt[v], parties |-> <<v, uid[p]>>]}
       \/ UNCHANGED pushes
    /\ Dials(p, kind, <<v, uid[p]>>, RoomName(<<v, uid[p]>>))
    /\ answering' = answering \ {p}
    /\ UNCHANGED <<processVars, ghosts, abandoned, tokenAt, shown, signedIn>>

\* A push arrives, in any order, or never; the app need not run.
PushArrives(n) ==
    /\ n \in pushes
    /\ pushes' = pushes \ {n}
    /\ \/ shown' = [shown EXCEPT ![n.to] = @ \cup {n}]
       \/ UNCHANGED shown
    /\ UNCHANGED <<processVars, callVars, tokenAt, rung, signedIn>>

\* The call screen of p goes, and its call with it or not.
Abandon(p) ==
    /\ abandoned' = abandoned \cup {p}
    /\ \/ /\ call[p] \in {"connecting", "connected"}
          /\ ghosts' = [ghosts EXCEPT ![p] = @ \cup {dialled[p]}]
       \/ UNCHANGED ghosts

\* Mutant: openRoom is given nonSortedString (line 101).
Bug_OpensUnsorted(p, n) ==
    /\ n \in shown[p]
    /\ shown' = [shown EXCEPT ![p] = @ \ {n}]
    /\ IF p \in alive THEN UNCHANGED processVars
                      ELSE Starts(p) /\ Counted
    /\ IF screen[p] \in CallScreens THEN Abandon(p)
                                    ELSE UNCHANGED <<abandoned, ghosts>>
    /\ Dials(p, "video", n.parties, Joined(n.parties))
    /\ answering' = answering \cup {p}
    /\ UNCHANGED <<tokenAt, rung, pushes, signedIn>>

\* A notification is tapped, which launches the app if need be: didReceive
\* names the room and openRoom replaces the root, by a video screen always.
\* Who is signed in here, or whether anybody is, is not looked at.
NotificationTapped(p, n) ==
    /\ n \in shown[p]
    /\ shown' = [shown EXCEPT ![p] = @ \ {n}]
    /\ IF p \in alive THEN UNCHANGED processVars
                      ELSE Starts(p) /\ Counted
    /\ IF screen[p] \in CallScreens THEN Abandon(p)
                                    ELSE UNCHANGED <<abandoned, ghosts>>
    /\ Dials(p, "video", n.parties, RoomName(n.parties))
    /\ answering' = answering \cup {p}
    /\ UNCHANGED <<tokenAt, rung, pushes, signedIn>>

\* Mutant: the button brings up the home screen only (no line 191).
Bug_HangUpKeepsCall(p) ==
    /\ screen[p] \in CallScreens
    /\ screen' = [screen EXCEPT ![p] = "home"]
    /\ UNCHANGED <<processVars, call, dialled, roomVars, tokenAt, pushVars,
                   signedIn>>

\* Mutant: the screen is dismissed, which a window's root does not heed.
Bug_HangUpDismisses(p) ==
    /\ screen[p] \in CallScreens
    /\ screen' = [screen EXCEPT ![p] = IF p \in answering THEN @ ELSE "home"]
    /\ call' = [call EXCEPT ![p] = "none"]
    /\ UNCHANGED <<processVars, dialled, roomVars, tokenAt, pushVars,
                   signedIn>>

HangUp(p) ==
    /\ screen[p] \in CallScreens
    /\ screen' = [screen EXCEPT ![p] = "home"]
    /\ call' = [call EXCEPT ![p] = "none"]
    /\ UNCHANGED <<processVars, dialled, roomVars, tokenAt, pushVars,
                   signedIn>>

\* The list shows the audio screen by a "show" segue, outside a navigation
\* controller: swiped down, it uncovers the list, which is as usable as before.
SwipedAway(p) ==
    /\ screen[p] = "audio"
    /\ screen' = [screen EXCEPT ![p] = "home"]
    /\ call' = [call EXCEPT ![p] = "none"]
    /\ Abandon(p)
    /\ UNCHANGED <<processVars, dialled, answering, tokenAt, pushVars, signedIn>>

\* A call being dialled is answered or refused; a call may be cut off.
Network(p) ==
    /\ \/ /\ call[p] = "connecting"
          /\ \E c \in {"connected", "disconnected"} :
                 call' = [call EXCEPT ![p] = c]
       \/ /\ call[p] = "connected"
          /\ call' = [call EXCEPT ![p] = "disconnected"]
    /\ UNCHANGED <<processVars, screen, dialled, roomVars, tokenAt, pushVars,
                   signedIn>>

GhostEnds(p, x) ==
    /\ x \in ghosts[p]
    /\ ghosts' = [ghosts EXCEPT ![p] = @ \ {x}]
    /\ UNCHANGED <<processVars, screen, call, dialled, abandoned, answering,
                   tokenAt, pushVars, signedIn>>

Next ==
    \/ \E p \in Phones :
           \/ Launch(p) \/ SignUp(p) \/ ProcessEnds(p)
           \/ HangUp(p) \/ SwipedAway(p) \/ Network(p)
           \/ \E u \in Accounts : SignIn(p, u)
           \/ \E v \in Accounts, kind \in CallScreens : RowTapped(p, v, kind)
           \/ \E n \in shown[p] : NotificationTapped(p, n)
           \/ \E x \in ghosts[p] : GhostEnds(p, x)
    \/ \E n \in pushes : PushArrives(n)

\* A call being dialled comes to something.
Fairness == \A p \in Phones : WF_vars(Network(p) /\ call[p] = "connecting")

Spec == Init /\ [][Next]_vars
FairSpec == Spec /\ Fairness

-----------------------------------------------------------------------------
\* The calls by which a phone is in rooms.
InRooms(p) ==
    ghosts[p] \cup (IF call[p] = "connected" THEN {dialled[p]} ELSE {})

Both(pair) == {pair[1], pair[2]}

\* The pairs whose two uids have the same characters, each as often, as a pair's.
Alike == [x \in Pairs |-> {y \in Pairs : Anagrams(Joined(x), Joined(y))}]

\* Two phones are in one room exactly if their calls are of the same two parties,
\* whoever of them called, whoever made an audio call, and however each got there;
\* or if the uids of one call have the characters of those of the other, each as
\* often: then strangers meet. (OnlineUsersTableViewController 103-111,
\* OnlineUsersAudioOnlyTableViewController 103-111, AppDelegate 80-98)
SameRoomSameParties ==
    \A p, q \in Phones : \A x \in InRooms(p), y \in InRooms(q) :
        x.name = y.name <=> Both(x.of) = Both(y.of) \/ y.of \in Alike[x.of]

\* A phone is in a room only if one of the two parties has signed in on it, or
\* is the nobody who calls after a sign-up: a notification that is tapped, on a
\* phone others use by now, or before anybody signed in to this process, was at
\* least sent to somebody of that phone. (LoginViewController 57-64, AppDelegate
\* 74-98, OnlineUsersTableViewController 103-111)
PartyOfThisPhone ==
    \A p \in Phones : \A x \in InRooms(p) :
        \/ Both(x.of) \cap signedIn[p] # {}
        \/ x.of[2] = NoUser

\* A phone that shows no call is in none, unless a notification was tapped
\* during a call of this process, or the audio screen swiped away.
\* (CommunicationViewController 190-196, CallOnlyViewController 111-117,
\* AppDelegate 111-119)
NoCallOffScreen ==
    \A p \in Phones \ abandoned :
        screen[p] \notin CallScreens => InRooms(p) = {}

Together(p) ==
    \E q \in Phones \ {p} : \E x \in InRooms(p), y \in InRooms(q) :
        x.name = y.name

\* Another phone is on its way into the call of phone p, or is in it.
OtherSideWaits(p) ==
    \E q \in Phones \ {p} :
        /\ call[q] \in {"connecting", "connected"}
        /\ Both(dialled[q].of) = Both(dialled[p].of)

\* Whoever taps a notification is in a room with the other side in the end, if
\* that is still there and neither gives up: also when each has called the
\* other, and answers, and when the caller made an audio call.
\* (OnlineUsersTableViewController 103-111, AppDelegate 80-119)
WaitingCallerIsMet ==
    \A p \in Phones :
        (p \in answering /\ call[p] = "connecting" /\ OtherSideWaits(p))
            ~> (\/ call[p] \in {"none", "disconnected"}
                \/ ~OtherSideWaits(p) \/ Together(p))
=============================================================================
