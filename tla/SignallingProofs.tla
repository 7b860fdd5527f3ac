-------------------------- MODULE SignallingProofs --------------------------
(***************************************************************************)
(* Theorems about Signalling, for any phones, accounts and uids of any     *)
(* characters, and any number of calls, launches and sign-ins.             *)
(***************************************************************************)
EXTENDS Signalling, RoomNamesProofs

\* The name of a room is a string, made of the uids of the two.
LEMMA RoomNameType ==
    ASSUME NEW x \in Pairs
    PROVE  /\ x[1] \in Users /\ x[2] \in Users /\ x = <<x[1], x[2]>>
           /\ Uid[x[1]] \in Strings /\ Uid[x[2]] \in Strings
           /\ RoomName(x) = RoomString(Uid[x[1]], Uid[x[2]])
           /\ RoomName(x) \in Seq(Int)
<1>1. /\ x[1] \in Users /\ x[2] \in Users /\ x = <<x[1], x[2]>>
      /\ Uid[x[1]] \in Strings /\ Uid[x[2]] \in Strings
      /\ RoomName(x) = RoomString(Uid[x[1]], Uid[x[2]])
  BY SignallingAssumption DEF Pairs, Users, Strings, RoomName, RoomNamed
<1>2. Uid[x[1]] \o Uid[x[2]] \in Strings
  BY <1>1, JoinedEitherWay
<1>3. SortedString(Uid[x[1]] \o Uid[x[2]]) \in Strings
  BY <1>2, SortedStringSorts
<1> QED
  BY <1>1, <1>3 DEF RoomString, Strings

LEMMA CallType ==
    ASSUME NEW x \in Pairs
    PROVE  [of |-> x, name |-> RoomName(x)] \in Calls
BY RoomNameType DEF Calls

LEMMA TypeInit == Init => TypeOK
<1> SUFFICES ASSUME Init PROVE TypeOK
  OBVIOUS
<1>1. [of |-> <<NoUser, NoUser>>, name |-> <<>>] \in Calls
  BY DEF Calls, Pairs, Users
<1> QED
  BY <1>1, SignallingAssumption DEF Init, TypeOK, SessionInit, SessionTypeOK, CallScreens

LEMMA BoundsAssumption ==
    NoPhone \notin Phones /\ MaxRings \in Nat /\ MaxSessions \in Nat
BY SignallingAssumption

LEMMA TypeStep == TypeOK /\ [Next]_vars => TypeOK'
<1> SUFFICES ASSUME TypeOK, [Next]_vars PROVE TypeOK'
  OBVIOUS
<1> USE BoundsAssumption DEF TypeOK, SessionTypeOK, sessionVars, processVars,
        roomVars, callVars, pushVars, CallScreens
<1>1. ASSUME NEW p \in Phones, Launch(p) PROVE TypeOK'
  BY <1>1 DEF Launch, Starts, Counted
<1>2. ASSUME NEW p \in Phones, SignUp(p) PROVE TypeOK'
  BY <1>2 DEF SignUp
<1>3. ASSUME NEW p \in Phones, ProcessEnds(p) PROVE TypeOK'
  BY <1>3 DEF ProcessEnds, Ends
<1>4. ASSUME NEW p \in Phones, HangUp(p) PROVE TypeOK'
  BY <1>4 DEF HangUp
<1>5. ASSUME NEW p \in Phones, SwipedAway(p) PROVE TypeOK'
  BY <1>5 DEF SwipedAway, Abandon
<1>6. ASSUME NEW p \in Phones, Network(p) PROVE TypeOK'
  BY <1>6 DEF Network
<1>7. ASSUME NEW p \in Phones, NEW u \in Accounts, SignIn(p, u) PROVE TypeOK'
  BY <1>7 DEF SignIn, SignedIn, Counted
<1>8. ASSUME NEW p \in Phones, NEW v \in Accounts, NEW kind \in CallScreens,
             RowTapped(p, v, kind)
      PROVE  TypeOK'
  <2>1. <<v, uid[p]>> \in Pairs /\ rung' \in 1..MaxRings
    BY <1>8 DEF RowTapped, Pairs, Users
  <2>2. ASSUME tokenAt[v] # NoPhone
        PROVE  [id |-> rung', to |-> tokenAt[v], parties |-> <<v, uid[p]>>] \in Pushes
    BY <2>1, <2>2 DEF Pushes
  <2>4. pushes' \subseteq Pushes
    BY <1>8, <2>2 DEF RowTapped
  <2>3. p \in alive /\ p \in Phones /\ screen[p] = "home"
    BY <1>8 DEF RowTapped
  <2>5. dialled' \in [Phones -> Calls]
    BY <1>8, <2>1, CallType DEF RowTapped, Dials
  <2> QED
    BY <1>8, <2>1, <2>3, <2>4, <2>5 DEF RowTapped, Dials
<1>9. ASSUME NEW p \in Phones, NEW n \in shown[p], NotificationTapped(p, n)
      PROVE  TypeOK'
  <2>1. n.parties \in Pairs
    BY DEF Pushes
  <2>2. /\ alive' = alive \cup {p} /\ uid' \in [Phones -> Accounts \cup {NoUser}]
        /\ sessions' \in 0..MaxSessions
    BY <1>9 DEF NotificationTapped, Starts, Counted
  <2>3. /\ ghosts' \in [Phones -> SUBSET Calls] /\ abandoned' \subseteq Phones
        /\ \A q \in Phones \ {p} : ghosts'[q] = ghosts[q]
    BY <1>9 DEF NotificationTapped, Abandon
  <2>4. dialled' \in [Phones -> Calls]
    BY <1>9, <2>1, CallType DEF NotificationTapped, Dials
  <2> QED
    BY <1>9, <2>1, <2>2, <2>3, <2>4 DEF NotificationTapped, Dials
<1>10. ASSUME NEW p \in Phones, NEW x \in ghosts[p], GhostEnds(p, x)
       PROVE  TypeOK'
  BY <1>10 DEF GhostEnds
<1>11. ASSUME NEW n \in pushes, PushArrives(n) PROVE TypeOK'
  BY <1>11 DEF PushArrives, Pushes
<1>12. CASE UNCHANGED vars
  BY <1>12 DEF vars
<1> QED
  BY <1>1, <1>2, <1>3, <1>4, <1>5, <1>6, <1>7, <1>8, <1>9, <1>10, <1>11, <1>12
     DEF Next

\* Every variable keeps its type, a phone without a process has no screen and no
\* call left behind, and a call screen and its call come and go together
\* (AppDelegate 20-50, 111-130, CommunicationViewController 190-196,
\* CallOnlyViewController 111-117).
THEOREM TypeCorrect == Spec => []TypeOK
BY TypeInit, TypeStep, PTL DEF Spec

-----------------------------------------------------------------------------
(* The rooms of two phones. *)

LEMMA RoomNameCommutes ==
    ASSUME NEW a \in Users, NEW b \in Users
    PROVE  RoomName(<<a, b>>) = RoomName(<<b, a>>)
<1>1. <<a, b>> \in Pairs /\ <<b, a>> \in Pairs
  BY DEF Pairs
<1>2. /\ RoomName(<<a, b>>) = RoomString(Uid[a], Uid[b])
      /\ RoomName(<<b, a>>) = RoomString(Uid[b], Uid[a])
      /\ Uid[a] \in Strings /\ Uid[b] \in Strings
  BY <1>1, RoomNameType
<1> QED
  BY <1>2, RoomOfEither

LEMMA RoomNamesOfAnagrams ==
    ASSUME NEW x \in Pairs, NEW y \in Pairs
    PROVE  RoomName(x) = RoomName(y) <=> y \in Alike[x]
<1>1. RoomName(x) = RoomName(y) <=> Anagrams(Joined(x), Joined(y))
  BY RoomNameType, OneRoomForAnagrams DEF Joined
<1> QED
  BY <1>1 DEF Alike

\* Every call is in the room of its two parties.
Named ==
    \A p \in Phones :
        /\ call[p] # "none" => dialled[p].name = RoomName(dialled[p].of)
        /\ \A x \in ghosts[p] : x.name = RoomName(x.of)

LEMMA NamedInit == Init => Named
BY DEF Init, Named

LEMMA InRoomsNamed ==
    ASSUME TypeOK, Named, NEW p \in Phones, NEW x \in InRooms(p)
    PROVE  x.of \in Pairs /\ x.name = RoomName(x.of)
<1>1. CASE x \in ghosts[p]
  BY <1>1 DEF TypeOK, Named, Calls
<1>2. CASE call[p] = "connected" /\ x = dialled[p]
  BY <1>2 DEF TypeOK, Named, Calls
<1> QED
  BY <1>1, <1>2 DEF InRooms

LEMMA NamedStep == TypeOK /\ Named /\ [Next]_vars => Named'
<1> SUFFICES ASSUME TypeOK, Named, [Next]_vars PROVE Named'
  OBVIOUS
<1> USE DEF TypeOK, Named, RoomName, sessionVars, processVars, roomVars, callVars,
            pushVars
<1>1. ASSUME NEW p \in Phones, Launch(p) PROVE Named'
  BY <1>1 DEF Launch
<1>2. ASSUME NEW p \in Phones, SignUp(p) PROVE Named'
  BY <1>2 DEF SignUp
<1>3. ASSUME NEW p \in Phones, ProcessEnds(p) PROVE Named'
  BY <1>3 DEF ProcessEnds
<1>4. ASSUME NEW p \in Phones, HangUp(p) PROVE Named'
  BY <1>4 DEF HangUp
<1>5. ASSUME NEW p \in Phones, SwipedAway(p) PROVE Named'
  BY <1>5 DEF SwipedAway, Abandon
<1>6. ASSUME NEW p \in Phones, Network(p) PROVE Named'
  BY <1>6 DEF Network
<1>7. ASSUME NEW p \in Phones, NEW u \in Accounts, SignIn(p, u) PROVE Named'
  BY <1>7 DEF SignIn
<1>8. ASSUME NEW p \in Phones, NEW v \in Accounts, NEW kind \in CallScreens,
             RowTapped(p, v, kind)
      PROVE  Named'
  BY <1>8 DEF RowTapped, Dials
<1>9. ASSUME NEW p \in Phones, NEW n \in shown[p], NotificationTapped(p, n)
      PROVE  Named'
  BY <1>9 DEF NotificationTapped, Dials, Abandon
<1>10. ASSUME NEW p \in Phones, NEW x \in ghosts[p], GhostEnds(p, x)
       PROVE  Named'
  BY <1>10 DEF GhostEnds
<1>11. ASSUME NEW n \in pushes, PushArrives(n) PROVE Named'
  BY <1>11 DEF PushArrives
<1>12. CASE UNCHANGED vars
  BY <1>12 DEF vars
<1> QED
  BY <1>1, <1>2, <1>3, <1>4, <1>5, <1>6, <1>7, <1>8, <1>9, <1>10, <1>11, <1>12
     DEF Next

\* In every reachable state two phones are in one room exactly if their calls are
\* of the same two parties, or of uids with the same characters, each as often:
\* for uids of any length, calls of either kind, and notifications tapped at any
\* time (OnlineUsersTableViewController 103-111,
\* OnlineUsersAudioOnlyTableViewController 103-111, AppDelegate 80-98).
THEOREM RoomOfTwo == Spec => []SameRoomSameParties
<1>1. TypeOK /\ Named => SameRoomSameParties
  <2> SUFFICES ASSUME TypeOK, Named, NEW p \in Phones, NEW q \in Phones,
                      NEW x \in InRooms(p), NEW y \in InRooms(q)
               PROVE  x.name = y.name <=> Both(x.of) = Both(y.of) \/ y.of \in Alike[x.of]
    BY DEF SameRoomSameParties
  <2>1. /\ x.of \in Pairs /\ x.name = RoomName(x.of)
        /\ y.of \in Pairs /\ y.name = RoomName(y.of)
    BY InRoomsNamed
  <2>2. x.name = y.name <=> y.of \in Alike[x.of]
    BY <2>1, RoomNamesOfAnagrams
  <2>3. ASSUME Both(x.of) = Both(y.of) PROVE x.name = y.name
    <3> DEFINE a == x.of
               b == y.of
    <3>1. a \in Pairs /\ b \in Pairs /\ Both(a) = Both(b)
      BY <2>1, <2>3
    <3> HIDE DEF a, b
    <3>2. a = b \/ (a = <<b[2], b[1]>> /\ b = <<b[1], b[2]>>)
      BY <3>1 DEF Both, Pairs
    <3>3. b[1] \in Users /\ b[2] \in Users
      BY <3>1 DEF Pairs
    <3>4. RoomName(a) = RoomName(b)
      BY <3>2, <3>3, RoomNameCommutes
    <3> QED
      BY <2>1, <3>4 DEF a, b
  <2> QED
    BY <2>2, <2>3
<1> QED
  BY <1>1, NamedInit, NamedStep, TypeCorrect, PTL DEF Spec

-----------------------------------------------------------------------------
(* Calls off screen: one that was left behind belongs to a phone on which a *)
(* call screen went without hanging up.                                     *)

Settled == \A p \in Phones : p \notin abandoned => ghosts[p] = {}

LEMMA SettledInit == Init => Settled
BY DEF Init, Settled

LEMMA SettledStep == TypeOK /\ Settled /\ [Next]_vars => Settled'
<1> SUFFICES ASSUME TypeOK, Settled, [Next]_vars PROVE Settled'
  OBVIOUS
<1> USE DEF TypeOK, Settled, sessionVars, processVars, roomVars, callVars,
            pushVars, CallScreens
<1>1. ASSUME NEW p \in Phones, Launch(p) PROVE Settled'
  BY <1>1 DEF Launch, Starts
<1>2. ASSUME NEW p \in Phones, SignUp(p) PROVE Settled'
  BY <1>2 DEF SignUp
<1>3. ASSUME NEW p \in Phones, ProcessEnds(p) PROVE Settled'
  BY <1>3 DEF ProcessEnds
<1>4. ASSUME NEW p \in Phones, HangUp(p) PROVE Settled'
  BY <1>4 DEF HangUp
<1>5. ASSUME NEW p \in Phones, SwipedAway(p) PROVE Settled'
  BY <1>5 DEF SwipedAway, Abandon
<1>6. ASSUME NEW p \in Phones, Network(p) PROVE Settled'
  BY <1>6 DEF Network
<1>7. ASSUME NEW p \in Phones, NEW u \in Accounts, SignIn(p, u) PROVE Settled'
  BY <1>7 DEF SignIn
<1>8. ASSUME NEW p \in Phones, NEW v \in Accounts, NEW kind \in CallScreens,
             RowTapped(p, v, kind)
      PROVE  Settled'
  BY <1>8 DEF RowTapped, Dials
<1>9. ASSUME NEW p \in Phones, NEW n \in shown[p], NotificationTapped(p, n)
      PROVE  Settled'
  BY <1>9 DEF NotificationTapped, Dials, Abandon
<1>10. ASSUME NEW p \in Phones, NEW x \in ghosts[p], GhostEnds(p, x)
       PROVE  Settled'
  BY <1>10 DEF GhostEnds
<1>11. ASSUME NEW n \in pushes, PushArrives(n) PROVE Settled'
  BY <1>11 DEF PushArrives
<1>12. CASE UNCHANGED vars
  BY <1>12 DEF vars
<1> QED
  BY <1>1, <1>2, <1>3, <1>4, <1>5, <1>6, <1>7, <1>8, <1>9, <1>10, <1>11, <1>12
     DEF Next

\* Off the call screens a phone is in no call, if no call screen went without
\* hanging up (CommunicationViewController 190-196, CallOnlyViewController
\* 111-117, AppDelegate 111-119).
THEOREM CallsAreShown == Spec => []NoCallOffScreen
<1>1. TypeOK /\ Settled => NoCallOffScreen
  BY DEF TypeOK, Settled, NoCallOffScreen, InRooms
<1> QED
  BY <1>1, SettledInit, SettledStep, TypeCorrect, PTL DEF Spec

-----------------------------------------------------------------------------
(* Whose calls a phone is in.  Every place a pair of parties can be, from   *)
(* the token the server keeps to the call, is on the phone of one of them.  *)

OfPhone(p, pair) == Both(pair) \cap signedIn[p] # {} \/ pair[2] = NoUser

Whose ==
    /\ \A p \in Phones : uid[p] = NoUser \/ uid[p] \in signedIn[p]
    /\ \A u \in Accounts : tokenAt[u] # NoPhone => u \in signedIn[tokenAt[u]]
    /\ \A n \in pushes : OfPhone(n.to, n.parties)
    /\ \A p \in Phones : \A n \in shown[p] : OfPhone(p, n.parties)
    /\ \A p \in Phones : \A x \in ghosts[p] : OfPhone(p, x.of)
    /\ \A p \in Phones : call[p] # "none" => OfPhone(p, dialled[p].of)

LEMMA WhoseInit == Init => Whose
BY DEF Init, SessionInit, Whose

\* What the step of one phone has to show, the accounts signed in being as before.
LEMMA WhoseOfOne ==
    ASSUME TypeOK, Whose, NEW p \in Phones,
           UNCHANGED <<tokenAt, pushes, signedIn>>,
           \A q \in Phones : uid'[q] \in {uid[q], NoUser},
           \A q \in Phones : shown'[q] \subseteq shown[q],
           \A q \in Phones : ghosts'[q] \subseteq
                    ghosts[q] \cup (IF call[q] # "none" THEN {dialled[q]} ELSE {}),
           \A q \in Phones \ {p} : call'[q] = call[q] /\ dialled'[q] = dialled[q],
           call'[p] # "none" => OfPhone(p, dialled'[p].of)
    PROVE  Whose'
BY DEF TypeOK, Whose, OfPhone

LEMMA WhoseStep == TypeOK /\ Whose /\ [Next]_vars => Whose'
<1> SUFFICES ASSUME TypeOK, Whose, [Next]_vars PROVE Whose'
  OBVIOUS
<1> USE DEF sessionVars, processVars, roomVars, callVars, pushVars
<1>1. ASSUME NEW p \in Phones, Launch(p) PROVE Whose'
  BY <1>1, WhoseOfOne DEF Launch, Starts, TypeOK, SessionTypeOK, Whose, OfPhone
<1>2. ASSUME NEW p \in Phones, SignUp(p) PROVE Whose'
  BY <1>2 DEF SignUp, Whose, OfPhone
<1>3. ASSUME NEW p \in Phones, ProcessEnds(p) PROVE Whose'
  BY <1>3, WhoseOfOne DEF ProcessEnds, Ends, TypeOK, SessionTypeOK, Whose, OfPhone
<1>4. ASSUME NEW p \in Phones, HangUp(p) PROVE Whose'
  BY <1>4, WhoseOfOne DEF HangUp, TypeOK, Whose, OfPhone
<1>5. ASSUME NEW p \in Phones, SwipedAway(p) PROVE Whose'
  <2>1. \A q \in Phones : ghosts'[q] \subseteq
            ghosts[q] \cup (IF call[q] # "none" THEN {dialled[q]} ELSE {})
    BY <1>5 DEF SwipedAway, Abandon, TypeOK
  <2> QED
    BY <1>5, <2>1, WhoseOfOne DEF SwipedAway, TypeOK, Whose, OfPhone
<1>6. ASSUME NEW p \in Phones, Network(p) PROVE Whose'
  BY <1>6, WhoseOfOne DEF Network, TypeOK, Whose, OfPhone
<1>7. ASSUME NEW p \in Phones, NEW u \in Accounts, SignIn(p, u) PROVE Whose'
  <2>1. /\ \A q \in Phones : signedIn[q] \subseteq signedIn'[q]
        /\ u \in signedIn'[p] /\ uid'[p] = u
        /\ \A q \in Phones \ {p} : uid'[q] = uid[q]
        /\ UNCHANGED <<pushes, shown, ghosts, call, dialled>>
    BY <1>7 DEF SignIn, SignedIn, TypeOK, SessionTypeOK
  <2>2. \A q \in Phones : uid'[q] = NoUser \/ uid'[q] \in signedIn'[q]
    BY <2>1 DEF Whose
  <2>3. /\ tokenAt'[u] \in {p, NoPhone, tokenAt[u]}
        /\ \A v \in Accounts \ {u} : tokenAt'[v] = tokenAt[v]
    BY <1>7 DEF SignIn, TypeOK
  <2>4. \A v \in Accounts : tokenAt'[v] # NoPhone => v \in signedIn'[tokenAt'[v]]
    BY <2>1, <2>3 DEF Whose, TypeOK
  <2>5. \A q \in Phones, x \in Pairs : OfPhone(q, x) => OfPhone(q, x)'
    BY <2>1 DEF OfPhone
  <2>6. /\ \A n \in pushes : n.to \in Phones /\ n.parties \in Pairs
        /\ \A q \in Phones : \A n \in shown[q] : n.parties \in Pairs
        /\ \A q \in Phones : /\ \A x \in ghosts[q] : x.of \in Pairs
                              /\ dialled[q].of \in Pairs
    BY DEF TypeOK, Pushes, Calls
  <2> QED
    BY <2>1, <2>2, <2>4, <2>5, <2>6 DEF Whose, OfPhone
<1>8. ASSUME NEW p \in Phones, NEW v \in Accounts, NEW kind \in CallScreens,
             RowTapped(p, v, kind)
      PROVE  Whose'
  <2>1. OfPhone(p, <<v, uid[p]>>)
    BY DEF Whose, OfPhone, Both
  <2>2. ASSUME tokenAt[v] # NoPhone PROVE OfPhone(tokenAt[v], <<v, uid[p]>>)
    BY <2>2 DEF Whose, OfPhone, Both
  <2>3. \A n \in pushes' : OfPhone(n.to, n.parties)
    BY <1>8, <2>2 DEF RowTapped, Whose
  <2>4. \A q \in Phones : call'[q] # "none" => OfPhone(q, dialled'[q].of)
    BY <1>8, <2>1 DEF RowTapped, Dials, TypeOK, Whose
  <2> QED
    BY <1>8, <2>3, <2>4 DEF RowTapped, Whose, OfPhone
<1>9. ASSUME NEW p \in Phones, NEW n \in shown[p], NotificationTapped(p, n)
      PROVE  Whose'
  <2>1. \A q \in Phones : uid'[q] \in {uid[q], NoUser}
    BY <1>9 DEF NotificationTapped, Starts
  <2>2. \A q \in Phones : ghosts'[q] \subseteq
            ghosts[q] \cup (IF call[q] # "none" THEN {dialled[q]} ELSE {})
    BY <1>9 DEF NotificationTapped, Abandon, TypeOK
  <2>3. OfPhone(p, n.parties)
    BY DEF Whose
  <2> QED
    BY <1>9, <2>1, <2>2, <2>3, WhoseOfOne DEF NotificationTapped, Dials, TypeOK
<1>10. ASSUME NEW p \in Phones, NEW x \in ghosts[p], GhostEnds(p, x)
       PROVE  Whose'
  BY <1>10 DEF GhostEnds, TypeOK, Whose, OfPhone
<1>11. ASSUME NEW n \in pushes, PushArrives(n) PROVE Whose'
  BY <1>11 DEF PushArrives, TypeOK, Whose, OfPhone
<1>12. CASE UNCHANGED vars
  BY <1>12 DEF vars, Whose, OfPhone
<1> QED
  BY <1>1, <1>2, <1>3, <1>4, <1>5, <1>6, <1>7, <1>8, <1>9, <1>10, <1>11, <1>12
     DEF Next

\* A phone is only ever in a room of which one party has signed in on it, or that
\* the nobody of a sign-up has named (LoginViewController 57-64, AppDelegate
\* 74-98, OnlineUsersTableViewController 103-111).
THEOREM RoomsOfThisPhone == Spec => []PartyOfThisPhone
<1>1. Whose => PartyOfThisPhone
  BY DEF Whose, PartyOfThisPhone, InRooms, OfPhone
<1> QED
  BY <1>1, WhoseInit, WhoseStep, TypeCorrect, PTL DEF Spec

-----------------------------------------------------------------------------
(* The base: Signalling's phones and users are Session's, so what it says   *)
(* of calls rests on nothing about the statics that Presence does not keep. *)

LEMMA SessionStep == [Next]_vars => [SessionNext]_sessionVars
<1> SUFFICES ASSUME [Next]_vars PROVE [SessionNext]_sessionVars
  OBVIOUS
<1> USE DEF SessionNext, processVars
<1>1. ASSUME NEW p \in Phones, NEW u \in Accounts, SignIn(p, u)
      PROVE  SignedIn(p, u)
  BY <1>1 DEF SignIn
<1>2. ASSUME NEW p \in Phones, Launch(p)
      PROVE  Starts(p)
  BY <1>2 DEF Launch
<1>3. ASSUME NEW p \in Phones, ProcessEnds(p)
      PROVE  Ends(p)
  BY <1>3 DEF ProcessEnds
<1>4. ASSUME NEW p \in Phones, NEW n \in shown[p], NotificationTapped(p, n)
      PROVE  Starts(p) \/ UNCHANGED sessionVars
  BY <1>4 DEF NotificationTapped
<1>5. ASSUME NEW p \in Phones,
             \/ SignUp(p) \/ HangUp(p) \/ SwipedAway(p) \/ Network(p)
             \/ \E v \in Accounts, kind \in CallScreens : RowTapped(p, v, kind)
             \/ \E x \in ghosts[p] : GhostEnds(p, x)
      PROVE  UNCHANGED sessionVars
  BY <1>5 DEF SignUp, HangUp, SwipedAway, Network, RowTapped, GhostEnds
<1>6. ASSUME NEW n \in pushes, PushArrives(n)
      PROVE  UNCHANGED sessionVars
  BY <1>6 DEF PushArrives
<1>7. CASE UNCHANGED vars
  BY <1>7 DEF vars
<1> QED
  BY <1>1, <1>2, <1>3, <1>4, <1>5, <1>6, <1>7 DEF Next

\* Calls, taps and notifications, also one that launches the app, treat the
\* statics as Session has them: only sign-ins set them, and they are empty with
\* a new process (LoginViewController 57-60, AppDelegate 20-50, 74-119).
THEOREM Refinement == Spec => SessionSpec
<1>1. Init => SessionInit
  BY DEF Init
<1> QED
  BY <1>1, SessionStep, PTL DEF Spec, SessionSpec
=============================================================================
