------------------------------ MODULE Presence ------------------------------
(***************************************************************************)
(* Sign-in, sign-up, presence and push tokens: phones on which the app is  *)
(* launched, killed and terminated, and the server that is told who is     *)
(* online and by which token each user is rung.                            *)
(*                                                                         *)
(* Three actors per phone: the main thread, the work queue of FirebaseAuth *)
(* (which sets currentUser and then posts the completion to the main       *)
(* queue; each read of currentUser is a visit to that queue, so an answer  *)
(* may come between two reads), and the network, on which every request is *)
(* on its own: it may be lost, or overtake another.  A process may end     *)
(* without applicationWillTerminate.                                       *)
(*                                                                         *)
(* The requests for the empty uid, which a process nobody signed in to     *)
(* sends when it is terminated, name no user and are left out.             *)
(***************************************************************************)
EXTENDS Integers, Sequences

CONSTANTS
    Phones, Accounts,
    NoUser,         \* the empty uid, and no current user
    Members,        \* the accounts that exist, with documents, at the start
    MaxLaunches,    \* bound on the launches of each phone
    MaxTaps,        \* bound on the taps on login and sign-up of each phone
    MaxVisits,      \* bound on the changes of screen in one process
    MaxTokens       \* bound on the push tokens of each phone

ASSUME PresenceAssumption ==
    /\ NoUser \notin Accounts
    /\ Members \subseteq Accounts
    /\ MaxLaunches \in Nat /\ MaxTaps \in Nat
    /\ MaxVisits \in Nat /\ MaxTokens \in Nat

VARIABLES
    screen,         \* what the window's root shows, "off" without a process
    visit,          \* the screens are made anew on every visit: which one it is
    launches, taps, \* counted for their bounds
    email, uid,     \* the statics User.email and User.uid
    fcm,            \* the static User.fcm, 0 for the empty string
    sdkToken,       \* the last token of the messaging SDK; it survives
    currentUser,    \* Auth.auth().currentUser; it survives
    asked,          \* requests that FirebaseAuth has not answered
    mainQueue,      \* completions it has posted to the main queue
    reads,          \* reads of currentUser behind the completion of a sign-in
                    \* that has the main thread, 0 if none has
    error,          \* the phones on whose screen the error label is up
    unseen,         \* errors written to a screen that was not on show
    announced,      \* accounts this process has announced online
    named,          \* accounts this process has named to setfcm (history)
    stranded,       \* accounts that a process had announced and that it ended
                    \* without taking offline (history)
    wire,           \* requests under way to the server, in the order sent
    doubted,        \* what the server may have wrong, as some message about it
                    \* was lost or overtaken (history)
    documents,      \* the documents that Firestore has still to write
    writers,        \* setData's completions, each with its sign-up screen
    registered,     \* accounts that exist
    users,          \* accounts that have a document
    online,         \* the server's users that are online
    fcmToken        \* the push token of each of the server's users

statics == <<email, uid, fcm>>
authVars == <<currentUser, asked, mainQueue, reads, registered>>
labels == <<error, unseen>>
spoken == <<announced, named, stranded>>
counts == <<visit, launches, taps>>
writes == <<documents, writers>>
server == <<users, online, fcmToken>>
vars == <<screen, counts, statics, sdkToken, authVars, labels,
          spoken, wire, doubted, writes, server>>

NoToken == <<>>
Tokens == Phones \X (1..MaxTokens)
Token(p) == IF fcm[p] = 0 THEN NoToken ELSE <<p, fcm[p]>>

Visits == 0..MaxVisits
Requests == {"signIn", "createUser"} \X Accounts \X Visits
Completions == Requests \X BOOLEAN
Messages == [op : {"online", "offline", "setfcm"}, of : Accounts,
             token : Tokens \cup {NoToken}]
Status(op, u) == [op |-> op, of |-> u, token |-> NoToken]
Setfcm(u, t) == [op |-> "setfcm", of |-> u, token |-> t]

\* Two messages speak of the same thing: of a user's presence, or token.
Topics == {"presence", "token"} \X Accounts
Topic(m) == <<IF m.op = "setfcm" THEN "token" ELSE "presence", m.of>>
UnderWay(t) == \E p \in Phones : \E i \in DOMAIN wire[p] : Topic(wire[p][i]) = t

\* What a message that nothing on the wire can spoil leaves to be doubted.
DoubtedAfter(m) == IF UnderWay(Topic(m)) THEN doubted ELSE doubted \ {Topic(m)}

Running(p) == screen[p] # "off"
Busy(p) == reads[p] > 0

TypeOK ==
    /\ screen \in [Phones -> {"off", "login", "reset", "signup", "home"}]
    /\ visit \in [Phones -> Visits]
    /\ launches \in [Phones -> 0..MaxLaunches]
    /\ taps \in [Phones -> 0..MaxTaps]
    /\ email \in [Phones -> Accounts \cup {NoUser}]
    /\ uid \in [Phones -> Accounts \cup {NoUser}]
    /\ fcm \in [Phones -> 0..MaxTokens]
    /\ sdkToken \in [Phones -> 0..MaxTokens]
    /\ currentUser \in [Phones -> Accounts \cup {NoUser}]
    /\ asked \in [Phones -> SUBSET Requests]
    /\ mainQueue \in [Phones -> Seq(Completions)]
    /\ reads \in [Phones -> 0..2]
    /\ error \subseteq Phones
    /\ unseen \subseteq {"signIn", "createUser", "setData"}
    /\ announced \in [Phones -> SUBSET Accounts]
    /\ named \in [Phones -> SUBSET Accounts]
    /\ stranded \subseteq Accounts
    /\ wire \in [Phones -> Seq(Messages)] /\ doubted \subseteq Topics
    /\ documents \in [Phones -> SUBSET Accounts]
    /\ writers \in [Phones -> SUBSET (Accounts \X Visits)]
    /\ registered \subseteq Accounts /\ users \subseteq Accounts
    /\ online \subseteq Accounts
    /\ fcmToken \in [Accounts -> Tokens \cup {NoToken}]

Init ==
    /\ screen = [p \in Phones |-> "off"]
    /\ visit = [p \in Phones |-> 0]
    /\ launches = [p \in Phones |-> 0] /\ taps = [p \in Phones |-> 0]
    /\ email = [p \in Phones |-> NoUser] /\ uid = [p \in Phones |-> NoUser]
    /\ fcm = [p \in Phones |-> 0] /\ sdkToken = [p \in Phones |-> 0]
    /\ currentUser = [p \in Phones |-> NoUser]
    /\ asked = [p \in Phones |-> {}] /\ mainQueue = [p \in Phones |-> <<>>]
    /\ reads = [p \in Phones |-> 0]
    /\ error = {} /\ unseen = {}
    /\ announced = [p \in Phones |-> {}] /\ named = [p \in Phones |-> {}]
    /\ stranded = {}
    /\ wire = [p \in Phones |-> <<>>] /\ doubted = {}
    /\ documents = [p \in Phones |-> {}] /\ writers = [p \in Phones |-> {}]
    /\ registered = Members /\ users = Members
    /\ online = {} /\ fcmToken = [u \in Accounts |-> NoToken]

-----------------------------------------------------------------------------
(* The application delegate. *)

\* didFinishLaunching reads the token the SDK has, if it has one yet.
Launch(p) ==
    /\ ~Running(p) /\ launches[p] < MaxLaunches
    /\ screen' = [screen EXCEPT ![p] = "login"]
    /\ launches' = [launches EXCEPT ![p] = @ + 1]
    /\ fcm' = [fcm EXCEPT ![p] = sdkToken[p]]
    /\ UNCHANGED <<visit, taps, email, uid, sdkToken, authVars, labels,
                   spoken, wire, doubted, writes, server>>

\* The SDK gets a token or a new one; didReceiveRegistrationToken posts a
\* notification nobody observes.
NewToken(p) ==
    /\ Running(p) /\ sdkToken[p] < MaxTokens
    /\ sdkToken' = [sdkToken EXCEPT ![p] = @ + 1]
    /\ UNCHANGED <<screen, counts, statics, authVars, labels,
                   spoken, wire, doubted, writes, server>>

\* The end of the process takes the statics, the requests FirebaseAuth has not
\* answered, and the completions with it; what is on the wire, or in
\* Firestore's queue of writes, is not in the process.
ProcessEnds(p) ==
    /\ screen' = [screen EXCEPT ![p] = "off"]
    /\ visit' = [visit EXCEPT ![p] = 0]
    /\ email' = [email EXCEPT ![p] = NoUser]
    /\ uid' = [uid EXCEPT ![p] = NoUser]
    /\ fcm' = [fcm EXCEPT ![p] = 0]
    /\ asked' = [asked EXCEPT ![p] = {}]
    /\ mainQueue' = [mainQueue EXCEPT ![p] = <<>>]
    /\ reads' = [reads EXCEPT ![p] = 0]
    /\ error' = error \ {p}
    /\ announced' = [announced EXCEPT ![p] = {}]
    /\ named' = [named EXCEPT ![p] = {}]
    /\ writers' = [writers EXCEPT ![p] = {}]
    /\ UNCHANGED <<launches, taps, documents, sdkToken, currentUser, registered,
                   unseen, doubted, server>>

\* Mutant: whom FirebaseAuth has signed in is taken offline.
Bug_CurrentUserGoesOffline(p) ==
    /\ Running(p) /\ ~Busy(p)
    /\ wire' = [wire EXCEPT ![p] = IF currentUser[p] = NoUser THEN @
                   ELSE Append(@, Status("offline", currentUser[p]))]
    /\ stranded' = stranded \cup (announced[p] \ {uid[p]})
    /\ ProcessEnds(p)

\* applicationWillTerminate; the sleep of ten seconds lets the request go out.
WillTerminate(p) ==
    /\ Running(p) /\ ~Busy(p)
    /\ wire' = [wire EXCEPT ![p] = IF uid[p] = NoUser THEN @
                                   ELSE Append(@, Status("offline", uid[p]))]
    /\ stranded' = stranded \cup (announced[p] \ {uid[p]})
    /\ ProcessEnds(p)

\* The system, or a crash, ends the process: nobody is told.
Killed(p) ==
    /\ Running(p)
    /\ stranded' = stranded \cup announced[p]
    /\ ProcessEnds(p)
    /\ UNCHANGED wire

-----------------------------------------------------------------------------
(* The screens of Login.storyboard, and what covers them. *)

\* The user goes back and forth; each screen comes up anew, without an error.
Navigate(p) ==
    /\ screen[p] \in {"login", "signup"} /\ visit[p] < MaxVisits
    /\ ~Busy(p)
    /\ visit' = [visit EXCEPT ![p] = @ + 1]
    /\ screen' = [screen EXCEPT ![p] = IF @ = "login" THEN "signup" ELSE "login"]
    /\ error' = error \ {p}
    /\ UNCHANGED <<launches, taps, statics, sdkToken, authVars, unseen,
                   spoken, wire, doubted, writes, server>>

\* "Forgot password" is pushed over login, which is the same screen afterwards.
CoverLogin(p) ==
    /\ screen[p] = "login" /\ ~Busy(p)
    /\ screen' = [screen EXCEPT ![p] = "reset"]
    /\ UNCHANGED <<counts, statics, sdkToken, authVars, labels,
                   spoken, wire, doubted, writes, server>>

BackToLogin(p) ==
    /\ screen[p] = "reset" /\ ~Busy(p)
    /\ screen' = [screen EXCEPT ![p] = "login"]
    /\ UNCHANGED <<counts, statics, sdkToken, authVars, labels,
                   spoken, wire, doubted, writes, server>>

\* A tapped notification: openRoom makes a call screen the window's root, and
\* from there the way leads home.
OpenRoom(p) ==
    /\ Running(p) /\ ~Busy(p)
    /\ screen' = [screen EXCEPT ![p] = "home"]
    /\ UNCHANGED <<counts, statics, sdkToken, authVars, labels,
                   spoken, wire, doubted, writes, server>>

\* loginTapped, or signUpTapped with fields that pass; the buttons stay live
\* while a request is under way.
Tapped(p, r) ==
    /\ screen[p] = IF r[1] = "signIn" THEN "login" ELSE "signup"
    /\ r[3] = visit[p]
    /\ taps[p] < MaxTaps /\ r \notin asked[p]
    /\ ~Busy(p)
    /\ taps' = [taps EXCEPT ![p] = @ + 1]
    /\ asked' = [asked EXCEPT ![p] = @ \cup {r}]
    /\ UNCHANGED <<screen, visit, launches, statics, sdkToken, currentUser,
                   mainQueue, reads, registered, labels, spoken, wire,
                   doubted, writes, server>>

\* signUpTapped with fields that do not pass.
FieldsRefused(p) ==
    /\ screen[p] = "signup" /\ ~Busy(p)
    /\ error' = error \cup {p}
    /\ UNCHANGED <<screen, counts, statics, sdkToken, authVars, unseen,
                   spoken, wire, doubted, writes, server>>

\* Mutant: the current user is set after the completion has run.
Bug_CompletionFirst(p, r) ==
    /\ r \in asked[p]
    /\ asked' = [asked EXCEPT ![p] = @ \ {r}]
    /\ \E ok \in BOOLEAN :
           /\ ok => (r[2] \in registered) = (r[1] = "signIn")
           /\ \/ ~(ok /\ r[1] = "createUser") /\ UNCHANGED registered
              \/ r[1] = "createUser" /\ registered' = registered \cup {r[2]}
           /\ mainQueue' = [mainQueue EXCEPT ![p] = Append(@, <<r, ok>>)]
    /\ UNCHANGED <<screen, counts, statics, sdkToken, currentUser, reads, labels,
                   spoken, wire, doubted, writes, server>>

\* FirebaseAuth, on its work queue: the current user is set first, and the
\* completion runs later, on the main thread.  An account may be created and
\* the answer be lost.
AuthAnswers(p, r) ==
    /\ r \in asked[p]
    /\ asked' = [asked EXCEPT ![p] = @ \ {r}]
    /\ \E ok \in BOOLEAN :
           /\ ok => (r[2] \in registered) = (r[1] = "signIn")
           /\ currentUser' = IF ok THEN [currentUser EXCEPT ![p] = r[2]]
                                   ELSE currentUser
           /\ \/ ~(ok /\ r[1] = "createUser") /\ UNCHANGED registered
              \/ r[1] = "createUser" /\ registered' = registered \cup {r[2]}
           /\ mainQueue' = [mainQueue EXCEPT ![p] = Append(@, <<r, ok>>)]
    /\ UNCHANGED <<screen, counts, statics, sdkToken, reads, labels,
                   spoken, wire, doubted, writes, server>>

\* The screen of visit v is the one on show.
OnShow(p, v) == screen[p] \in {"login", "signup"} /\ visit[p] = v

\* transitionToHome finds a window only from a screen that is on show.
TransitionToHome(p, v) ==
    screen' = [screen EXCEPT ![p] = IF OnShow(p, v) THEN "home" ELSE @]

\* An error is written to the label of a screen, covered or on show.
ShowError(p, v, what) ==
    IF visit[p] = v /\ screen[p] \in {"login", "reset", "signup"}
    THEN error' = error \cup {p} /\ UNCHANGED unseen
    ELSE unseen' = unseen \cup {what} /\ UNCHANGED error

Request(p) == Head(mainQueue[p])[1]
Succeeded(p) == Head(mainQueue[p])[2]

\* The main queue goes on to the next completion.
Finished(p) ==
    /\ mainQueue' = [mainQueue EXCEPT ![p] = Tail(@)]
    /\ reads' = [reads EXCEPT ![p] = 0]

\* A completion of signIn without an error reads currentUser three times: to
\* keep the statics ...
StoreUser(p) ==
    /\ mainQueue[p] # <<>> /\ Request(p)[1] = "signIn" /\ Succeeded(p)
    /\ reads[p] = 0
    /\ reads' = [reads EXCEPT ![p] = 1]
    /\ email' = [email EXCEPT ![p] = Request(p)[2]]
    /\ uid' = [uid EXCEPT ![p] = currentUser[p]]
    /\ UNCHANGED <<screen, counts, fcm, sdkToken, currentUser, asked, mainQueue,
                   registered, labels, spoken, wire, doubted, writes, server>>

\* Mutant: presence is marked from the screen only (by its window).
Bug_AnnouncedIfShown(p) ==
    LET m == Status("online", currentUser[p])
    IN  /\ reads[p] = 1
        /\ reads' = [reads EXCEPT ![p] = 2]
        /\ wire' = IF OnShow(p, Request(p)[3])
                   THEN [wire EXCEPT ![p] = Append(@, m)] ELSE wire
        /\ announced' = [announced EXCEPT ![p] = @ \cup {m.of}]
        /\ doubted' = DoubtedAfter(m)
        /\ UNCHANGED <<screen, counts, statics, sdkToken, currentUser, asked,
                       mainQueue, registered, labels, named, stranded, writes, server>>

\* ... to announce the user ...
MarkOnline(p) ==
    LET m == Status("online", currentUser[p])
    IN  /\ reads[p] = 1
        /\ reads' = [reads EXCEPT ![p] = 2]
        /\ wire' = [wire EXCEPT ![p] = Append(@, m)]
        /\ announced' = [announced EXCEPT ![p] = @ \cup {m.of}]
        /\ stranded' = IF UnderWay(Topic(m)) THEN stranded ELSE stranded \ {m.of}
        /\ doubted' = DoubtedAfter(m)
        /\ UNCHANGED <<screen, counts, statics, sdkToken, currentUser, asked,
                       mainQueue, registered, labels, named, writes, server>>

\* Mutant: the completion holds its screen weakly, and sends no token for one
\* that has been left.
Bug_WeakSelf(p) ==
    LET m == Setfcm(currentUser[p], Token(p))
    IN  /\ reads[p] = 2
        /\ wire' = IF OnShow(p, Request(p)[3])
                   THEN [wire EXCEPT ![p] = Append(@, m)] ELSE wire
        /\ named' = [named EXCEPT ![p] = @ \cup {m.of}]
        /\ doubted' = DoubtedAfter(m)
        /\ TransitionToHome(p, Request(p)[3])
        /\ Finished(p)
        /\ UNCHANGED <<counts, statics, sdkToken, currentUser, asked, registered,
                       labels, announced, stranded, writes, server>>

\* ... and to send the token; then home.
SendToken(p) ==
    LET m == Setfcm(currentUser[p], Token(p))
    IN  /\ reads[p] = 2
        /\ wire' = [wire EXCEPT ![p] = Append(@, m)]
        /\ named' = [named EXCEPT ![p] = @ \cup {m.of}]
        /\ doubted' = DoubtedAfter(m)
        /\ TransitionToHome(p, Request(p)[3])
        /\ Finished(p)
        /\ UNCHANGED <<counts, statics, sdkToken, currentUser, asked, registered,
                       labels, announced, stranded, writes, server>>

\* createUser has succeeded: the document is handed to Firestore, and home.
\* The statics stay empty.
CreateUserDone(p) ==
    /\ mainQueue[p] # <<>> /\ Request(p)[1] = "createUser" /\ Succeeded(p)
    /\ documents' = [documents EXCEPT ![p] = @ \cup {Request(p)[2]}]
    /\ writers' = [writers EXCEPT ![p] = @ \cup {<<Request(p)[2], Request(p)[3]>>}]
    /\ TransitionToHome(p, Request(p)[3])
    /\ Finished(p)
    /\ UNCHANGED <<counts, statics, sdkToken, currentUser, asked, registered,
                   labels, spoken, wire, doubted, server>>

\* Mutant: a failed sign-in leaves its label hidden (no line 54).
Bug_LabelStaysHidden(p) ==
    /\ mainQueue[p] # <<>> /\ ~Succeeded(p)
    /\ IF Request(p)[1] = "signIn" THEN UNCHANGED labels
       ELSE ShowError(p, Request(p)[3], Request(p)[1])
    /\ Finished(p)
    /\ UNCHANGED <<screen, counts, statics, sdkToken, currentUser, asked,
                   registered, spoken, wire, doubted, writes, server>>

\* Mutant: an error forgets who is signed in.
Bug_FailureForgetsUser(p) ==
    /\ mainQueue[p] # <<>> /\ ~Succeeded(p)
    /\ ShowError(p, Request(p)[3], Request(p)[1])
    /\ uid' = [uid EXCEPT ![p] = NoUser]
    /\ Finished(p)
    /\ UNCHANGED <<screen, counts, email, fcm, sdkToken, currentUser, asked,
                   registered, spoken, wire, doubted, writes, server>>

RequestFailed(p) ==
    /\ mainQueue[p] # <<>> /\ ~Succeeded(p)
    /\ ShowError(p, Request(p)[3], Request(p)[1])
    /\ Finished(p)
    /\ UNCHANGED <<screen, counts, statics, sdkToken, currentUser, asked,
                   registered, spoken, wire, doubted, writes, server>>

\* The main thread, on the next completion or in the middle of one.
Completion(p) ==
    StoreUser(p) \/ MarkOnline(p) \/ SendToken(p) \/ CreateUserDone(p)
        \/ RequestFailed(p)

\* Firestore's queue of writes, which runs while the app does: setData stores
\* the new document, with nobody online and no token, or is refused.
SetDataDone(p, u) ==
    /\ Running(p) /\ u \in documents[p]
    /\ documents' = [documents EXCEPT ![p] = @ \ {u}]
    /\ writers' = [writers EXCEPT ![p] = {w \in @ : w[1] # u}]
    /\ \/ /\ users' = users \cup {u}
          /\ online' = online \ {u}
          /\ fcmToken' = [fcmToken EXCEPT ![u] = NoToken]
          /\ UNCHANGED labels
       \/ /\ ~Busy(p)             \* the completion has the main thread
          /\ \/ \E w \in writers[p] : w[1] = u /\ ShowError(p, w[2], "setData")
             \/ (\A w \in writers[p] : w[1] # u) /\ UNCHANGED labels
          /\ UNCHANGED server
    /\ UNCHANGED <<screen, counts, statics, sdkToken, authVars,
                   spoken, wire, doubted>>

-----------------------------------------------------------------------------
(* The network and the server. *)

Without(s, i) ==
    [j \in 1..(Len(s) - 1) |-> IF j < i THEN s[j] ELSE s[j + 1]]

\* Whether the update of a user without a document makes one is not said.
Update(m) ==
    \/ m.of \notin users /\ UNCHANGED server
    \/ /\ online' = IF m.op = "online" THEN online \cup {m.of}
                    ELSE IF m.op = "offline" THEN online \ {m.of} ELSE online
       /\ fcmToken' = IF m.op = "setfcm"
                      THEN [fcmToken EXCEPT ![m.of] = m.token] ELSE fcmToken
       /\ users' = users \cup {m.of}

\* The server handles a request: the oldest on its topic, or one that overtakes
\* another.
Deliver(p, i) ==
    /\ i \in 1..Len(wire[p])
    /\ doubted' = IF \E j \in 1..(i - 1) : Topic(wire[p][j]) = Topic(wire[p][i])
                  THEN doubted \cup {Topic(wire[p][i])} ELSE doubted
    /\ Update(wire[p][i])
    /\ wire' = [wire EXCEPT ![p] = Without(@, i)]
    /\ UNCHANGED <<screen, counts, statics, sdkToken, authVars, labels,
                   spoken, writes>>

Lose(p, i) ==
    /\ i \in 1..Len(wire[p])
    /\ doubted' = doubted \cup {Topic(wire[p][i])}
    /\ wire' = [wire EXCEPT ![p] = Without(@, i)]
    /\ UNCHANGED <<screen, counts, statics, sdkToken, authVars, labels,
                   spoken, writes, server>>

Next ==
    \E p \in Phones :
        \/ Launch(p) \/ NewToken(p) \/ WillTerminate(p) \/ Killed(p)
        \/ Navigate(p) \/ CoverLogin(p) \/ BackToLogin(p) \/ OpenRoom(p)
        \/ FieldsRefused(p) \/ Completion(p)
        \/ \E r \in Requests : Tapped(p, r) \/ AuthAnswers(p, r)
        \/ \E u \in Accounts : SetDataDone(p, u)
        \/ \E i \in DOMAIN wire[p] : Deliver(p, i) \/ Lose(p, i)

\* FirebaseAuth answers each request, and the main queue is served.
Fairness ==
    \A p \in Phones :
        /\ WF_vars(Completion(p))
        /\ \A r \in Requests : WF_vars(AuthAnswers(p, r))

Spec == Init /\ [][Next]_vars
FairSpec == Spec /\ Fairness

-----------------------------------------------------------------------------
(* What the server ends up believing. *)

\* Nothing on the topic is under way, and nothing on it was lost or overtaken
\* since a message that nothing under way could spoil.
Settled(what, u) == <<what, u>> \notin doubted /\ ~UnderWay(<<what, u>>)

\* A user the server has online is in use on some phone, or was left behind: the
\* process was killed, or ended under the uid of a later sign-in.  A message
\* lost or overtaken excuses it only until the user signs in anew.
\* (LoginViewController 59-61, AppDelegate 127-130)
OnlineIsSomeonesDoing ==
    \A u \in online :
        Settled("presence", u) => u \in stranded \/ \E p \in Phones : u \in announced[p]

\* And on the only phone, whoever has signed in to the running process is
\* online, whatever was sent, lost or overtaken of earlier processes, and of
\* others. (LoginViewController 61)
SignedInIsOnline ==
    \A p \in Phones : Phones = {p} =>
        \A u \in announced[p] \cap Members : Settled("presence", u) => u \in online

\* The server rings a user by the token of the launch of the phone whose process
\* named the user to setfcm, none if the SDK had none yet, however many tokens
\* have come since.  That is not always whom the process announced: another
\* answer may come between the two reads. (AppDelegate 47 and 54-61,
\* LoginViewController 61-64)
ServerHasLaunchToken ==
    \A p \in Phones : Phones = {p} =>
        \A u \in named[p] \cap Members : Settled("token", u) => fcmToken[u] = Token(p)

\* A user who waits on the screen of the request gets home or sees an error.
\* (LoginViewController 52-78, SignUpViewController 82-98)
RequestIsAnswered ==
    \A p \in Phones : \A r \in Requests :
        r \in asked[p] ~> (~OnShow(p, r[3]) \/ p \in error)

Waits(p, r) ==
    r \in asked[p] \/ \E i \in 1..Len(mainQueue[p]) : mainQueue[p][i][1] = r

\* No step forgets a user who waits: a request stops being under way only with
\* the screen it was made on, or with an error on it; and an error on a screen
\* stays as long as the screen does. (LoginViewController 52-78,
\* SignUpViewController 82-98)
NobodyIsForgotten ==
    [][ \A p \in Phones :
            /\ \A r \in Requests :
                   Waits(p, r) /\ ~Waits(p, r)' => ~OnShow(p, r[3])' \/ p \in error'
            /\ p \in error \ error' => visit'[p] # visit[p] \/ ~Running(p)' ]_vars

\* The statics keep the promise of Session, with sign-ups, errors and late
\* completions in between. (LoginViewController 52-60, SignUpViewController 82-98)
Statics == INSTANCE Session WITH alive <- {p \in Phones : Running(p)}

ImplementsSession == Statics!SessionSpec

(* What the code says of itself and does not keep. *)

\* "keeps track of users email and uid" (LoginViewController 44): of one user.
EmailMatchesUid == \A p \in Phones : email[p] = uid[p]
=============================================================================
