--------------------------- MODULE PresenceProofs ---------------------------
(***************************************************************************)
(* Theorems about Presence, for any phones and accounts, and any number of *)
(* launches, taps, screens and tokens.                                     *)
(***************************************************************************)
EXTENDS Presence, TLAPS

\* A process that is not there holds nothing, whoever's sign-in has succeeded
\* is, until the completion runs and after, some current user, and the main
\* thread is busy with the completion of such a sign-in only.
Process ==
    \A p \in Phones :
        /\ screen[p] = "off" =>
               /\ asked[p] = {} /\ mainQueue[p] = <<>>
               /\ uid[p] = NoUser /\ announced[p] = {} /\ named[p] = {}
        /\ Busy(p) => mainQueue[p] # <<>> /\ Succeeded(p) /\ Request(p)[1] = "signIn"
        /\ \A i \in 1..Len(mainQueue[p]) :
               mainQueue[p][i][2] => currentUser[p] \in Accounts

LEMMA Appended ==
    ASSUME NEW S, NEW s \in Seq(S), NEW x \in S
    PROVE  /\ Append(s, x) \in Seq(S) /\ Len(Append(s, x)) = Len(s) + 1
           /\ \A i \in 1..Len(s) : Append(s, x)[i] = s[i]
           /\ Append(s, x)[Len(s) + 1] = x
OBVIOUS

LEMMA Shortened ==
    ASSUME NEW S, NEW s \in Seq(S), s # <<>>
    PROVE  /\ Tail(s) \in Seq(S) /\ Len(Tail(s)) = Len(s) - 1
           /\ Len(s) > 0 /\ Head(s) = s[1] /\ Head(s) \in S
           /\ \A i \in 1..Len(Tail(s)) : Tail(s)[i] = s[i + 1]
OBVIOUS

LEMMA Taken ==
    ASSUME NEW S, NEW s \in Seq(S), NEW i \in 1..Len(s)
    PROVE  /\ Without(s, i) \in Seq(S) /\ Len(Without(s, i)) = Len(s) - 1
           /\ \A j \in 1..(Len(s) - 1) :
                  Without(s, i)[j] = IF j < i THEN s[j] ELSE s[j + 1]
<1> DEFINE n == Len(s) - 1
<1>1. n \in Nat /\ \A j \in 1..n : s[j] \in S /\ s[j + 1] \in S
  OBVIOUS
<1>2. Without(s, i) = [j \in 1..n |-> IF j < i THEN s[j] ELSE s[j + 1]]
  BY DEF Without
<1>3. Without(s, i) \in [1..n -> S]
  BY <1>1, <1>2
<1>4. Without(s, i) \in Seq(S) /\ Len(Without(s, i)) = n
  BY <1>1, <1>3
<1> QED
  BY <1>2, <1>4

LEMMA MessageTypes ==
    ASSUME NEW u \in Accounts
    PROVE  /\ Status("online", u) \in Messages /\ Status("offline", u) \in Messages
           /\ \A t \in Tokens \cup {NoToken} : Setfcm(u, t) \in Messages
BY DEF Status, Setfcm, Messages

-----------------------------------------------------------------------------
(* Type correctness. *)

IInv == TypeOK /\ Process

LEMMA InvariantInit == Init => IInv
<1> SUFFICES ASSUME Init PROVE IInv
  OBVIOUS
<1>1. <<>> \in Seq(Completions) /\ <<>> \in Seq(Messages) /\ Len(<<>>) = 0
  OBVIOUS
<1>2. 0 \in 0..MaxLaunches /\ 0 \in 0..MaxTaps /\ 0 \in 0..MaxTokens /\ 0 \in Visits
  BY PresenceAssumption DEF Visits
<1>3. TypeOK
  BY <1>1, <1>2, PresenceAssumption DEF Init, TypeOK
<1>4. Process
  <2>1. ASSUME NEW p \in Phones
        PROVE  /\ mainQueue[p] = <<>> /\ asked[p] = {} /\ uid[p] = NoUser
               /\ announced[p] = {} /\ named[p] = {} /\ ~Busy(p)
    BY DEF Init, Busy
  <2>2. ASSUME NEW p \in Phones PROVE Len(mainQueue[p]) = 0
    BY <1>1, <2>1
  <2>3. ASSUME NEW p \in Phones PROVE 1..Len(mainQueue[p]) = {}
    BY <2>2
  <2> QED
    BY <2>1, <2>3 DEF Process
<1> QED
  BY <1>3, <1>4 DEF IInv

LEMMA EndTypes ==
    ASSUME TypeOK, NEW p \in Phones, ProcessEnds(p),
           stranded' \subseteq Accounts, wire' \in [Phones -> Seq(Messages)]
    PROVE  TypeOK'
<1>1. <<>> \in Seq(Completions) /\ 0 \in Visits /\ 0 \in 0..MaxTaps /\ 0 \in 0..MaxTokens
  BY PresenceAssumption DEF Visits
<1>2. /\ screen' \in [Phones -> {"off", "login", "reset", "signup", "home"}]
      /\ visit' \in [Phones -> Visits] /\ launches' \in [Phones -> 0..MaxLaunches]
      /\ taps' \in [Phones -> 0..MaxTaps] /\ fcm' \in [Phones -> 0..MaxTokens]
      /\ email' \in [Phones -> Accounts \cup {NoUser}]
      /\ uid' \in [Phones -> Accounts \cup {NoUser}]
  BY <1>1 DEF ProcessEnds, TypeOK
<1>3. /\ asked' \in [Phones -> SUBSET Requests]
      /\ mainQueue' \in [Phones -> Seq(Completions)] /\ reads' \in [Phones -> 0..2]
  BY <1>1 DEF ProcessEnds, TypeOK
<1>4. /\ announced' \in [Phones -> SUBSET Accounts]
      /\ named' \in [Phones -> SUBSET Accounts]
      /\ writers' \in [Phones -> SUBSET (Accounts \X Visits)] /\ error' \subseteq Phones
  BY DEF ProcessEnds, TypeOK
<1> QED
  BY <1>2, <1>3, <1>4 DEF ProcessEnds, TypeOK, server

\* Who the completion of a successful signIn finds signed in.
LEMMA SignInUser ==
    ASSUME IInv, NEW p \in Phones, mainQueue[p] # <<>>, Succeeded(p)
    PROVE  currentUser[p] \in Accounts
<1>1. mainQueue[p] \in Seq(Completions)
  BY DEF IInv, TypeOK
<1>2. Len(mainQueue[p]) > 0 /\ Head(mainQueue[p]) = mainQueue[p][1]
  BY <1>1, Shortened
<1>3. 1 \in 1..Len(mainQueue[p])
  BY <1>1, <1>2
<1> QED
  BY <1>2, <1>3 DEF IInv, Process, Succeeded

\* And whom a busy main thread finds, at each of its reads.
LEMMA ReadUser ==
    ASSUME IInv, NEW p \in Phones, Busy(p)
    PROVE  currentUser[p] \in Accounts /\ mainQueue[p] # <<>>
BY SignInUser DEF IInv, Process

\* What a completion works on.
LEMMA CompletionOf ==
    ASSUME TypeOK, NEW p \in Phones, mainQueue[p] # <<>>
    PROVE  /\ Request(p) \in Requests /\ Request(p)[2] \in Accounts
           /\ Request(p)[3] \in Visits /\ Request(p)[1] \in {"signIn", "createUser"}
           /\ Tail(mainQueue[p]) \in Seq(Completions)
<1>1. mainQueue[p] \in Seq(Completions)
  BY DEF TypeOK
<1>2. Head(mainQueue[p]) \in Completions /\ Tail(mainQueue[p]) \in Seq(Completions)
  BY <1>1, Shortened
<1> QED
  BY <1>2 DEF Completions, Requests, Request

LEMMA TokenType ==
    ASSUME TypeOK, NEW p \in Phones
    PROVE  Token(p) \in Tokens \cup {NoToken}
<1>1. fcm[p] \in 0..MaxTokens
  BY DEF TypeOK
<1>2. CASE fcm[p] = 0
  BY <1>2 DEF Token
<1>3. CASE fcm[p] # 0
  <2>1. fcm[p] \in 1..MaxTokens
    BY <1>1, <1>3, PresenceAssumption
  <2> QED
    BY <1>3, <2>1 DEF Token, Tokens
<1> QED
  BY <1>2, <1>3

LEMMA ErrorTypes ==
    ASSUME TypeOK, NEW p \in Phones, NEW v,
           NEW what \in {"signIn", "createUser", "setData"}, ShowError(p, v, what)
    PROVE  error' \subseteq Phones /\ unseen' \subseteq {"signIn", "createUser", "setData"}
BY DEF ShowError, TypeOK

LEMMA ScreenTypes ==
    ASSUME TypeOK, NEW p \in Phones, NEW v, TransitionToHome(p, v)
    PROVE  /\ screen' \in [Phones -> {"off", "login", "reset", "signup", "home"}]
           /\ \A q \in Phones : (screen'[q] = "off") = (screen[q] = "off")
BY DEF TransitionToHome, OnShow, TypeOK

LEMMA FinishedTypes ==
    ASSUME TypeOK, NEW p \in Phones, mainQueue[p] # <<>>, Finished(p)
    PROVE  mainQueue' \in [Phones -> Seq(Completions)] /\ reads' \in [Phones -> 0..2]
<1>1. Tail(mainQueue[p]) \in Seq(Completions)
  BY CompletionOf
<1> QED
  BY <1>1 DEF Finished, TypeOK

\* A message is sent, and what is doubted may become less.
LEMMA SendTypes ==
    ASSUME TypeOK, NEW p \in Phones, NEW m \in Messages,
           wire' = [wire EXCEPT ![p] = Append(@, m)], doubted' = DoubtedAfter(m)
    PROVE  wire' \in [Phones -> Seq(Messages)] /\ doubted' \subseteq Topics
BY Appended DEF TypeOK, DoubtedAfter

LEMMA CompletionTypes ==
    ASSUME IInv, NEW p \in Phones, Completion(p)
    PROVE  TypeOK'
<1> TypeOK
  BY DEF IInv
<1> USE DEF counts, statics, labels, spoken, writes, server
<1>1. CASE StoreUser(p)
  <2>1. Request(p)[2] \in Accounts /\ currentUser[p] \in Accounts
    BY <1>1, CompletionOf, SignInUser DEF StoreUser
  <2>2. /\ email' \in [Phones -> Accounts \cup {NoUser}]
        /\ uid' \in [Phones -> Accounts \cup {NoUser}]
        /\ reads' \in [Phones -> 0..2]
    BY <1>1, <2>1 DEF StoreUser, TypeOK
  <2> QED
    BY <1>1, <2>2 DEF StoreUser, TypeOK
<1>2. CASE MarkOnline(p)
  <2>1. currentUser[p] \in Accounts
    BY <1>2, ReadUser DEF MarkOnline, Busy
  <2>2. wire' \in [Phones -> Seq(Messages)] /\ doubted' \subseteq Topics
    BY <1>2, <2>1, MessageTypes, SendTypes DEF MarkOnline
  <2>3. /\ announced' \in [Phones -> SUBSET Accounts] /\ stranded' \subseteq Accounts
        /\ reads' \in [Phones -> 0..2]
    BY <1>2, <2>1 DEF MarkOnline, TypeOK, Status
  <2> QED
    BY <1>2, <2>2, <2>3 DEF MarkOnline, TypeOK
<1>3. CASE SendToken(p)
  <2>1. currentUser[p] \in Accounts /\ mainQueue[p] # <<>>
    BY <1>3, ReadUser DEF SendToken, Busy
  <2>2. wire' \in [Phones -> Seq(Messages)] /\ doubted' \subseteq Topics
    BY <1>3, <2>1, TokenType, MessageTypes, SendTypes DEF SendToken
  <2>3. named' \in [Phones -> SUBSET Accounts]
    BY <1>3, <2>1 DEF SendToken, TypeOK, Setfcm
  <2>4. /\ screen' \in [Phones -> {"off", "login", "reset", "signup", "home"}]
        /\ mainQueue' \in [Phones -> Seq(Completions)] /\ reads' \in [Phones -> 0..2]
    BY <1>3, <2>1, ScreenTypes, FinishedTypes DEF SendToken
  <2> QED
    BY <1>3, <2>2, <2>3, <2>4 DEF SendToken, TypeOK
<1>4. CASE CreateUserDone(p)
  <2>1. Request(p)[2] \in Accounts /\ Request(p)[3] \in Visits
    BY <1>4, CompletionOf DEF CreateUserDone
  <2>2. /\ screen' \in [Phones -> {"off", "login", "reset", "signup", "home"}]
        /\ mainQueue' \in [Phones -> Seq(Completions)] /\ reads' \in [Phones -> 0..2]
    BY <1>4, ScreenTypes, FinishedTypes DEF CreateUserDone
  <2>3. /\ documents' \in [Phones -> SUBSET Accounts]
        /\ writers' \in [Phones -> SUBSET (Accounts \X Visits)]
    BY <1>4, <2>1 DEF CreateUserDone, TypeOK
  <2> QED
    BY <1>4, <2>2, <2>3 DEF CreateUserDone, TypeOK
<1>5. CASE RequestFailed(p)
  <2>1. Request(p)[1] \in {"signIn", "createUser"}
    BY <1>5, CompletionOf DEF RequestFailed
  <2>2. error' \subseteq Phones /\ unseen' \subseteq {"signIn", "createUser", "setData"}
    BY <1>5, <2>1, ErrorTypes DEF RequestFailed
  <2>3. mainQueue' \in [Phones -> Seq(Completions)] /\ reads' \in [Phones -> 0..2]
    BY <1>5, FinishedTypes DEF RequestFailed
  <2> QED
    BY <1>5, <2>2, <2>3 DEF RequestFailed, TypeOK
<1> QED
  BY <1>1, <1>2, <1>3, <1>4, <1>5 DEF Completion

LEMMA AnswerTypes ==
    ASSUME TypeOK, NEW p \in Phones, NEW r \in Requests, AuthAnswers(p, r)
    PROVE  TypeOK'
<1>1. PICK ok \in BOOLEAN :
          /\ currentUser' = IF ok THEN [currentUser EXCEPT ![p] = r[2]] ELSE currentUser
          /\ \/ UNCHANGED registered
             \/ registered' = registered \cup {r[2]}
          /\ mainQueue' = [mainQueue EXCEPT ![p] = Append(@, <<r, ok>>)]
  BY DEF AuthAnswers
<1>2. r[2] \in Accounts /\ <<r, ok>> \in Completions
  BY DEF Requests, Completions
<1>3. mainQueue' \in [Phones -> Seq(Completions)]
  BY <1>1, <1>2, Appended DEF TypeOK
<1>4. currentUser' \in [Phones -> Accounts \cup {NoUser}] /\ registered' \subseteq Accounts
  BY <1>1, <1>2 DEF TypeOK
<1>5. asked' \in [Phones -> SUBSET Requests]
  BY DEF AuthAnswers, TypeOK
<1> QED
  BY <1>3, <1>4, <1>5 DEF AuthAnswers, TypeOK, counts, statics, labels, spoken, writes,
                             server

LEMMA SetDataTypes ==
    ASSUME TypeOK, NEW p \in Phones, NEW u \in Accounts, SetDataDone(p, u)
    PROVE  TypeOK'
<1>1. error' \subseteq Phones /\ unseen' \subseteq {"signIn", "createUser", "setData"}
  BY ErrorTypes DEF SetDataDone, TypeOK, labels
<1>2. users' \subseteq Accounts /\ online' \subseteq Accounts
  BY DEF SetDataDone, TypeOK, server
<1>3. fcmToken' \in [Accounts -> Tokens \cup {NoToken}]
  BY DEF SetDataDone, TypeOK, server
<1>4. /\ documents' \in [Phones -> SUBSET Accounts]
      /\ writers' \in [Phones -> SUBSET (Accounts \X Visits)]
  BY DEF SetDataDone, TypeOK
<1> QED
  BY <1>1, <1>2, <1>3, <1>4 DEF SetDataDone, TypeOK, counts, statics, authVars, spoken

LEMMA UpdateTypes ==
    ASSUME TypeOK, NEW m \in Messages, Update(m)
    PROVE  /\ users' \subseteq Accounts /\ online' \subseteq Accounts
           /\ fcmToken' \in [Accounts -> Tokens \cup {NoToken}]
<1>1. m.of \in Accounts /\ m.token \in Tokens \cup {NoToken}
  BY DEF Messages
<1> QED
  BY <1>1 DEF Update, TypeOK, server

LEMMA WireTypes ==
    ASSUME TypeOK, NEW p \in Phones, NEW i \in 1..Len(wire[p]),
           wire' = [wire EXCEPT ![p] = Without(@, i)]
    PROVE  wire' \in [Phones -> Seq(Messages)] /\ wire[p][i] \in Messages
BY Taken DEF TypeOK

LEMMA TopicType ==
    ASSUME NEW m \in Messages
    PROVE  Topic(m) \in Topics
BY DEF Topic, Topics, Messages

LEMMA TypeStep == IInv /\ [Next]_vars => TypeOK'
<1> SUFFICES ASSUME IInv, [Next]_vars PROVE TypeOK'
  OBVIOUS
<1> TypeOK
  BY DEF IInv
<1>1. ASSUME NEW p \in Phones, Launch(p) PROVE TypeOK'
  <2>1. /\ screen' \in [Phones -> {"off", "login", "reset", "signup", "home"}]
        /\ launches' \in [Phones -> 0..MaxLaunches]
    BY <1>1, PresenceAssumption DEF Launch, TypeOK
  <2>2. fcm' \in [Phones -> 0..MaxTokens]
    BY <1>1 DEF Launch, TypeOK
  <2> QED
    BY <1>1, <2>1, <2>2 DEF Launch, TypeOK, authVars, labels, spoken, writes, server
<1>2. ASSUME NEW p \in Phones, NewToken(p) PROVE TypeOK'
  BY <1>2, PresenceAssumption
     DEF NewToken, TypeOK, counts, statics, authVars, labels, spoken, writes, server
<1>3. ASSUME NEW p \in Phones, WillTerminate(p) PROVE TypeOK'
  <2>1. stranded' \subseteq Accounts
    BY <1>3 DEF WillTerminate, TypeOK
  <2>2. wire' \in [Phones -> Seq(Messages)]
    <3>1. CASE uid[p] = NoUser
      BY <1>3, <3>1 DEF WillTerminate, TypeOK
    <3>2. CASE uid[p] # NoUser
      <4>1. Status("offline", uid[p]) \in Messages
        BY <3>2, MessageTypes DEF TypeOK
      <4> QED
        BY <1>3, <3>2, <4>1, Appended DEF WillTerminate, TypeOK
    <3> QED
      BY <3>1, <3>2
  <2> QED
    BY <1>3, <2>1, <2>2, EndTypes DEF WillTerminate
<1>4. ASSUME NEW p \in Phones, Killed(p) PROVE TypeOK'
  <2>1. stranded' \subseteq Accounts /\ wire' \in [Phones -> Seq(Messages)]
    BY <1>4 DEF Killed, TypeOK
  <2> QED
    BY <1>4, <2>1, EndTypes DEF Killed
<1>5. ASSUME NEW p \in Phones, Navigate(p) PROVE TypeOK'
  <2>1. visit' \in [Phones -> Visits]
    BY <1>5, PresenceAssumption DEF Navigate, TypeOK, Visits
  <2> QED
    BY <1>5, <2>1 DEF Navigate, TypeOK, statics, authVars, spoken, writes, server
<1>6. ASSUME NEW p \in Phones, FieldsRefused(p) PROVE TypeOK'
  BY <1>6 DEF FieldsRefused, TypeOK, counts, statics, authVars, spoken, writes, server
<1>7. ASSUME NEW p \in Phones, NEW r \in Requests, Tapped(p, r) PROVE TypeOK'
  <2>1. taps' \in [Phones -> 0..MaxTaps]
    BY <1>7, PresenceAssumption DEF Tapped, TypeOK
  <2> QED
    BY <1>7, <2>1 DEF Tapped, TypeOK, statics, labels, spoken, writes, server
<1>8. ASSUME NEW p \in Phones, NEW i \in DOMAIN wire[p], Deliver(p, i) PROVE TypeOK'
  <2>1. i \in 1..Len(wire[p]) /\ Update(wire[p][i])
    BY <1>8 DEF Deliver
  <2>2. wire' \in [Phones -> Seq(Messages)] /\ wire[p][i] \in Messages
    BY <1>8, <2>1, WireTypes DEF Deliver
  <2>3. doubted' \subseteq Topics
    BY <1>8, <2>2, TopicType DEF Deliver, TypeOK
  <2> QED
    BY <1>8, <2>1, <2>2, <2>3, UpdateTypes
       DEF Deliver, TypeOK, counts, statics, authVars, labels, spoken, writes
<1>9. ASSUME NEW p \in Phones, NEW i \in DOMAIN wire[p], Lose(p, i) PROVE TypeOK'
  <2>1. wire' \in [Phones -> Seq(Messages)] /\ wire[p][i] \in Messages
    BY <1>9, WireTypes DEF Lose
  <2>2. doubted' \subseteq Topics
    BY <1>9, <2>1, TopicType DEF Lose, TypeOK
  <2> QED
    BY <1>9, <2>1, <2>2
       DEF Lose, TypeOK, counts, statics, authVars, labels, spoken, writes, server
<1>11. ASSUME NEW p \in Phones, CoverLogin(p) \/ BackToLogin(p) \/ OpenRoom(p)
       PROVE  TypeOK'
  BY <1>11 DEF CoverLogin, BackToLogin, OpenRoom, TypeOK, counts, statics, authVars,
               labels, spoken, writes, server
<1>10. CASE UNCHANGED vars
  BY <1>10 DEF vars, TypeOK, counts, statics, authVars, labels, spoken, writes, server
<1> QED
  BY <1>1, <1>2, <1>3, <1>4, <1>5, <1>6, <1>7, <1>8, <1>9, <1>10, <1>11,
     CompletionTypes, AnswerTypes, SetDataTypes DEF Next

LEMMA ProcessKept ==
    ASSUME IInv, \A p \in Phones : (screen'[p] = "off") = (screen[p] = "off"),
           UNCHANGED <<asked, mainQueue, reads, uid, announced, named, currentUser>>
    PROVE  Process'
BY DEF IInv, Process, Busy, Succeeded, Request

LEMMA EndsProcess ==
    ASSUME IInv, NEW p \in Phones, ProcessEnds(p)
    PROVE  Process'
<1> USE DEF Busy, Succeeded, Request
<1>1. /\ asked'[p] = {} /\ mainQueue'[p] = <<>> /\ ~Busy(p)'
      /\ uid'[p] = NoUser /\ announced'[p] = {} /\ named'[p] = {}
  BY DEF ProcessEnds, IInv, TypeOK
<1>2. 1..Len(mainQueue'[p]) = {}
  <2>1. Len(mainQueue'[p]) = 0
    BY <1>1
  <2> QED
    BY <2>1
<1>3. \A q \in Phones \ {p} :
          /\ screen'[q] = screen[q] /\ asked'[q] = asked[q]
          /\ mainQueue'[q] = mainQueue[q] /\ uid'[q] = uid[q] /\ reads'[q] = reads[q]
          /\ announced'[q] = announced[q] /\ named'[q] = named[q]
          /\ currentUser'[q] = currentUser[q]
  BY DEF ProcessEnds, IInv, TypeOK
<1> QED
  BY <1>1, <1>2, <1>3 DEF IInv, Process

\* A completion of a sign-in, or of anything else, is run by a process.
LEMMA CompletionProcess ==
    ASSUME IInv, NEW p \in Phones, Completion(p)
    PROVE  /\ Process' /\ screen[p] # "off" /\ mainQueue[p] # <<>>
           /\ UNCHANGED <<asked, currentUser, visit>>
           /\ mainQueue'[p] \in {mainQueue[p], Tail(mainQueue[p])}
           /\ \A q \in Phones \ {p} : mainQueue'[q] = mainQueue[q]
           /\ \A q \in Phones : (screen'[q] = "off") = (screen[q] = "off")
           /\ \/ UNCHANGED uid
              \/ /\ uid' = [uid EXCEPT ![p] = currentUser[p]]
                 /\ currentUser[p] \in Accounts
<1> USE DEF counts, statics, spoken
<1>1. mainQueue[p] \in Seq(Completions) /\ mainQueue[p] # <<>>
  <2>1. CASE MarkOnline(p) \/ SendToken(p)
    <3>1. Busy(p)
      BY <2>1 DEF MarkOnline, SendToken, Busy
    <3>2. mainQueue[p] # <<>>
      BY <3>1, ReadUser
    <3> QED
      BY <3>2 DEF IInv, TypeOK
  <2>2. CASE StoreUser(p) \/ CreateUserDone(p) \/ RequestFailed(p)
    BY <2>2 DEF StoreUser, CreateUserDone, RequestFailed, IInv, TypeOK
  <2> QED
    BY <2>1, <2>2 DEF Completion
<1>2. screen[p] # "off"
  BY <1>1 DEF IInv, Process
<1>3. /\ \A q \in Phones : (screen'[q] = "off") = (screen[q] = "off")
      /\ \A q \in Phones \ {p} : /\ uid'[q] = uid[q] /\ announced'[q] = announced[q]
                                 /\ named'[q] = named[q] /\ reads'[q] = reads[q]
                                 /\ mainQueue'[q] = mainQueue[q]
      /\ \/ UNCHANGED uid
         \/ /\ uid' = [uid EXCEPT ![p] = currentUser[p]]
            /\ currentUser[p] \in Accounts
      /\ \/ /\ UNCHANGED mainQueue
            /\ Succeeded(p) /\ Request(p)[1] = "signIn"
         \/ Finished(p)
      /\ UNCHANGED <<asked, currentUser, visit>>
  <2>1. CASE StoreUser(p)
    BY <1>1, <2>1, SignInUser DEF StoreUser, IInv, TypeOK
  <2>2. CASE MarkOnline(p)
    BY <2>2 DEF MarkOnline, IInv, TypeOK, Process, Busy
  <2>3. CASE SendToken(p)
    BY <2>3, ScreenTypes DEF SendToken, Finished, IInv, TypeOK
  <2>4. CASE CreateUserDone(p)
    BY <2>4, ScreenTypes DEF CreateUserDone, Finished, IInv, TypeOK
  <2>5. CASE RequestFailed(p)
    BY <2>5 DEF RequestFailed, Finished, IInv, TypeOK
  <2> QED
    BY <2>1, <2>2, <2>3, <2>4, <2>5 DEF Completion
<1>4. \/ /\ mainQueue'[p] = mainQueue[p]
         /\ Succeeded(p) /\ Request(p)[1] = "signIn"
      \/ mainQueue'[p] = Tail(mainQueue[p]) /\ reads'[p] = 0
  BY <1>3 DEF Finished, IInv, TypeOK
<1>5. \A i \in 1..Len(mainQueue'[p]) : mainQueue'[p][i][2] => currentUser[p] \in Accounts
  <2> SUFFICES ASSUME NEW i \in 1..Len(mainQueue'[p]), mainQueue'[p][i][2]
               PROVE  currentUser[p] \in Accounts
    OBVIOUS
  <2>1. CASE mainQueue'[p] = mainQueue[p]
    BY <2>1 DEF IInv, Process
  <2>2. CASE mainQueue'[p] = Tail(mainQueue[p])
    <3>1. i + 1 \in 1..Len(mainQueue[p]) /\ mainQueue'[p][i] = mainQueue[p][i + 1]
      BY <1>1, <2>2, Shortened
    <3> QED
      BY <3>1 DEF IInv, Process
  <2> QED
    BY <1>4, <2>1, <2>2
<1>6. Process'
  <2>1. ASSUME NEW q \in Phones, screen'[q] = "off"
        PROVE  /\ q # p /\ asked'[q] = {} /\ mainQueue'[q] = <<>>
               /\ uid'[q] = NoUser /\ announced'[q] = {} /\ named'[q] = {}
    BY <1>2, <1>3, <2>1 DEF IInv, Process
  <2>2. ASSUME NEW q \in Phones, NEW i \in 1..Len(mainQueue'[q]), mainQueue'[q][i][2]
        PROVE  currentUser'[q] \in Accounts
    BY <1>3, <1>5, <2>2 DEF IInv, Process
  <2>3. ASSUME NEW q \in Phones, Busy(q)'
        PROVE  /\ mainQueue'[q] # <<>>
               /\ Head(mainQueue'[q])[2] /\ Head(mainQueue'[q])[1][1] = "signIn"
    <3>1. CASE q = p
      BY <1>1, <1>4, <2>3, <3>1 DEF Busy, Succeeded, Request
    <3>2. CASE q # p
      BY <1>3, <2>3, <3>2 DEF IInv, Process, Busy, Succeeded, Request
    <3> QED
      BY <3>1, <3>2
  <2> QED
    BY <2>1, <2>2, <2>3 DEF Process, Succeeded, Request
<1> QED
  BY <1>1, <1>2, <1>3, <1>4, <1>6

LEMMA AnswerProcess ==
    ASSUME IInv, NEW p \in Phones, NEW r \in Requests, AuthAnswers(p, r)
    PROVE  Process'
<1>1. PICK ok \in BOOLEAN :
          /\ currentUser' = IF ok THEN [currentUser EXCEPT ![p] = r[2]] ELSE currentUser
          /\ mainQueue' = [mainQueue EXCEPT ![p] = Append(@, <<r, ok>>)]
  BY DEF AuthAnswers
<1>2. /\ mainQueue[p] \in Seq(Completions) /\ <<r, ok>> \in Completions
      /\ mainQueue'[p] = Append(mainQueue[p], <<r, ok>>)
      /\ r[2] \in Accounts /\ screen[p] # "off"
  BY <1>1 DEF AuthAnswers, IInv, TypeOK, Process, Completions, Requests
<1>3. \A q \in Phones \ {p} :
          /\ mainQueue'[q] = mainQueue[q] /\ currentUser'[q] = currentUser[q]
          /\ asked'[q] = asked[q]
  BY <1>1 DEF AuthAnswers, IInv, TypeOK
<1>4. ok => currentUser'[p] = r[2]
  BY <1>1 DEF IInv, TypeOK
<1>5. ~ok => currentUser'[p] = currentUser[p]
  BY <1>1
<1>6. ASSUME NEW i \in 1..Len(mainQueue'[p]), mainQueue'[p][i][2]
      PROVE  currentUser'[p] \in Accounts
  <2>1. CASE ok
    BY <1>2, <1>4, <2>1
  <2>2. CASE ~ok
    <3>1. \/ i \in 1..Len(mainQueue[p]) /\ mainQueue'[p][i] = mainQueue[p][i]
          \/ mainQueue'[p][i] = <<r, ok>>
      BY <1>2, <1>6, Appended
    <3>2. i \in 1..Len(mainQueue[p]) /\ mainQueue[p][i][2]
      BY <1>6, <2>2, <3>1
    <3> QED
      BY <1>5, <2>2, <3>2 DEF IInv, Process
  <2> QED
    BY <2>1, <2>2
<1>7. UNCHANGED <<screen, uid, announced, named, reads>>
  BY DEF AuthAnswers, statics, spoken
<1>8. ASSUME mainQueue[p] # <<>>
      PROVE  mainQueue'[p] # <<>> /\ Head(mainQueue'[p]) = Head(mainQueue[p])
  BY <1>2, <1>8
<1>9. ASSUME NEW q \in Phones, Busy(q)'
      PROVE  /\ mainQueue'[q] # <<>>
             /\ Head(mainQueue'[q])[2] /\ Head(mainQueue'[q])[1][1] = "signIn"
  BY <1>3, <1>7, <1>8, <1>9 DEF IInv, Process, Busy, Succeeded, Request
<1> QED
  BY <1>2, <1>3, <1>6, <1>7, <1>9 DEF IInv, Process, Succeeded, Request

LEMMA ProcessStep == IInv /\ [Next]_vars => Process'
<1> SUFFICES ASSUME IInv, [Next]_vars PROVE Process'
  OBVIOUS
<1> USE DEF statics, spoken
<1>1. ASSUME NEW p \in Phones, Launch(p) PROVE Process'
  BY <1>1 DEF Launch, IInv, TypeOK, Process, authVars, Busy, Succeeded, Request
<1>2. ASSUME NEW p \in Phones,
             NewToken(p) \/ FieldsRefused(p) \/ \E u \in Accounts : SetDataDone(p, u)
      PROVE  Process'
  BY <1>2, ProcessKept DEF NewToken, FieldsRefused, SetDataDone, authVars
<1>3. ASSUME NEW p \in Phones, WillTerminate(p) \/ Killed(p) PROVE Process'
  BY <1>3, EndsProcess DEF WillTerminate, Killed
<1>4. ASSUME NEW p \in Phones,
             Navigate(p) \/ CoverLogin(p) \/ BackToLogin(p) \/ OpenRoom(p)
      PROVE  Process'
  <2>1. \A q \in Phones : (screen'[q] = "off") = (screen[q] = "off")
    BY <1>4 DEF Navigate, CoverLogin, BackToLogin, OpenRoom, Running, IInv, TypeOK
  <2> QED
    BY <1>4, <2>1, ProcessKept DEF Navigate, CoverLogin, BackToLogin, OpenRoom, authVars
<1>6. ASSUME NEW p \in Phones, NEW r \in Requests, Tapped(p, r) PROVE Process'
  BY <1>6 DEF Tapped, IInv, TypeOK, Process, Busy, Succeeded, Request
<1>8. ASSUME NEW p \in Phones, NEW i \in DOMAIN wire[p], Deliver(p, i) \/ Lose(p, i)
      PROVE  Process'
  BY <1>8, ProcessKept DEF Deliver, Lose, authVars
<1>9. CASE UNCHANGED vars
  BY <1>9, ProcessKept DEF vars, authVars
<1> QED
  BY <1>1, <1>2, <1>3, <1>4, <1>6, <1>8, <1>9, CompletionProcess,
     AnswerProcess DEF Next

LEMMA Invariant == Spec => []IInv
<1>1. IInv /\ [Next]_vars => IInv'
  BY TypeStep, ProcessStep DEF IInv
<1> QED
  BY InvariantInit, <1>1, PTL DEF Spec

\* Every variable keeps its type: above all, whoever's sign-in has succeeded is
\* somebody when the completion unwraps the current user (LoginViewController
\* 59-64).
THEOREM TypeCorrect == Spec => []TypeOK
<1>1. IInv => TypeOK
  BY DEF IInv
<1> QED
  BY <1>1, Invariant, PTL

-----------------------------------------------------------------------------
(* Nobody waits for nothing: what a step does to the requests under way.    *)

LEMMA WaitsKept ==
    ASSUME NEW p, NEW r, Waits(p, r), asked'[p] = asked[p], mainQueue'[p] = mainQueue[p]
    PROVE  Waits(p, r)'
BY DEF Waits

\* The completion that takes a request off the queue answers it.
LEMMA CompletionAnswers ==
    ASSUME IInv, NEW p \in Phones, NEW q \in Phones, Completion(q),
           NEW r \in Requests, Waits(p, r), ~Waits(p, r)'
    PROVE  ~OnShow(p, r[3])' \/ p \in error'
<1>1. /\ mainQueue[q] \in Seq(Completions) /\ mainQueue[q] # <<>>
      /\ mainQueue'[q] \in {mainQueue[q], Tail(mainQueue[q])}
      /\ \A x \in Phones \ {q} : mainQueue'[x] = mainQueue[x]
      /\ UNCHANGED <<asked, visit>>
  BY CompletionProcess DEF IInv, TypeOK
<1>2. p = q
  BY <1>1, WaitsKept
<1>3. mainQueue'[p] = Tail(mainQueue[p]) /\ mainQueue' # mainQueue
  BY <1>1, <1>2, WaitsKept
<1>4. r = Request(p)
  <2>1. PICK i \in 1..Len(mainQueue[p]) : mainQueue[p][i][1] = r
    BY <1>1 DEF Waits
  <2>2. CASE i = 1
    BY <1>1, <1>2, <2>1, <2>2, Shortened DEF Request
  <2>3. CASE i # 1
    <3>1. /\ Len(mainQueue'[p]) = Len(mainQueue[p]) - 1 /\ Len(mainQueue[p]) \in Nat
          /\ \A j \in 1..Len(mainQueue'[p]) : mainQueue'[p][j] = mainQueue[p][j + 1]
      <4> DEFINE s == mainQueue[p]
      <4>1. s \in Seq(Completions) /\ s # <<>> /\ mainQueue'[p] = Tail(s)
        BY <1>1, <1>2, <1>3
      <4>2. /\ Len(Tail(s)) = Len(s) - 1
            /\ \A j \in 1..Len(Tail(s)) : Tail(s)[j] = s[j + 1]
        BY <4>1, Shortened
      <4>3. Len(s) \in Nat
        BY <4>1
      <4> QED
        BY <4>1, <4>2, <4>3
    <3>2. i - 1 \in 1..Len(mainQueue'[p]) /\ (i - 1) + 1 = i
      BY <2>3, <3>1
    <3>3. mainQueue'[p][i - 1][1] = r
      BY <2>1, <3>1, <3>2
    <3> QED
      BY <3>2, <3>3 DEF Waits
  <2> QED
    BY <2>2, <2>3
<1>5. CASE SendToken(p) \/ CreateUserDone(p)
  <2>1. TransitionToHome(p, r[3])
    BY <1>4, <1>5 DEF SendToken, CreateUserDone
  <2> QED
    BY <1>1, <2>1 DEF TransitionToHome, OnShow, IInv, TypeOK
<1>6. CASE RequestFailed(p)
  BY <1>1, <1>4, <1>6 DEF RequestFailed, ShowError, OnShow, counts
<1>7. CASE StoreUser(p) \/ MarkOnline(p)
  BY <1>3, <1>7 DEF StoreUser, MarkOnline
<1> QED
  BY <1>2, <1>5, <1>6, <1>7 DEF Completion

\* An answer of FirebaseAuth is queued.
LEMMA AnswerQueued ==
    ASSUME IInv, NEW p \in Phones, NEW q \in Phones, NEW x \in Requests,
           AuthAnswers(q, x), NEW r \in Requests, Waits(p, r)
    PROVE  Waits(p, r)'
<1>1. PICK ok \in BOOLEAN : mainQueue' = [mainQueue EXCEPT ![q] = Append(@, <<x, ok>>)]
  BY DEF AuthAnswers
<1>2. /\ mainQueue[q] \in Seq(Completions) /\ <<x, ok>> \in Completions
      /\ mainQueue'[q] = Append(mainQueue[q], <<x, ok>>)
      /\ asked'[q] = asked[q] \ {x}
      /\ \A y \in Phones \ {q} : mainQueue'[y] = mainQueue[y] /\ asked'[y] = asked[y]
  BY <1>1 DEF AuthAnswers, IInv, TypeOK, Completions
<1>3. /\ Len(mainQueue'[q]) = Len(mainQueue[q]) + 1 /\ Len(mainQueue[q]) \in Nat
      /\ \A i \in 1..Len(mainQueue[q]) : mainQueue'[q][i] = mainQueue[q][i]
      /\ mainQueue'[q][Len(mainQueue[q]) + 1] = <<x, ok>>
  BY <1>2, Appended
<1>4. CASE p # q
  BY <1>2, <1>4, WaitsKept
<1>5. CASE p = q /\ r = x
  <2>1. Len(mainQueue[q]) + 1 \in 1..Len(mainQueue'[q])
    BY <1>3
  <2>2. mainQueue'[q][Len(mainQueue[q]) + 1][1] = x
    BY <1>3
  <2> QED
    BY <1>5, <2>1, <2>2 DEF Waits
<1>6. CASE p = q /\ r # x
  <2>1. ASSUME NEW i \in 1..Len(mainQueue[p]), mainQueue[p][i][1] = r
        PROVE  Waits(p, r)'
    <3>1. i \in 1..Len(mainQueue'[p]) /\ mainQueue'[p][i][1] = r
      BY <1>3, <1>6, <2>1
    <3> QED
      BY <3>1 DEF Waits
  <2>2. r \in asked[p] => r \in asked'[p]
    BY <1>2, <1>6
  <2> QED
    BY <2>1, <2>2 DEF Waits
<1> QED
  BY <1>4, <1>5, <1>6

LEMMA WaitsStep ==
    ASSUME IInv, [Next]_vars, NEW p \in Phones, NEW r \in Requests,
           Waits(p, r), ~Waits(p, r)'
    PROVE  ~OnShow(p, r[3])' \/ p \in error'
<1>1. ASSUME NEW q \in Phones, WillTerminate(q) \/ Killed(q)
      PROVE  ~OnShow(p, r[3])'
  <2>1. ProcessEnds(q)
    BY <1>1 DEF WillTerminate, Killed
  <2>2. /\ screen'[q] = "off"
        /\ \A x \in Phones \ {q} : asked'[x] = asked[x] /\ mainQueue'[x] = mainQueue[x]
    BY <2>1 DEF ProcessEnds, IInv, TypeOK
  <2>3. p = q
    BY <2>2, WaitsKept
  <2> QED
    BY <2>2, <2>3 DEF OnShow
<1>2. ASSUME NEW q \in Phones,
             \/ Launch(q) \/ NewToken(q) \/ Navigate(q) \/ FieldsRefused(q)
             \/ CoverLogin(q) \/ BackToLogin(q) \/ OpenRoom(q)
             \/ \E u \in Accounts : SetDataDone(q, u)
             \/ \E i \in DOMAIN wire[q] : Deliver(q, i) \/ Lose(q, i)
      PROVE  FALSE
  BY <1>2, WaitsKept DEF Launch, NewToken, Navigate, FieldsRefused, CoverLogin,
     BackToLogin, OpenRoom, SetDataDone, Deliver, Lose, authVars
<1>3. ASSUME NEW q \in Phones, NEW x \in Requests, Tapped(q, x)
      PROVE  FALSE
  <2>1. UNCHANGED mainQueue /\ asked[p] \subseteq asked'[p]
    BY <1>3 DEF Tapped, IInv, TypeOK
  <2> QED
    BY <2>1 DEF Waits
<1>4. CASE UNCHANGED vars
  BY <1>4, WaitsKept DEF vars, authVars
<1> QED
  BY <1>1, <1>2, <1>3, <1>4, CompletionAnswers, AnswerQueued DEF Next

LEMMA ErrorStep ==
    ASSUME IInv, [Next]_vars, NEW p \in error \ error'
    PROVE  visit'[p] # visit[p] \/ ~Running(p)'
<1>1. p \in Phones
  BY DEF IInv, TypeOK
<1>2. ASSUME NEW q \in Phones, WillTerminate(q) \/ Killed(q)
      PROVE  ~Running(p)'
  <2>1. ProcessEnds(q)
    BY <1>2 DEF WillTerminate, Killed
  <2> QED
    BY <1>1, <2>1 DEF ProcessEnds, Running, IInv, TypeOK
<1>3. ASSUME NEW q \in Phones, Navigate(q)
      PROVE  visit'[p] # visit[p]
  <2>1. p = q /\ visit[p] \in Nat
    BY <1>1, <1>3, PresenceAssumption DEF Navigate, IInv, TypeOK, Visits
  <2> QED
    BY <1>1, <1>3, <2>1 DEF Navigate, IInv, TypeOK
<1>4. ASSUME NEW q \in Phones,
             \/ Launch(q) \/ NewToken(q) \/ FieldsRefused(q)
             \/ CoverLogin(q) \/ BackToLogin(q) \/ OpenRoom(q)
             \/ \E r \in Requests : Tapped(q, r) \/ AuthAnswers(q, r)
             \/ \E i \in DOMAIN wire[q] : Deliver(q, i) \/ Lose(q, i)
      PROVE  FALSE
  BY <1>4 DEF Launch, NewToken, FieldsRefused, CoverLogin, BackToLogin, OpenRoom,
              Tapped, AuthAnswers, Deliver, Lose, labels
<1>5. ASSUME NEW q \in Phones, Completion(q)
      PROVE  FALSE
  BY <1>5 DEF Completion, StoreUser, MarkOnline, SendToken, CreateUserDone,
              RequestFailed, ShowError, labels
<1>6. ASSUME NEW q \in Phones, NEW u \in Accounts, SetDataDone(q, u)
      PROVE  FALSE
  BY <1>6 DEF SetDataDone, ShowError, labels
<1>7. CASE UNCHANGED vars
  BY <1>7 DEF vars, labels
<1> QED
  BY <1>2, <1>3, <1>4, <1>5, <1>6, <1>7 DEF Next

\* A request stops being under way only with its screen or with an error on it,
\* and the error stays as long as the screen, in whatever order taps, answers,
\* completions and changes of screen come (LoginViewController 52-78,
\* SignUpViewController 82-98).
THEOREM WaitersAreAnswered == Spec => NobodyIsForgotten
<1> DEFINE NoneForgotten ==
        \A p \in Phones :
            /\ \A r \in Requests :
                   Waits(p, r) /\ ~Waits(p, r)' => ~OnShow(p, r[3])' \/ p \in error'
            /\ p \in error \ error' => visit'[p] # visit[p] \/ ~Running(p)'
<1>1. IInv /\ [Next]_vars => [NoneForgotten]_vars
  BY WaitsStep, ErrorStep
<1> QED
  BY <1>1, Invariant, PTL DEF Spec, NobodyIsForgotten

-----------------------------------------------------------------------------
(* The refinement: the statics of every phone, as Session has them. *)

LEMMA SessionStep == IInv /\ [Next]_vars => [Statics!SessionNext]_Statics!sessionVars
<1> SUFFICES ASSUME IInv, [Next]_vars
             PROVE  [Statics!SessionNext]_Statics!sessionVars
  OBVIOUS
<1> USE DEF Statics!sessionVars, Statics!SessionNext, Running
<1>1. ASSUME NEW p \in Phones, Launch(p)
      PROVE  Statics!Starts(p)
  <2>1. \A q \in Phones : (screen'[q] # "off") = (q = p \/ screen[q] # "off")
    BY <1>1 DEF Launch, IInv, TypeOK
  <2> QED
    BY <1>1, <2>1 DEF Launch, Statics!Starts
<1>2. ASSUME NEW p \in Phones, WillTerminate(p) \/ Killed(p)
      PROVE  Statics!Ends(p)
  <2>1. ProcessEnds(p) /\ screen[p] # "off"
    BY <1>2 DEF WillTerminate, Killed
  <2>2. \A q \in Phones : (screen'[q] # "off") = (q # p /\ screen[q] # "off")
    BY <2>1 DEF ProcessEnds, IInv, TypeOK
  <2> QED
    BY <2>1, <2>2 DEF ProcessEnds, Statics!Ends
<1>3. ASSUME NEW p \in Phones, Completion(p)
      PROVE  \/ UNCHANGED Statics!sessionVars
             \/ \E u \in Accounts : Statics!SignedIn(p, u)
  BY <1>3, CompletionProcess DEF Statics!SignedIn
<1>4. ASSUME NEW p \in Phones,
             Navigate(p) \/ CoverLogin(p) \/ BackToLogin(p) \/ OpenRoom(p)
      PROVE  UNCHANGED Statics!sessionVars
  <2>1. \A q \in Phones : (screen'[q] # "off") = (screen[q] # "off")
    BY <1>4 DEF Navigate, CoverLogin, BackToLogin, OpenRoom, IInv, TypeOK
  <2> QED
    BY <1>4, <2>1 DEF Navigate, CoverLogin, BackToLogin, OpenRoom, statics
<1>5. ASSUME UNCHANGED <<screen, uid>>
      PROVE  UNCHANGED Statics!sessionVars
  BY <1>5
<1>6. ASSUME NEW p \in Phones,
             \/ NewToken(p) \/ FieldsRefused(p)
             \/ \E r \in Requests : Tapped(p, r) \/ AuthAnswers(p, r)
             \/ \E u \in Accounts : SetDataDone(p, u)
             \/ \E i \in DOMAIN wire[p] : Deliver(p, i) \/ Lose(p, i)
      PROVE  UNCHANGED <<screen, uid>>
  BY <1>6 DEF NewToken, FieldsRefused, Tapped, AuthAnswers, SetDataDone, Deliver, Lose,
              statics
<1>7. CASE UNCHANGED vars
  BY <1>5, <1>7 DEF vars, statics
<1> QED
  BY <1>1, <1>2, <1>3, <1>4, <1>5, <1>6, <1>7 DEF Next

\* Sign-ups, errors and late completions included, the statics start empty with
\* the process, are set by sign-ins only, and never go back to empty before it
\* ends (LoginViewController 52-60, SignUpViewController 82-98).
THEOREM Refinement == Spec => ImplementsSession
<1>1. Init => Statics!SessionInit
  BY DEF Init, Statics!SessionInit, Running
<1> QED
  BY <1>1, Invariant, SessionStep, PTL DEF Spec, ImplementsSession, Statics!SessionSpec

-----------------------------------------------------------------------------
(* Requests on one topic, as they lie on a wire. *)

LEMMA TopicOf ==
    ASSUME NEW m \in Messages, NEW u
    PROVE  /\ Topic(m) = <<"presence", u>> <=>
                  m.of = u /\ (m.op = "online" \/ m.op = "offline")
           /\ Topic(m) = <<"token", u>> <=> m.of = u /\ m.op = "setfcm"
BY DEF Topic, Messages

LEMMA Messaging ==
    ASSUME NEW u
    PROVE  /\ Status("online", u).op = "online" /\ Status("online", u).of = u
           /\ Status("offline", u).op = "offline" /\ Status("offline", u).of = u
           /\ \A t : /\ Setfcm(u, t).op = "setfcm" /\ Setfcm(u, t).of = u
                     /\ Setfcm(u, t).token = t
BY DEF Status, Setfcm

\* Where the request now k-th was, before the i-th was taken.
Was(i, k) == IF k < i THEN k ELSE k + 1

LEMMA TakenIs ==
    ASSUME NEW S, NEW s \in Seq(S), NEW i \in 1..Len(s)
    PROVE  /\ Len(s) \in Nat /\ Len(Without(s, i)) = Len(s) - 1
           /\ \A k \in 1..(Len(s) - 1) : /\ Without(s, i)[k] = s[Was(i, k)]
                                         /\ Was(i, k) \in 1..Len(s) /\ Was(i, k) # i
<1>1. /\ Len(Without(s, i)) = Len(s) - 1
      /\ \A k \in 1..(Len(s) - 1) :
             Without(s, i)[k] = IF k < i THEN s[k] ELSE s[k + 1]
  BY Taken
<1>2. Len(s) \in Nat
  OBVIOUS
<1>3. ASSUME NEW k \in 1..(Len(s) - 1)
      PROVE  Was(i, k) \in 1..Len(s) /\ Was(i, k) # i
  BY <1>2 DEF Was
<1>4. ASSUME NEW k \in 1..(Len(s) - 1)
      PROVE  Without(s, i)[k] = s[Was(i, k)]
  <2>1. CASE k < i
    BY <1>1, <2>1 DEF Was
  <2>2. CASE ~(k < i)
    BY <1>1, <2>2 DEF Was
  <2> QED
    BY <2>1, <2>2
<1> QED
  BY <1>1, <1>2, <1>3, <1>4

OfflineAfter(s, k, u) ==
    \E j \in 1..Len(s) : j > k /\ s[j].op = "offline" /\ s[j].of = u

LEMMA OfflineTaken ==
    ASSUME NEW s \in Seq(Messages), NEW i \in 1..Len(s), NEW k \in 0..(Len(s) - 1), NEW u,
           OfflineAfter(s, Was(i, k), u),
           ~(s[i].op = "offline" /\ s[i].of = u) \/ i < Was(i, k)
    PROVE  OfflineAfter(Without(s, i), k, u)
<1>1. PICK j \in 1..Len(s) : j > Was(i, k) /\ s[j].op = "offline" /\ s[j].of = u
  BY DEF OfflineAfter
<1>2. j # i /\ Len(s) \in Nat
  BY <1>1 DEF Was
<1> DEFINE n == IF j < i THEN j ELSE j - 1
<1>3. n \in 1..(Len(s) - 1) /\ n > k /\ Was(i, n) = j
  BY <1>1, <1>2 DEF Was
<1> HIDE DEF n
<1>4. Len(Without(s, i)) = Len(s) - 1 /\ Without(s, i)[n] = s[j]
  BY <1>3, TakenIs
<1> QED
  BY <1>1, <1>3, <1>4 DEF OfflineAfter

LEMMA OfflineKept ==
    ASSUME NEW s \in Seq(Messages), NEW x \in Messages, NEW k, NEW u, OfflineAfter(s, k, u)
    PROVE  OfflineAfter(Append(s, x), k, u)
BY Appended DEF OfflineAfter

\* The last request on a topic is one of G.
EndsIn(s, t, G) ==
    \A i \in 1..Len(s) :
        Topic(s[i]) = t => s[i] \in G \/ \E j \in 1..Len(s) : j > i /\ Topic(s[j]) = t

On(s, t) == \E i \in 1..Len(s) : Topic(s[i]) = t

\* Once all is handled, the server has been told what b says, and what the
\* requests of G say, unless the topic is among the doubted ones.
Told(d, s, t, G, b) == t \notin d => EndsIn(s, t, G) /\ (On(s, t) \/ b)

LEMMA ToldSent ==
    ASSUME NEW s \in Seq(Messages), NEW x \in Messages, NEW t, NEW G, NEW b, NEW d, NEW e,
           Topic(x) = t => x \in G,
           Topic(x) # t => Told(d, s, t, G, b) /\ (t \in d => t \in e)
    PROVE  Told(e, Append(s, x), t, G, b)
<1> DEFINE w == Append(s, x)
<1>1. /\ Len(w) = Len(s) + 1 /\ Len(s) \in Nat /\ w[Len(s) + 1] = x
      /\ \A i \in 1..Len(s) : w[i] = s[i]
  BY Appended
<1> HIDE DEF w
<1>2. CASE Topic(x) = t
  <2>1. Len(s) + 1 \in 1..Len(w) /\ Topic(w[Len(s) + 1]) = t /\ w[Len(s) + 1] \in G
    BY <1>1, <1>2
  <2>2. \A i \in 1..Len(w) : i = Len(s) + 1 \/ Len(s) + 1 > i
    BY <1>1
  <2>3. EndsIn(w, t, G)
    BY <2>1, <2>2 DEF EndsIn
  <2>4. On(w, t)
    BY <2>1 DEF On
  <2> QED
    BY <2>3, <2>4 DEF Told, w
<1>3. CASE Topic(x) # t
  <2> SUFFICES ASSUME t \notin e PROVE EndsIn(w, t, G) /\ (On(w, t) \/ b)
    BY DEF Told, w
  <2>1. EndsIn(s, t, G) /\ (On(s, t) \/ b)
    BY <1>3 DEF Told
  <2>2. \A i \in 1..Len(s) : i \in 1..Len(w)
    BY <1>1
  <2>3. On(s, t) => On(w, t)
    BY <1>1, <2>2 DEF On
  <2>4. ASSUME NEW i \in 1..Len(w), Topic(w[i]) = t
        PROVE  w[i] \in G \/ \E j \in 1..Len(w) : j > i /\ Topic(w[j]) = t
    <3>1. i \in 1..Len(s)
      BY <1>1, <1>3, <2>4
    <3> QED
      BY <1>1, <2>1, <2>2, <2>4, <3>1 DEF EndsIn
  <2> QED
    BY <2>1, <2>3, <2>4 DEF EndsIn
<1> QED
  BY <1>2, <1>3

LEMMA ToldTaken ==
    ASSUME NEW s \in Seq(Messages), NEW i \in 1..Len(s), NEW t, NEW G, NEW b, NEW c,
           NEW d, NEW e, Told(d, s, t, G, b), t \in d => t \in e,
           Topic(s[i]) # t /\ b => c,
           Topic(s[i]) = t /\ t \notin e =>
               /\ \A j \in 1..(i - 1) : Topic(s[j]) # t
               /\ s[i] \in G => c
    PROVE  Told(e, Without(s, i), t, G, c)
<1> DEFINE w == Without(s, i)
<1> SUFFICES ASSUME t \notin e PROVE EndsIn(w, t, G) /\ (On(w, t) \/ c)
  BY DEF Told
<1>1. EndsIn(s, t, G) /\ (On(s, t) \/ b)
  BY DEF Told
<1>2. /\ Len(w) = Len(s) - 1 /\ Len(s) \in Nat
      /\ \A k \in 1..(Len(s) - 1) : w[k] = s[Was(i, k)] /\ Was(i, k) \in 1..Len(s)
  BY TakenIs
<1> HIDE DEF w
<1>3. ASSUME NEW j \in 1..Len(s), j # i
      PROVE  \E n \in 1..Len(w) : Was(i, n) = j /\ w[n] = s[j]
  <2> DEFINE n == IF j < i THEN j ELSE j - 1
  <2>1. n \in 1..(Len(s) - 1) /\ Was(i, n) = j
    BY <1>2, <1>3 DEF Was
  <2> QED
    BY <1>2, <2>1
<1>4. ASSUME NEW k \in 1..Len(w), Topic(w[k]) = t
      PROVE  w[k] \in G \/ \E n \in 1..Len(w) : n > k /\ Topic(w[n]) = t
  <2>1. k \in 1..(Len(s) - 1) /\ Was(i, k) \in 1..Len(s) /\ w[k] = s[Was(i, k)]
    BY <1>2
  <2>2. CASE s[Was(i, k)] \in G
    BY <2>1, <2>2
  <2>3. CASE s[Was(i, k)] \notin G
    <3>1. PICK j \in 1..Len(s) : j > Was(i, k) /\ Topic(s[j]) = t
      BY <1>1, <1>4, <2>1, <2>3 DEF EndsIn
    <3>2. j # i
      <4>1. SUFFICES ASSUME j = i PROVE FALSE
        OBVIOUS
      <4>2. Was(i, k) \in 1..(i - 1)
        BY <2>1, <3>1, <4>1
      <4> QED
        BY <1>4, <2>1, <3>1, <4>1, <4>2
    <3>3. PICK n \in 1..Len(w) : Was(i, n) = j /\ w[n] = s[j]
      BY <1>3, <3>2
    <3>4. n > k
      BY <1>2, <3>1, <3>3 DEF Was
    <3> QED
      BY <3>1, <3>3, <3>4
  <2> QED
    BY <2>2, <2>3
<1>5. On(w, t) \/ c
  <2>1. CASE Topic(s[i]) # t
    <3>1. ASSUME On(s, t) PROVE On(w, t)
      <4>1. PICK j \in 1..Len(s) : Topic(s[j]) = t
        BY <3>1 DEF On
      <4>2. PICK n \in 1..Len(w) : w[n] = s[j]
        BY <1>3, <2>1, <4>1
      <4> QED
        BY <4>1, <4>2 DEF On
    <3> QED
      BY <1>1, <2>1, <3>1
  <2>2. CASE Topic(s[i]) = t /\ s[i] \in G
    BY <2>2
  <2>3. CASE Topic(s[i]) = t /\ s[i] \notin G
    <3>1. PICK j \in 1..Len(s) : j > i /\ Topic(s[j]) = t
      BY <1>1, <2>3 DEF EndsIn
    <3>2. PICK n \in 1..Len(w) : w[n] = s[j]
      BY <1>3, <3>1
    <3> QED
      BY <3>1, <3>2 DEF On
  <2> QED
    BY <2>1, <2>2, <2>3
<1> QED
  BY <1>4, <1>5 DEF EndsIn

-----------------------------------------------------------------------------
(* Whom the server has online.  Unless it is in doubt: everybody it has      *)
(* online is in use, left behind, or has an offline on its way; and an       *)
(* online on its way is followed by one, or still true.                      *)

InUse(p, u) == u \in stranded \/ u \in announced[p]

Covered(u) ==
    /\ u \in online =>
           \E p \in Phones : InUse(p, u) \/ OfflineAfter(wire[p], 0, u)
    /\ \A p \in Phones : \A i \in 1..Len(wire[p]) :
           wire[p][i].op = "online" /\ wire[p][i].of = u =>
               InUse(p, u) \/ OfflineAfter(wire[p], i, u)

Cover ==
    /\ online \subseteq users
    /\ \A u \in Accounts : <<"presence", u>> \notin doubted => Covered(u)

LEMMA CoverKept ==
    ASSUME Cover, UNCHANGED <<online, users, stranded, announced, wire>>,
           doubted \subseteq doubted'
    PROVE  Cover'
BY DEF Cover, Covered, InUse, OfflineAfter

\* A message is sent, on behalf of a running process.
LEMMA CoveredSent ==
    ASSUME IInv, NEW p \in Phones, NEW m \in Messages, NEW u \in Accounts, Covered(u),
           wire' = [wire EXCEPT ![p] = Append(@, m)], UNCHANGED online,
           \A q \in Phones : InUse(q, u) => InUse(q, u)',
           m.op = "online" /\ m.of = u => InUse(p, u)'
    PROVE  Covered(u)'
<1>1. /\ wire[p] \in Seq(Messages) /\ wire'[p] = Append(wire[p], m)
      /\ \A q \in Phones \ {p} : wire'[q] = wire[q]
  BY DEF IInv, TypeOK
<1>2. /\ Len(wire'[p]) = Len(wire[p]) + 1 /\ Len(wire[p]) \in Nat
      /\ \A i \in 1..Len(wire[p]) : wire'[p][i] = wire[p][i]
      /\ wire'[p][Len(wire[p]) + 1] = m
  BY <1>1, Appended
<1>3. ASSUME NEW q \in Phones, NEW k, OfflineAfter(wire[q], k, u)
      PROVE  OfflineAfter(wire'[q], k, u)
  BY <1>1, <1>3, OfflineKept
<1>4. u \in online' => \E q \in Phones : InUse(q, u)' \/ OfflineAfter(wire'[q], 0, u)
  BY <1>3 DEF Covered
<1>5. ASSUME NEW q \in Phones, NEW i \in 1..Len(wire'[q]),
             wire'[q][i].op = "online", wire'[q][i].of = u
      PROVE  InUse(q, u)' \/ OfflineAfter(wire'[q], i, u)
  <2>1. CASE i \in 1..Len(wire[q]) /\ wire'[q][i] = wire[q][i]
    BY <1>3, <1>5, <2>1 DEF Covered
  <2>2. CASE q = p /\ i = Len(wire[p]) + 1
    BY <1>2, <1>5, <2>2
  <2> QED
    BY <1>1, <1>2, <1>5, <2>1, <2>2
<1> QED
  BY <1>4, <1>5 DEF Covered, OfflineAfter

LEMMA CoverCompletion ==
    ASSUME IInv, Cover, NEW p \in Phones, Completion(p)
    PROVE  Cover'
<1> USE DEF server, spoken
<1>1. CASE MarkOnline(p)
  <2> DEFINE m == Status("online", currentUser[p])
  <2>1. currentUser[p] \in Accounts
    BY <1>1, ReadUser DEF MarkOnline, Busy
  <2>2. /\ m \in Messages /\ m.op = "online" /\ m.of = currentUser[p]
        /\ Topic(m) = <<"presence", m.of>>
    BY <2>1, MessageTypes, Messaging, TopicOf
  <2>3. /\ wire' = [wire EXCEPT ![p] = Append(@, m)] /\ UNCHANGED <<online, users>>
        /\ announced' = [announced EXCEPT ![p] = @ \cup {m.of}]
        /\ stranded' = IF UnderWay(Topic(m)) THEN stranded ELSE stranded \ {m.of}
        /\ doubted' = DoubtedAfter(m)
    BY <1>1 DEF MarkOnline
  <2> HIDE DEF m
  <2>4. /\ m.of \in announced'[p]
        /\ \A q \in Phones : announced[q] \subseteq announced'[q]
    BY <2>3 DEF IInv, TypeOK
  <2>5. ASSUME NEW u \in Accounts, <<"presence", u>> \notin doubted'
        PROVE  Covered(u)'
    <3>1. CASE u # m.of \/ UnderWay(Topic(m))
      <4>1. <<"presence", u>> \notin doubted
        BY <2>2, <2>3, <2>5, <3>1 DEF DoubtedAfter
      <4>2. \A q \in Phones : InUse(q, u) => InUse(q, u)'
        BY <2>3, <2>4, <3>1 DEF InUse
      <4>3. m.of = u => InUse(p, u)'
        BY <2>4 DEF InUse
      <4> QED
        BY <2>2, <2>3, <4>1, <4>2, <4>3, CoveredSent DEF Cover
    <3>2. CASE u = m.of /\ ~UnderWay(Topic(m))
      <4>1. /\ wire[p] \in Seq(Messages) /\ wire'[p] = Append(wire[p], m)
            /\ \A q \in Phones \ {p} : wire'[q] = wire[q]
        BY <2>3 DEF IInv, TypeOK
      <4>2. /\ Len(wire'[p]) = Len(wire[p]) + 1 /\ Len(wire[p]) \in Nat
            /\ \A i \in 1..Len(wire[p]) : wire'[p][i] = wire[p][i]
        BY <2>2, <4>1, Appended
      <4>3. ASSUME NEW q \in Phones, NEW i \in 1..Len(wire'[q]),
                   wire'[q][i].op = "online", wire'[q][i].of = u
            PROVE  q = p
        <5>1. SUFFICES ASSUME q # p PROVE FALSE
          OBVIOUS
        <5>2. wire[q] \in Seq(Messages) /\ wire'[q] = wire[q]
          BY <4>1, <5>1 DEF IInv, TypeOK
        <5>3. i \in DOMAIN wire[q] /\ wire[q][i] \in Messages
          BY <5>2
        <5>4. Topic(wire[q][i]) = <<"presence", u>>
          BY <4>3, <5>2, <5>3, TopicOf
        <5> QED
          BY <2>2, <3>2, <5>3, <5>4 DEF UnderWay
      <4>4. u \in announced'[p]
        BY <2>4, <3>2
      <4> QED
        BY <4>3, <4>4 DEF Covered, InUse
    <3> QED
      BY <3>1, <3>2
  <2> QED
    BY <2>3, <2>5 DEF Cover
<1>2. CASE SendToken(p)
  <2> DEFINE m == Setfcm(currentUser[p], Token(p))
  <2>1. currentUser[p] \in Accounts
    BY <1>2, ReadUser DEF SendToken, Busy
  <2>2. m \in Messages /\ m.op = "setfcm" /\ Topic(m) = <<"token", m.of>>
    BY <2>1, TokenType, MessageTypes, Messaging, TopicOf DEF IInv
  <2>3. /\ wire' = [wire EXCEPT ![p] = Append(@, m)]
        /\ UNCHANGED <<online, users, stranded, announced>>
        /\ doubted' = DoubtedAfter(m)
    BY <1>2 DEF SendToken
  <2> HIDE DEF m
  <2>4. ASSUME NEW u \in Accounts, <<"presence", u>> \notin doubted'
        PROVE  Covered(u)'
    <3>1. <<"presence", u>> \notin doubted
      BY <2>2, <2>3, <2>4 DEF DoubtedAfter
    <3>2. \A q \in Phones : InUse(q, u) => InUse(q, u)'
      BY <2>3 DEF InUse
    <3> QED
      BY <2>2, <2>3, <3>1, <3>2, CoveredSent DEF Cover
  <2> QED
    BY <2>3, <2>4 DEF Cover
<1>3. CASE StoreUser(p) \/ CreateUserDone(p) \/ RequestFailed(p)
  BY <1>3, CoverKept DEF StoreUser, CreateUserDone, RequestFailed
<1> QED
  BY <1>1, <1>2, <1>3 DEF Completion

\* The process ends: whomever it had announced is taken offline or stranded.
LEMMA CoverEnds ==
    ASSUME IInv, Cover, NEW p \in Phones, ProcessEnds(p), stranded \subseteq stranded',
           \/ UNCHANGED wire /\ announced[p] \subseteq stranded'
           \/ /\ uid[p] \in Accounts /\ announced[p] \subseteq stranded' \cup {uid[p]}
              /\ wire' = [wire EXCEPT ![p] = Append(@, Status("offline", uid[p]))]
    PROVE  Cover'
<1>1. /\ UNCHANGED <<online, users, doubted>> /\ wire[p] \in Seq(Messages)
      /\ \A q \in Phones \ {p} : announced'[q] = announced[q] /\ wire'[q] = wire[q]
  BY DEF ProcessEnds, IInv, TypeOK, server
<1>2. /\ Len(wire[p]) \in Nat /\ Len(wire'[p]) >= Len(wire[p]) /\ Len(wire'[p]) \in Nat
      /\ \A i \in 1..Len(wire[p]) : wire'[p][i] = wire[p][i]
      /\ \A i \in 1..Len(wire'[p]) : i > Len(wire[p]) => wire'[p][i].op # "online"
  <2>1. CASE UNCHANGED wire
    BY <1>1, <2>1
  <2>2. CASE /\ uid[p] \in Accounts
             /\ wire' = [wire EXCEPT ![p] = Append(@, Status("offline", uid[p]))]
    <3>1. wire'[p] = Append(wire[p], Status("offline", uid[p]))
      BY <2>2 DEF IInv, TypeOK
    <3>2. Status("offline", uid[p]) \in Messages
      BY <2>2, MessageTypes
    <3> QED
      BY <1>1, <3>1, <3>2, Appended, Messaging
  <2> QED
    BY <2>1, <2>2
<1>3. ASSUME NEW u \in announced[p]
      PROVE  \/ u \in stranded'
             \/ \A i \in 0..Len(wire[p]) : OfflineAfter(wire'[p], i, u)
  <2>1. CASE u \notin stranded'
    <3>1. /\ u = uid[p] /\ uid[p] \in Accounts
          /\ wire' = [wire EXCEPT ![p] = Append(@, Status("offline", u))]
      BY <2>1
    <3>2. wire'[p] = Append(wire[p], Status("offline", u)) /\ Status("offline", u) \in Messages
      BY <3>1, MessageTypes DEF IInv, TypeOK
    <3>3. /\ Len(wire'[p]) = Len(wire[p]) + 1
          /\ wire'[p][Len(wire[p]) + 1] = Status("offline", u)
      BY <1>1, <3>2, Appended
    <3>4. \A i \in 0..Len(wire[p]) : Len(wire[p]) + 1 \in 1..Len(wire'[p]) /\ Len(wire[p]) + 1 > i
      BY <1>2, <3>3
    <3> QED
      BY <3>3, <3>4, Messaging DEF OfflineAfter
  <2> QED
    BY <2>1
<1>4. ASSUME NEW q \in Phones, NEW i, NEW u, OfflineAfter(wire[q], i, u)
      PROVE  OfflineAfter(wire'[q], i, u)
  <2>1. CASE q = p
    BY <1>2, <1>4, <2>1 DEF OfflineAfter
  <2>2. CASE q # p
    BY <1>1, <1>4, <2>2 DEF OfflineAfter
  <2> QED
    BY <2>1, <2>2
<1>5. ASSUME NEW q \in Phones, NEW i \in 0..Len(wire[q]), NEW u, InUse(q, u)
      PROVE  InUse(q, u)' \/ OfflineAfter(wire'[q], i, u)
  BY <1>1, <1>3, <1>5 DEF InUse
<1>6. ASSUME NEW u \in Accounts, Covered(u)
      PROVE  Covered(u)'
  <2>1. u \in online' => \E q \in Phones : InUse(q, u)' \/ OfflineAfter(wire'[q], 0, u)
    <3>1. \A q \in Phones : 0 \in 0..Len(wire[q])
      BY DEF IInv, TypeOK
    <3> QED
      BY <1>1, <1>4, <1>5, <1>6, <3>1 DEF Covered
  <2>2. ASSUME NEW q \in Phones, NEW i \in 1..Len(wire'[q]),
               wire'[q][i].op = "online", wire'[q][i].of = u
        PROVE  InUse(q, u)' \/ OfflineAfter(wire'[q], i, u)
    <3>1. i \in 1..Len(wire[q]) /\ wire'[q][i] = wire[q][i]
      BY <1>1, <1>2, <2>2
    <3>2. i \in 0..Len(wire[q])
      BY <3>1
    <3> QED
      BY <1>4, <1>5, <1>6, <2>2, <3>1, <3>2 DEF Covered
  <2> QED
    BY <2>1, <2>2 DEF Covered, OfflineAfter
<1> QED
  BY <1>1, <1>6 DEF Cover

\* A request leaves the wire: it is handled, or lost, or overtakes another.
LEMMA CoverTaken ==
    ASSUME IInv, Cover, NEW p \in Phones, NEW i \in 1..Len(wire[p]),
           wire' = [wire EXCEPT ![p] = Without(@, i)], UNCHANGED <<stranded, announced>>,
           online' \subseteq users', doubted \subseteq doubted',
           NEW m \in Messages, m = wire[p][i],
           \A u \in Accounts : <<"presence", u>> \notin doubted' =>
               /\ Topic(m) = <<"presence", u>> =>
                      \A j \in 1..(i - 1) : Topic(wire[p][j]) # <<"presence", u>>
               /\ u \in online' => \/ m.op = "online" /\ m.of = u
                                   \/ u \in online /\ ~(m.op = "offline" /\ m.of = u)
    PROVE  Cover'
<1> DEFINE s == wire[p]
<1>1. /\ s \in Seq(Messages) /\ wire'[p] = Without(s, i)
      /\ \A q \in Phones \ {p} : wire'[q] = wire[q]
  BY DEF IInv, TypeOK
<1>2. /\ Len(s) \in Nat /\ Len(wire'[p]) = Len(s) - 1
      /\ \A k \in 1..(Len(s) - 1) : /\ wire'[p][k] = s[Was(i, k)]
                                    /\ Was(i, k) \in 1..Len(s) /\ Was(i, k) # i
  <2>1. s \in Seq(Messages) /\ i \in 1..Len(s)
    BY <1>1
  <2> HIDE DEF s
  <2>2. /\ Len(s) \in Nat /\ Len(Without(s, i)) = Len(s) - 1
        /\ \A k \in 1..(Len(s) - 1) : /\ Without(s, i)[k] = s[Was(i, k)]
                                      /\ Was(i, k) \in 1..Len(s) /\ Was(i, k) # i
    BY <2>1, TakenIs
  <2> QED
    BY <1>1, <2>2
<1> SUFFICES ASSUME NEW u \in Accounts, <<"presence", u>> \notin doubted'
             PROVE  Covered(u)'
  BY DEF Cover
<1>3. Covered(u)
  BY DEF Cover
<1>4. \A q \in Phones : InUse(q, u)' = InUse(q, u)
  BY DEF InUse
<1>5. u \in online' => \E q \in Phones : InUse(q, u)' \/ OfflineAfter(wire'[q], 0, u)
  <2> SUFFICES ASSUME u \in online'
               PROVE  \E q \in Phones : InUse(q, u)' \/ OfflineAfter(wire'[q], 0, u)
    OBVIOUS
  <2>1. 0 \in 0..(Len(s) - 1) /\ Was(i, 0) = 0
    BY <1>2 DEF Was
  <2>2. CASE u \in online /\ ~(m.op = "offline" /\ m.of = u)
    <3>1. PICK q \in Phones : InUse(q, u) \/ OfflineAfter(wire[q], 0, u)
      BY <1>3, <2>2 DEF Covered
    <3>2. OfflineAfter(wire[q], 0, u) => OfflineAfter(wire'[q], 0, u)
      BY <1>1, <2>1, <2>2, OfflineTaken
    <3> QED
      BY <1>4, <3>1, <3>2
  <2>3. CASE m.op = "online" /\ m.of = u
    <3>1. InUse(p, u) \/ OfflineAfter(s, i, u)
      BY <1>3, <2>3 DEF Covered
    <3>2. OfflineAfter(s, i, u) => OfflineAfter(s, 0, u)
      BY <1>2 DEF OfflineAfter
    <3>3. OfflineAfter(s, 0, u) => OfflineAfter(wire'[p], 0, u)
      BY <1>1, <2>1, <2>3, OfflineTaken
    <3> QED
      BY <1>4, <3>1, <3>2, <3>3
  <2> QED
    BY <2>2, <2>3
<1>6. ASSUME NEW q \in Phones, NEW k \in 1..Len(wire'[q]),
             wire'[q][k].op = "online", wire'[q][k].of = u
      PROVE  InUse(q, u)' \/ OfflineAfter(wire'[q], k, u)
  <2>1. CASE q # p
    BY <1>1, <1>3, <1>4, <1>6, <2>1 DEF Covered
  <2>2. CASE q = p
    <3>1. /\ k \in 1..(Len(s) - 1) /\ k \in 0..(Len(s) - 1) /\ Was(i, k) \in 1..Len(s)
          /\ wire'[p][k] = s[Was(i, k)] /\ s[Was(i, k)] \in Messages /\ Was(i, k) # i
      BY <1>1, <1>2, <2>2
    <3>2. InUse(p, u) \/ OfflineAfter(s, Was(i, k), u)
      BY <1>3, <1>6, <2>2, <3>1 DEF Covered
    <3>3. ~(m.op = "offline" /\ m.of = u) \/ i < Was(i, k)
      <4>1. SUFFICES ASSUME m.op = "offline", m.of = u, ~(i < Was(i, k)) PROVE FALSE
        OBVIOUS
      <4>2. Was(i, k) \in 1..(i - 1)
        BY <3>1, <4>1
      <4>3. Topic(m) = <<"presence", u>>
        BY <4>1, TopicOf
      <4>4. s[Was(i, k)].op = "online" /\ s[Was(i, k)].of = u
        BY <1>6, <2>2, <3>1
      <4>5. Topic(s[Was(i, k)]) = <<"presence", u>>
        BY <3>1, <4>4, TopicOf
      <4> QED
        BY <4>2, <4>3, <4>5
    <3>4. OfflineAfter(s, Was(i, k), u) => OfflineAfter(wire'[p], k, u)
      BY <1>1, <3>1, <3>3, OfflineTaken
    <3> QED
      BY <1>4, <2>2, <3>2, <3>4
  <2> QED
    BY <2>1, <2>2
<1> QED
  BY <1>5, <1>6 DEF Covered, OfflineAfter

LEMMA CoverStep == IInv /\ Cover /\ [Next]_vars => Cover'
<1> SUFFICES ASSUME IInv, Cover, [Next]_vars PROVE Cover'
  OBVIOUS
<1>1. ASSUME NEW p \in Phones, WillTerminate(p) PROVE Cover'
  <2>1. uid[p] \in Accounts \cup {NoUser} /\ announced[p] \subseteq Accounts
    BY DEF IInv, TypeOK
  <2>2. /\ ProcessEnds(p) /\ stranded \subseteq stranded'
        /\ announced[p] \subseteq stranded' \cup {uid[p]}
    BY <1>1 DEF WillTerminate
  <2>3. CASE uid[p] = NoUser
    <3>1. UNCHANGED wire
      BY <1>1, <2>3 DEF WillTerminate, IInv, TypeOK
    <3>2. announced[p] \subseteq stranded'
      BY <2>1, <2>2, <2>3, PresenceAssumption
    <3> QED
      BY <2>2, <3>1, <3>2, CoverEnds
  <2>4. CASE uid[p] # NoUser
    <3>1. wire' = [wire EXCEPT ![p] = Append(@, Status("offline", uid[p]))]
      BY <1>1, <2>4 DEF WillTerminate
    <3> QED
      BY <2>1, <2>2, <2>4, <3>1, CoverEnds
  <2> QED
    BY <2>3, <2>4
<1>2. ASSUME NEW p \in Phones, Killed(p) PROVE Cover'
  BY <1>2, CoverEnds DEF Killed
<1>3. ASSUME NEW p \in Phones, NEW i \in DOMAIN wire[p], Deliver(p, i) PROVE Cover'
  <2> DEFINE m == wire[p][i]
  <2>1. /\ i \in 1..Len(wire[p]) /\ m \in Messages /\ Update(m)
        /\ wire' = [wire EXCEPT ![p] = Without(@, i)] /\ UNCHANGED <<stranded, announced>>
    BY <1>3 DEF Deliver, IInv, TypeOK, spoken
  <2>2. /\ doubted \subseteq doubted'
        /\ Topic(m) \notin doubted' => \A j \in 1..(i - 1) : Topic(wire[p][j]) # Topic(m)
    BY <1>3 DEF Deliver
  <2> HIDE DEF m
  <2>3. online' \subseteq users'
    BY <2>1 DEF Update, Cover, server
  <2>4. ASSUME NEW u \in Accounts, u \in online'
        PROVE  \/ m.op = "online" /\ m.of = u
               \/ u \in online /\ ~(m.op = "offline" /\ m.of = u)
    BY <2>1, <2>4 DEF Update, Cover, server
  <2>5. ASSUME NEW u \in Accounts, <<"presence", u>> \notin doubted'
        PROVE  /\ Topic(m) = <<"presence", u>> =>
                      \A j \in 1..(i - 1) : Topic(wire[p][j]) # <<"presence", u>>
               /\ u \in online' => \/ m.op = "online" /\ m.of = u
                                   \/ u \in online /\ ~(m.op = "offline" /\ m.of = u)
    BY <2>2, <2>4, <2>5
  <2> QED
    BY <2>1, <2>2, <2>3, <2>5, CoverTaken DEF m
<1>4. ASSUME NEW p \in Phones, NEW u \in Accounts, SetDataDone(p, u) PROVE Cover'
  <2>1. /\ UNCHANGED <<stranded, announced, wire, doubted>>
        /\ online' \subseteq online /\ users \subseteq users'
    BY <1>4 DEF SetDataDone, server, spoken
  <2> QED
    BY <2>1 DEF Cover, Covered, InUse, OfflineAfter
<1>5. ASSUME NEW p \in Phones,
             \/ Launch(p) \/ NewToken(p) \/ Navigate(p) \/ FieldsRefused(p)
             \/ CoverLogin(p) \/ BackToLogin(p) \/ OpenRoom(p)
             \/ \E r \in Requests : Tapped(p, r) \/ AuthAnswers(p, r)
      PROVE  Cover'
  BY <1>5, CoverKept
     DEF Launch, NewToken, Navigate, FieldsRefused, CoverLogin, BackToLogin, OpenRoom,
         Tapped, AuthAnswers, server, spoken
<1>6. ASSUME NEW p \in Phones, NEW i \in DOMAIN wire[p], Lose(p, i) PROVE Cover'
  <2> DEFINE m == wire[p][i]
  <2>1. /\ i \in 1..Len(wire[p]) /\ m \in Messages
        /\ wire' = [wire EXCEPT ![p] = Without(@, i)] /\ UNCHANGED <<stranded, announced>>
        /\ UNCHANGED <<online, users>>
        /\ doubted \subseteq doubted' /\ Topic(m) \in doubted'
    BY <1>6 DEF Lose, IInv, TypeOK, spoken, server
  <2> HIDE DEF m
  <2>2. ASSUME NEW u \in Accounts, <<"presence", u>> \notin doubted'
        PROVE  ~(m.op = "offline" /\ m.of = u) /\ Topic(m) # <<"presence", u>>
    BY <2>1, <2>2, TopicOf
  <2>3. online' \subseteq users'
    BY <2>1 DEF Cover
  <2> QED
    BY <2>1, <2>2, <2>3, CoverTaken DEF m
<1>7. CASE UNCHANGED vars
  BY <1>7, CoverKept DEF vars, server, spoken
<1> QED
  BY <1>1, <1>2, <1>3, <1>4, <1>5, <1>6, <1>7, CoverCompletion DEF Next

\* Whom the server has online is in use or was left behind, on any number of
\* phones, whatever was lost or overtaken before the user last signed in
\* (LoginViewController 59-61, AppDelegate 127-130).
THEOREM OnlineAreInUse == Spec => []OnlineIsSomeonesDoing
<1>1. Init => Cover
  <2> SUFFICES ASSUME Init PROVE Cover
    OBVIOUS
  <2>1. ASSUME NEW p \in Phones PROVE Len(wire[p]) = 0
    BY DEF Init
  <2>2. ASSUME NEW p \in Phones PROVE 1..Len(wire[p]) = {}
    BY <2>1
  <2> QED
    BY <2>2 DEF Init, Cover, Covered
<1>2. IInv /\ Cover => OnlineIsSomeonesDoing
  <2> SUFFICES ASSUME IInv, Cover, NEW u \in online, Settled("presence", u), u \notin stranded
               PROVE  \E p \in Phones : u \in announced[p]
    BY DEF OnlineIsSomeonesDoing
  <2>1. PICK p \in Phones : InUse(p, u) \/ OfflineAfter(wire[p], 0, u)
    BY DEF Cover, Covered, Settled, IInv, TypeOK
  <2>2. ~OfflineAfter(wire[p], 0, u)
    <3>1. SUFFICES ASSUME NEW j \in 1..Len(wire[p]),
                          wire[p][j].op = "offline", wire[p][j].of = u
                   PROVE  FALSE
      BY DEF OfflineAfter
    <3>2. j \in DOMAIN wire[p] /\ wire[p][j] \in Messages
      BY DEF IInv, TypeOK
    <3>3. Topic(wire[p][j]) = <<"presence", u>>
      BY <3>1, <3>2, TopicOf
    <3>4. UnderWay(<<"presence", u>>)
      BY <3>2, <3>3 DEF UnderWay
    <3> QED
      BY <3>4 DEF Settled
  <2> QED
    BY <2>1, <2>2 DEF InUse
<1>3. Cover /\ IInv /\ [Next]_vars => Cover'
  BY CoverStep
<1> QED
  BY <1>1, <1>2, <1>3, Invariant, PTL DEF Spec

-----------------------------------------------------------------------------
(* What the server believes of whoever is signed in on the only phone.      *)

\* Only newcomers sign up: no write of a document can reset a member.
Newcomers ==
    /\ Members \subseteq users /\ Members \subseteq registered
    /\ \A p \in Phones :
           /\ documents[p] \cap Members = {}
           /\ \A i \in 1..Len(mainQueue[p]) :
                  mainQueue[p][i][2] /\ mainQueue[p][i][1][1] = "createUser" =>
                      mainQueue[p][i][1][2] \notin Members

SaysOnline == {m \in Messages : m.op = "online"}
Names(t) == {m \in Messages : m.token = t}

\* The only phone has told, or is telling, the server that whoever its process
\* announced is online, and the token of the launch for whomever it named.
AllTold ==
    \A p \in Phones : Phones = {p} =>
        /\ \A u \in announced[p] \cap Members :
               Told(doubted, wire[p], <<"presence", u>>, SaysOnline, u \in online)
        /\ \A u \in named[p] \cap Members :
               Told(doubted, wire[p], <<"token", u>>, Names(Token(p)),
                    fcmToken[u] = Token(p))

ServerInv == IInv /\ Newcomers /\ AllTold

LEMMA ServerInit == Init => Newcomers /\ AllTold
<1> SUFFICES ASSUME Init PROVE Newcomers /\ AllTold
  OBVIOUS
<1>1. ASSUME NEW p \in Phones
      PROVE  /\ documents[p] = {} /\ announced[p] = {} /\ named[p] = {}
             /\ 1..Len(mainQueue[p]) = {}
  <2>1. mainQueue[p] = <<>> /\ documents[p] = {} /\ announced[p] = {} /\ named[p] = {}
    BY DEF Init
  <2>2. Len(mainQueue[p]) = 0
    BY <2>1
  <2> QED
    BY <2>1, <2>2
<1> QED
  BY <1>1 DEF Init, Newcomers, AllTold

-----------------------------------------------------------------------------
(* Members have documents, and keep them as they are. *)

LEMMA NewcomersKept ==
    ASSUME Newcomers, users \subseteq users',
           UNCHANGED <<registered, documents, mainQueue>>
    PROVE  Newcomers'
BY DEF Newcomers

LEMMA NewcomersAnswer ==
    ASSUME IInv, Newcomers, NEW p \in Phones, NEW r \in Requests, AuthAnswers(p, r)
    PROVE  Newcomers'
<1>1. PICK ok \in BOOLEAN :
          /\ ok => (r[2] \in registered) = (r[1] = "signIn")
          /\ mainQueue' = [mainQueue EXCEPT ![p] = Append(@, <<r, ok>>)]
  BY DEF AuthAnswers
<1>2. /\ mainQueue[p] \in Seq(Completions) /\ <<r, ok>> \in Completions
      /\ mainQueue'[p] = Append(mainQueue[p], <<r, ok>>)
      /\ \A q \in Phones \ {p} : mainQueue'[q] = mainQueue[q]
  BY <1>1 DEF IInv, TypeOK, Completions
<1>3. UNCHANGED <<users, documents>> /\ registered \subseteq registered'
  BY DEF AuthAnswers, server, writes
<1>4. ok /\ r[1] = "createUser" => r[2] \notin Members
  BY <1>1 DEF Newcomers
<1>5. ASSUME NEW i \in 1..Len(mainQueue'[p]),
             mainQueue'[p][i][2], mainQueue'[p][i][1][1] = "createUser"
      PROVE  mainQueue'[p][i][1][2] \notin Members
  <2>1. \/ i \in 1..Len(mainQueue[p]) /\ mainQueue'[p][i] = mainQueue[p][i]
        \/ mainQueue'[p][i] = <<r, ok>>
    BY <1>2, Appended
  <2>2. CASE i \in 1..Len(mainQueue[p]) /\ mainQueue'[p][i] = mainQueue[p][i]
    BY <1>5, <2>2 DEF Newcomers
  <2>3. CASE mainQueue'[p][i] = <<r, ok>>
    BY <1>4, <1>5, <2>3
  <2> QED
    BY <2>1, <2>2, <2>3
<1> QED
  BY <1>2, <1>3, <1>5 DEF Newcomers

LEMMA NewcomersCompletion ==
    ASSUME IInv, Newcomers, NEW p \in Phones, Completion(p)
    PROVE  Newcomers'
<1>1. /\ mainQueue[p] \in Seq(Completions) /\ mainQueue[p] # <<>>
      /\ mainQueue'[p] \in {mainQueue[p], Tail(mainQueue[p])}
      /\ \A q \in Phones \ {p} : mainQueue'[q] = mainQueue[q]
  BY CompletionProcess DEF IInv, TypeOK
<1>2. UNCHANGED <<users, registered>>
  BY DEF Completion, StoreUser, MarkOnline, SendToken, CreateUserDone, RequestFailed,
         server
<1>3. Succeeded(p) /\ Request(p)[1] = "createUser" => Request(p)[2] \notin Members
  <2>1. Head(mainQueue[p]) = mainQueue[p][1] /\ 1 \in 1..Len(mainQueue[p])
    BY <1>1, Shortened
  <2> QED
    BY <2>1 DEF Newcomers, Succeeded, Request
<1>4. ASSUME NEW i \in 1..Len(mainQueue'[p]),
             mainQueue'[p][i][2], mainQueue'[p][i][1][1] = "createUser"
      PROVE  mainQueue'[p][i][1][2] \notin Members
  <2>1. CASE mainQueue'[p] = mainQueue[p]
    BY <1>4, <2>1 DEF Newcomers
  <2>2. CASE mainQueue'[p] = Tail(mainQueue[p])
    <3>1. i + 1 \in 1..Len(mainQueue[p]) /\ mainQueue'[p][i] = mainQueue[p][i + 1]
      BY <1>1, <2>2, Shortened
    <3> QED
      BY <1>4, <3>1 DEF Newcomers
  <2> QED
    BY <1>1, <2>1, <2>2
<1>5. \A q \in Phones : documents'[q] \cap Members = {}
  <2>1. CASE CreateUserDone(p)
    BY <1>3, <2>1 DEF CreateUserDone, Newcomers, IInv, TypeOK
  <2>2. CASE StoreUser(p) \/ MarkOnline(p) \/ SendToken(p) \/ RequestFailed(p)
    BY <2>2 DEF StoreUser, MarkOnline, SendToken, RequestFailed, writes, Newcomers
  <2> QED
    BY <2>1, <2>2 DEF Completion
<1> QED
  BY <1>1, <1>2, <1>4, <1>5 DEF Newcomers

LEMMA NewcomersStep == IInv /\ Newcomers /\ [Next]_vars => Newcomers'
<1> SUFFICES ASSUME IInv, Newcomers, [Next]_vars PROVE Newcomers'
  OBVIOUS
<1>1. ASSUME NEW p \in Phones,
             \/ Launch(p) \/ NewToken(p) \/ Navigate(p) \/ FieldsRefused(p)
             \/ CoverLogin(p) \/ BackToLogin(p) \/ OpenRoom(p)
             \/ \E r \in Requests : Tapped(p, r)
             \/ \E i \in DOMAIN wire[p] : Lose(p, i)
      PROVE  Newcomers'
  BY <1>1, NewcomersKept DEF Launch, NewToken, Navigate, FieldsRefused, CoverLogin,
     BackToLogin, OpenRoom, Tapped, Lose, authVars, writes, server
<1>2. ASSUME NEW p \in Phones, WillTerminate(p) \/ Killed(p) PROVE Newcomers'
  <2>1. ProcessEnds(p)
    BY <1>2 DEF WillTerminate, Killed
  <2>2. 1..Len(mainQueue'[p]) = {}
    <3>1. mainQueue'[p] = <<>>
      BY <2>1 DEF ProcessEnds, IInv, TypeOK
    <3>2. Len(mainQueue'[p]) = 0
      BY <3>1
    <3> QED
      BY <3>2
  <2>3. \A q \in Phones \ {p} : mainQueue'[q] = mainQueue[q]
    BY <2>1 DEF ProcessEnds, IInv, TypeOK
  <2> QED
    BY <2>1, <2>2, <2>3 DEF ProcessEnds, Newcomers, server
<1>3. ASSUME NEW p \in Phones, NEW u \in Accounts, SetDataDone(p, u) PROVE Newcomers'
  <2>1. UNCHANGED <<registered, mainQueue>> /\ users \subseteq users'
    BY <1>3 DEF SetDataDone, authVars, server
  <2>2. \A q \in Phones : documents'[q] \subseteq documents[q]
    BY <1>3 DEF SetDataDone, IInv, TypeOK
  <2> QED
    BY <2>1, <2>2 DEF Newcomers
<1>4. ASSUME NEW p \in Phones, NEW i \in DOMAIN wire[p], Deliver(p, i) PROVE Newcomers'
  BY <1>4, NewcomersKept DEF Deliver, Update, authVars, writes, server
<1>5. CASE UNCHANGED vars
  BY <1>5, NewcomersKept DEF vars, authVars, writes, server
<1> QED
  BY <1>1, <1>2, <1>3, <1>4, <1>5, NewcomersAnswer, NewcomersCompletion DEF Next

-----------------------------------------------------------------------------
(* Only a completion, and the server, change what there is to be told. *)

LEMMA AllToldKept ==
    ASSUME AllTold, UNCHANGED <<announced, named, wire, fcm, doubted>>,
           \A u \in Members : (u \in online <=> u \in online') /\ fcmToken'[u] = fcmToken[u]
    PROVE  AllTold'
<1> SUFFICES ASSUME NEW p \in Phones, Phones = {p}
             PROVE  /\ \A u \in announced[p] \cap Members :
                           Told(doubted, wire[p], <<"presence", u>>, SaysOnline, u \in online')
                    /\ \A u \in named[p] \cap Members :
                           Told(doubted, wire[p], <<"token", u>>, Names(Token(p)),
                                fcmToken'[u] = Token(p))
  BY DEF AllTold, Token
<1> QED
  BY DEF AllTold, Told

LEMMA AllToldCompletion ==
    ASSUME ServerInv, NEW p \in Phones, Completion(p)
    PROVE  AllTold'
<1> IInv /\ TypeOK /\ AllTold
  BY DEF ServerInv, IInv
<1> USE DEF server, spoken, statics
<1>1. CASE MarkOnline(p) \/ SendToken(p)
  <2> DEFINE m == IF reads[p] = 1 THEN Status("online", currentUser[p])
                  ELSE Setfcm(currentUser[p], Token(p))
  <2>1. currentUser[p] \in Accounts
    BY <1>1, ReadUser DEF MarkOnline, SendToken, Busy
  <2>2. m \in Messages /\ wire[p] \in Seq(Messages)
    BY <2>1, TokenType, MessageTypes DEF TypeOK
  <2>3. wire'[p] = Append(wire[p], m) /\ doubted' = DoubtedAfter(m)
    BY <1>1 DEF MarkOnline, SendToken, TypeOK
  <2>4. UNCHANGED <<online, fcmToken, fcm>> /\ Token(p)' = Token(p)
    BY <1>1 DEF MarkOnline, SendToken, Token
  <2>5. \A t : Topic(m) # t /\ t \in doubted => t \in doubted'
    BY <2>3 DEF DoubtedAfter
  <2>6. ASSUME NEW u \in announced'[p]
        PROVE  u \in announced[p] \/ Topic(m) = <<"presence", u>>
    <3>1. CASE reads[p] = 1
      BY <1>1, <2>1, <3>1 DEF MarkOnline, SendToken, TypeOK, Topic, Status
    <3>2. CASE reads[p] # 1
      BY <1>1, <3>2 DEF MarkOnline, SendToken
    <3> QED
      BY <3>1, <3>2
  <2>7. ASSUME NEW u \in named'[p]
        PROVE  u \in named[p] \/ Topic(m) = <<"token", u>>
    <3>1. CASE reads[p] = 1
      BY <1>1, <3>1 DEF MarkOnline, SendToken
    <3>2. CASE reads[p] # 1
      BY <1>1, <2>1, <3>2 DEF MarkOnline, SendToken, TypeOK, Topic, Setfcm
    <3> QED
      BY <3>1, <3>2
  <2>8. ASSUME NEW u, Topic(m) = <<"presence", u>>
        PROVE  m \in SaysOnline
    <3>1. reads[p] = 1
      BY <2>8 DEF Topic, Setfcm
    <3> QED
      BY <2>2, <3>1, Messaging DEF SaysOnline
  <2>9. ASSUME NEW u, Topic(m) = <<"token", u>>
        PROVE  m \in Names(Token(p))
    <3>1. reads[p] # 1
      BY <2>9 DEF Topic, Status
    <3>2. m = Setfcm(currentUser[p], Token(p))
      BY <3>1
    <3>3. m.token = Token(p)
      BY <3>2 DEF Setfcm
    <3> QED
      BY <2>2, <3>3 DEF Names
  <2> HIDE DEF m
  <2>10. ASSUME Phones = {p}, NEW u \in announced'[p] \cap Members
         PROVE  Told(doubted', wire'[p], <<"presence", u>>, SaysOnline, u \in online)
    <3> DEFINE t == <<"presence", u>>
    <3>1. Topic(m) # t => Told(doubted, wire[p], t, SaysOnline, u \in online)
      BY <2>6, <2>10 DEF AllTold
    <3>2. Topic(m) = t => m \in SaysOnline
      BY <2>8
    <3>3. Topic(m) # t => (t \in doubted => t \in doubted')
      BY <2>5
    <3> HIDE DEF t
    <3>4. Told(doubted', Append(wire[p], m), t, SaysOnline, u \in online)
      BY <2>2, <3>1, <3>2, <3>3, ToldSent
    <3> QED
      BY <2>3, <3>4 DEF t
  <2>11. ASSUME Phones = {p}, NEW u \in named'[p] \cap Members
         PROVE  Told(doubted', wire'[p], <<"token", u>>, Names(Token(p)),
                     fcmToken[u] = Token(p))
    <3> DEFINE t == <<"token", u>>
    <3>1. Topic(m) # t => Told(doubted, wire[p], t, Names(Token(p)), fcmToken[u] = Token(p))
      BY <2>7, <2>11 DEF AllTold
    <3>2. Topic(m) = t => m \in Names(Token(p))
      BY <2>9
    <3>3. Topic(m) # t => (t \in doubted => t \in doubted')
      BY <2>5
    <3> HIDE DEF t
    <3>4. Told(doubted', Append(wire[p], m), t, Names(Token(p)), fcmToken[u] = Token(p))
      BY <2>2, <3>1, <3>2, <3>3, ToldSent
    <3> QED
      BY <2>3, <3>4 DEF t
  <2> QED
    BY <2>4, <2>10, <2>11 DEF AllTold
<1>2. CASE StoreUser(p) \/ CreateUserDone(p) \/ RequestFailed(p)
  BY <1>2, AllToldKept DEF StoreUser, CreateUserDone, RequestFailed
<1> QED
  BY <1>1, <1>2 DEF Completion

\* A request of the only phone leaves the wire.
LEMMA AllToldTaken ==
    ASSUME ServerInv, NEW p \in Phones, Phones = {p}, NEW i \in DOMAIN wire[p],
           Deliver(p, i) \/ Lose(p, i)
    PROVE  AllTold'
<1> DEFINE m == wire[p][i]
<1> IInv /\ TypeOK /\ AllTold /\ Newcomers
  BY DEF ServerInv, IInv
<1>1. /\ i \in 1..Len(wire[p]) /\ wire[p] \in Seq(Messages) /\ m \in Messages
      /\ wire'[p] = Without(wire[p], i)
      /\ UNCHANGED <<announced, named>> /\ Token(p)' = Token(p)
  BY DEF Deliver, Lose, TypeOK, spoken, statics, Token
<1>2. \A t : t \in doubted => t \in doubted'
  BY DEF Deliver, Lose
<1>3. Topic(m) \notin doubted' => /\ Update(m)
                                 /\ \A j \in 1..(i - 1) : Topic(wire[p][j]) # Topic(m)
  BY DEF Deliver, Lose
<1>4. Update(m) \/ UNCHANGED server
  BY DEF Deliver, Lose
<1> HIDE DEF m
<1>5. ASSUME NEW u \in announced[p] \cap Members
      PROVE  Told(doubted', wire'[p], <<"presence", u>>, SaysOnline, u \in online')
  <2> DEFINE t == <<"presence", u>>
  <2>1. Told(doubted, wire[p], t, SaysOnline, u \in online)
    BY DEF AllTold
  <2>2. Topic(m) # t /\ u \in online => u \in online'
    BY <1>1, <1>4, TopicOf DEF Update, server
  <2>3. Topic(m) = t /\ t \notin doubted' => /\ \A j \in 1..(i - 1) : Topic(wire[p][j]) # t
                                             /\ m \in SaysOnline => u \in online'
    <3>1. SUFFICES ASSUME Topic(m) = t, t \notin doubted', m \in SaysOnline
                   PROVE  u \in online'
      BY <1>3
    <3>2. m.of = u /\ m.op = "online" /\ u \in users
      BY <1>1, <3>1, TopicOf DEF SaysOnline, Newcomers
    <3> QED
      BY <1>3, <3>1, <3>2 DEF Update
  <2> HIDE DEF t
  <2>4. Told(doubted', Without(wire[p], i), t, SaysOnline, u \in online')
    BY <1>1, <1>2, <2>1, <2>2, <2>3, ToldTaken DEF m
  <2> QED
    BY <1>1, <2>4 DEF t
<1>6. ASSUME NEW u \in named[p] \cap Members
      PROVE  Told(doubted', wire'[p], <<"token", u>>, Names(Token(p)), fcmToken'[u] = Token(p))
  <2> DEFINE t == <<"token", u>>
  <2>1. Told(doubted, wire[p], t, Names(Token(p)), fcmToken[u] = Token(p))
    BY DEF AllTold
  <2>2. Topic(m) # t /\ fcmToken[u] = Token(p) => fcmToken'[u] = Token(p)
    BY <1>1, <1>4, TopicOf DEF Update, server, TypeOK
  <2>3. Topic(m) = t /\ t \notin doubted' =>
            /\ \A j \in 1..(i - 1) : Topic(wire[p][j]) # t
            /\ m \in Names(Token(p)) => fcmToken'[u] = Token(p)
    <3>1. SUFFICES ASSUME Topic(m) = t, t \notin doubted', m \in Names(Token(p))
                   PROVE  fcmToken'[u] = Token(p)
      BY <1>3
    <3>2. m.of = u /\ m.op = "setfcm" /\ m.token = Token(p) /\ u \in users /\ u \in Accounts
      BY <1>1, <3>1, TopicOf, PresenceAssumption DEF Names, Newcomers
    <3> QED
      BY <1>3, <3>1, <3>2 DEF Update, TypeOK
  <2> HIDE DEF t
  <2>4. Told(doubted', Without(wire[p], i), t, Names(Token(p)), fcmToken'[u] = Token(p))
    BY <1>1, <1>2, <2>1, <2>2, <2>3, ToldTaken DEF m
  <2> QED
    BY <1>1, <2>4 DEF t
<1> QED
  BY <1>1, <1>5, <1>6 DEF AllTold

LEMMA AllToldStep == ServerInv /\ [Next]_vars => AllTold'
<1> SUFFICES ASSUME ServerInv, [Next]_vars PROVE AllTold'
  OBVIOUS
<1> IInv /\ Newcomers /\ AllTold
  BY DEF ServerInv
<1> USE DEF spoken
<1>1. ASSUME NEW p \in Phones, Launch(p) PROVE AllTold'
  <2>1. announced[p] = {} /\ named[p] = {} /\ UNCHANGED <<announced, named>>
    BY <1>1 DEF Launch, IInv, Process, Running
  <2> QED
    BY <2>1 DEF AllTold
<1>2. ASSUME NEW p \in Phones, WillTerminate(p) \/ Killed(p) PROVE AllTold'
  <2>1. announced'[p] = {} /\ named'[p] = {}
    BY <1>2 DEF WillTerminate, Killed, ProcessEnds, IInv, TypeOK
  <2> QED
    BY <2>1 DEF AllTold
<1>3. ASSUME NEW p \in Phones,
             \/ NewToken(p) \/ Navigate(p) \/ FieldsRefused(p)
             \/ CoverLogin(p) \/ BackToLogin(p) \/ OpenRoom(p)
             \/ \E r \in Requests : Tapped(p, r) \/ AuthAnswers(p, r)
      PROVE  AllTold'
  BY <1>3, AllToldKept DEF NewToken, Navigate, FieldsRefused, CoverLogin, BackToLogin,
     OpenRoom, Tapped, AuthAnswers, statics, server
<1>4. ASSUME NEW p \in Phones, NEW u \in Accounts, SetDataDone(p, u) PROVE AllTold'
  <2>1. u \notin Members
    BY <1>4 DEF SetDataDone, Newcomers
  <2>2. \A v \in Members : /\ v \in online <=> v \in online'
                           /\ fcmToken'[v] = fcmToken[v]
    BY <1>4, <2>1, PresenceAssumption DEF SetDataDone, server, IInv, TypeOK
  <2> QED
    BY <1>4, <2>2, AllToldKept DEF SetDataDone, statics
<1>5. ASSUME NEW p \in Phones, NEW i \in DOMAIN wire[p], Deliver(p, i) \/ Lose(p, i)
      PROVE  AllTold'
  <2>1. CASE Phones = {p}
    BY <1>5, <2>1, AllToldTaken
  <2>2. CASE Phones # {p}
    BY <2>2 DEF AllTold
  <2> QED
    BY <2>1, <2>2
<1>6. CASE UNCHANGED vars
  BY <1>6, AllToldKept DEF vars, statics, server
<1> QED
  BY <1>1, <1>2, <1>3, <1>4, <1>5, <1>6, AllToldCompletion DEF Next

LEMMA ServerInvariant == Spec => []ServerInv
<1>1. Init => ServerInv
  BY InvariantInit, ServerInit DEF ServerInv
<1>2. ServerInv /\ [Next]_vars => ServerInv'
  BY TypeStep, ProcessStep, NewcomersStep, AllToldStep DEF ServerInv, IInv
<1> QED
  BY <1>1, <1>2, PTL DEF Spec

LEMMA NothingOn ==
    ASSUME IInv, NEW p \in Phones, NEW t, ~UnderWay(t)
    PROVE  ~On(wire[p], t)
<1>1. DOMAIN wire[p] = 1..Len(wire[p])
  BY DEF IInv, TypeOK
<1> QED
  BY <1>1 DEF On, UnderWay

-----------------------------------------------------------------------------
\* With one phone, a member whom the running process has announced is online
\* once nothing about it is under way, whatever was sent, lost or overtaken
\* before (LoginViewController 61, AppDelegate 128).
THEOREM SignedInAreOnline == Spec => []SignedInIsOnline
<1>1. ServerInv => SignedInIsOnline
  <2> SUFFICES ASSUME ServerInv, NEW p \in Phones, Phones = {p},
                      NEW u \in announced[p] \cap Members, Settled("presence", u)
               PROVE  u \in online
    BY DEF SignedInIsOnline
  <2>1. Told(doubted, wire[p], <<"presence", u>>, SaysOnline, u \in online)
    BY DEF ServerInv, AllTold
  <2>2. ~On(wire[p], <<"presence", u>>)
    BY NothingOn DEF Settled, ServerInv
  <2> QED
    BY <2>1, <2>2 DEF Told, Settled
<1> QED
  BY <1>1, ServerInvariant, PTL

\* And the server rings whomever the process named to setfcm, at the third read
\* of the current user, by the token the process was launched with, however many
\* tokens have come since (AppDelegate 47 and 54-61, LoginViewController 63-64).
THEOREM LaunchTokenIsServed == Spec => []ServerHasLaunchToken
<1>1. ServerInv => ServerHasLaunchToken
  <2> SUFFICES ASSUME ServerInv, NEW p \in Phones, Phones = {p},
                      NEW u \in named[p] \cap Members, Settled("token", u)
               PROVE  fcmToken[u] = Token(p)
    BY DEF ServerHasLaunchToken
  <2>1. Told(doubted, wire[p], <<"token", u>>, Names(Token(p)), fcmToken[u] = Token(p))
    BY DEF ServerInv, AllTold
  <2>2. ~On(wire[p], <<"token", u>>)
    BY NothingOn DEF Settled, ServerInv
  <2> QED
    BY <2>1, <2>2 DEF Told, Settled
<1> QED
  BY <1>1, ServerInvariant, PTL
=============================================================================
