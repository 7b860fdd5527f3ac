--------------------------- MODULE OnlineListProofs ---------------------------
(***************************************************************************)
(* Theorems about OnlineList, for any accounts and lists of any length.    *)
(***************************************************************************)
EXTENDS OnlineList, SequenceTheorems, TLAPS

\* What the table was told, and what it drew, is of the array there is, for the
\* array is assigned once and was empty before.
TableOfArray ==
    /\ screen = "new" => request = "idle"
    /\ request # "done" => allOnlineUsers = <<>>
    /\ rows <= Len(allOnlineUsers)
    /\ \A i \in DOMAIN cells : cells[i] = allOnlineUsers[i]

DeadOfNil ==
    /\ crash # "none" => screen = "dead"
    /\ OnlyNilFieldsKill

IInv == TypeOK /\ TableOfArray /\ DeadOfNil /\ RungIsShown /\ ListIsComing

LEMMA Lists ==
    ASSUME NEW list \in BoundedSeq(Entries, MaxLength)
    PROVE  list \in Seq(Entries)
<1>1. PICK m \in 0..MaxLength : list \in [1..m -> Entries]
  BY DEF BoundedSeq, SeqOf
<1>2. m \in Nat
  BY OnlineListAssumption
<1> QED
  BY <1>1, <1>2, SeqDef

LEMMA Appended ==
    ASSUME NEW S, NEW s \in Seq(S), NEW x \in S
    PROVE  /\ Append(s, x) \in Seq(S) /\ Len(Append(s, x)) = Len(s) + 1
           /\ DOMAIN Append(s, x) = 1..(Len(s) + 1)
           /\ \A i \in 1..Len(s) : Append(s, x)[i] = s[i]
           /\ Append(s, x)[Len(s) + 1] = x
OBVIOUS

\* A row that is drawn, or only counted, is not past the end of the array.
LEMMA RowsAreInArray ==
    ASSUME TypeOK, TableOfArray, NEW i \in 1..rows
    PROVE  /\ i \in DOMAIN allOnlineUsers /\ i \in Nat
           /\ allOnlineUsers[i] \in Entries
           /\ ~(i > Len(allOnlineUsers))
           /\ ~Unreadable(i) => allOnlineUsers[i] \in Accounts
<1>1. i \in Nat /\ Len(allOnlineUsers) \in Nat /\ i <= Len(allOnlineUsers) /\ i >= 1
  BY DEF TypeOK, TableOfArray
<1>2. i \in DOMAIN allOnlineUsers
  BY <1>1 DEF TypeOK
<1>3. allOnlineUsers[i] \in Entries
  BY <1>2 DEF TypeOK
<1> QED
  BY <1>1, <1>2, <1>3 DEF Unreadable, Entries

LEMMA InvariantInit == Init => IInv
<1> SUFFICES ASSUME Init PROVE IInv
  OBVIOUS
<1>1. TypeOK
  <2>1. DOMAIN cells = {}
    BY DEF Init, NoCells
  <2>2. allOnlineUsers \in Seq(Entries) /\ calls \in Seq(Call)
    BY DEF Init
  <2> QED
    BY <2>1, <2>2 DEF Init, TypeOK
<1>2. TableOfArray /\ DeadOfNil /\ RungIsShown /\ ListIsComing
  BY DEF Init, TableOfArray, DeadOfNil, OnlyNilFieldsKill, RungIsShown, NoCells,
      ListIsComing
<1> QED
  BY <1>1, <1>2 DEF IInv

-----------------------------------------------------------------------------
(* The steps that count, draw or tap rows, and the answer. *)

LEMMA ArriveStep == IInv /\ OnlineUsersArrive => IInv'
<1> SUFFICES ASSUME IInv, OnlineUsersArrive PROVE IInv'
  OBVIOUS
<1> USE DEF IInv, OnlineUsersArrive
<1>1. allOnlineUsers' \in Seq(Entries)
  BY Lists DEF TypeOK
<1>2. allOnlineUsers = <<>> /\ rows = 0 /\ DOMAIN cells = {}
  <2>1. allOnlineUsers = <<>> /\ rows \in Nat /\ rows <= 0
    BY DEF TableOfArray, TypeOK
  <2>2. rows = 0
    BY <2>1
  <2>3. DOMAIN cells \subseteq 1..0
    BY <2>2 DEF TypeOK
  <2> QED
    BY <2>1, <2>2, <2>3
<1>3. TypeOK'
  BY <1>1 DEF TypeOK
<1>4. TableOfArray'
  BY <1>1, <1>2 DEF TypeOK, TableOfArray
<1>5. crash = "none"
  BY <1>2 DEF DeadOfNil, OnlyNilFieldsKill, TypeOK
<1>6. DeadOfNil' /\ RungIsShown'
  BY <1>5 DEF DeadOfNil, OnlyNilFieldsKill, RungIsShown
<1>7. ListIsComing'
  <2>1. Len(allOnlineUsers) = 0 /\ rows = 0
    BY <1>2
  <2> QED
    BY <2>1 DEF ListIsComing
<1> QED
  BY <1>3, <1>4, <1>6, <1>7

LEMMA CountStep == IInv /\ (Layout \/ ReloadData) => IInv'
<1> SUFFICES ASSUME IInv, Layout \/ ReloadData PROVE IInv'
  OBVIOUS
<1> USE DEF IInv, Layout, ReloadData, NumberOfRowsInSection, NoCells
<1>1. rows' = Len(allOnlineUsers) /\ rows' \in Nat /\ DOMAIN cells' = {}
  BY DEF TypeOK
<1>2. TypeOK'
  BY <1>1 DEF TypeOK
<1>3. TableOfArray'
  BY <1>1 DEF TableOfArray, TypeOK
<1>4. DeadOfNil' /\ RungIsShown'
  BY DEF DeadOfNil, OnlyNilFieldsKill, RungIsShown
<1>5. ListIsComing'
  BY <1>1 DEF ListIsComing
<1> QED
  BY <1>2, <1>3, <1>4, <1>5

LEMMA DiesStep ==
    ASSUME IInv, NEW i \in 1..rows, Unreadable(i), Dies(i)
    PROVE  IInv'
<1> USE DEF IInv, Dies
<1>1. i \in DOMAIN allOnlineUsers /\ allOnlineUsers[i] = Incomplete
      /\ crash' = "nilField"
  BY RowsAreInArray DEF Unreadable
<1>2. TypeOK' /\ TableOfArray' /\ RungIsShown'
  BY <1>1 DEF TypeOK, TableOfArray, RungIsShown
<1>3. DeadOfNil' /\ ListIsComing'
  BY <1>1 DEF DeadOfNil, OnlyNilFieldsKill, ListIsComing
<1> QED
  BY <1>2, <1>3

LEMMA CellStep ==
    ASSUME IInv, NEW i \in 1..rows, CellForRowAt(i)
    PROVE  IInv'
<1> USE DEF IInv, CellForRowAt
<1>1. CASE Unreadable(i) /\ Dies(i)
  BY <1>1, DiesStep
<1>2. CASE ~Unreadable(i) /\ ~(Unreadable(i) /\ Dies(i))
  <2>1. allOnlineUsers[i] \in Accounts /\ i \in 1..rows
    BY <1>2, RowsAreInArray
  <2>2. /\ DOMAIN cells' = DOMAIN cells \cup {i}
        /\ \A j \in DOMAIN cells' :
               cells'[j] = IF j = i THEN allOnlineUsers[i] ELSE cells[j]
    BY <1>2
  <2>3. TypeOK'
    BY <1>2, <2>1, <2>2 DEF TypeOK
  <2>4. TableOfArray'
    BY <1>2, <2>2 DEF TableOfArray
  <2>5. DeadOfNil' /\ RungIsShown' /\ ListIsComing'
    BY <1>2 DEF DeadOfNil, OnlyNilFieldsKill, RungIsShown, ListIsComing
  <2> QED
    BY <2>3, <2>4, <2>5
<1> QED
  BY <1>1, <1>2

LEMMA TapStep ==
    ASSUME IInv, NEW i \in 1..rows, DidSelectRowAt(i)
    PROVE  IInv'
<1> USE DEF IInv, DidSelectRowAt
<1>1. CASE Unreadable(i) /\ Dies(i)
  BY <1>1, DiesStep
<1>2. CASE ~Unreadable(i) /\ ~(Unreadable(i) /\ Dies(i))
  <2> DEFINE tapped == [shown |-> cells[i], rung |-> allOnlineUsers[i]]
  <2>1. allOnlineUsers[i] \in Accounts /\ cells[i] = allOnlineUsers[i]
    BY <1>2, RowsAreInArray DEF TableOfArray
  <2>2. calls' = Append(calls, tapped) /\ tapped \in Call /\ calls \in Seq(Call)
    BY <1>2, <2>1 DEF Prepare, Call, TypeOK
  <2> HIDE DEF tapped
  <2>3. calls' \in Seq(Call)
    BY <2>2, Appended
  <2>4. TypeOK'
    BY <1>2, <2>1, <2>3 DEF TypeOK
  <2>5. tapped.rung = tapped.shown
    BY <2>1 DEF tapped
  <2>6. \A k \in DOMAIN calls' : calls'[k].rung = calls'[k].shown
    <3> TAKE k \in DOMAIN calls'
    <3>1. /\ DOMAIN calls = 1..Len(calls) /\ Len(calls) \in Nat
          /\ k \in 1..(Len(calls) + 1)
      BY <2>2, Appended
    <3>2. CASE k = Len(calls) + 1
      BY <2>2, <2>5, <3>2, Appended
    <3>3. CASE k \in 1..Len(calls)
      <4>1. calls'[k] = calls[k]
        BY <2>2, <3>3, Appended
      <4> QED
        BY <3>1, <3>3, <4>1 DEF RungIsShown
    <3> QED
      BY <3>1, <3>2, <3>3
  <2>7. TableOfArray' /\ DeadOfNil' /\ ListIsComing'
    BY <1>2 DEF TableOfArray, DeadOfNil, OnlyNilFieldsKill, ListIsComing
  <2> QED
    BY <2>4, <2>6, <2>7 DEF RungIsShown
<1> QED
  BY <1>1, <1>2

LEMMA InvariantNext == IInv /\ [Next]_vars => IInv'
<1> SUFFICES ASSUME IInv, [Next]_vars PROVE IInv'
  OBVIOUS
<1>1. CASE ViewDidLoad
  BY <1>1 DEF IInv, ViewDidLoad, FindOnlineUsers, TypeOK, TableOfArray, DeadOfNil,
      OnlyNilFieldsKill, RungIsShown, ListIsComing
<1>2. CASE OnlineUsersArrive
  BY <1>2, ArriveStep
<1>3. CASE Layout \/ ReloadData
  BY <1>3, CountStep
<1>4. CASE Uncovered \/ Leave
  BY <1>4 DEF IInv, Uncovered, Leave, TypeOK, TableOfArray, DeadOfNil,
      OnlyNilFieldsKill, RungIsShown, ListIsComing
<1>5. ASSUME NEW i \in 1..rows, CellForRowAt(i) PROVE IInv'
  BY <1>5, CellStep
<1>6. ASSUME NEW i \in 1..rows, DidSelectRowAt(i) PROVE IInv'
  BY <1>6, TapStep
<1>7. CASE UNCHANGED vars
  BY <1>7 DEF vars, IInv, TypeOK, TableOfArray, DeadOfNil, OnlyNilFieldsKill,
      RungIsShown, ListIsComing
<1> QED
  BY <1>1, <1>2, <1>3, <1>4, <1>5, <1>6, <1>7 DEF Next

LEMMA Inductive == Spec => []IInv
BY InvariantInit, InvariantNext, PTL DEF Spec

-----------------------------------------------------------------------------
\* Every variable of the list keeps its type; no drawn row is one the table was
\* not told of. (OnlineUsersTableViewController 12-112)
THEOREM TypeCorrect == Spec => []TypeOK
<1>1. IInv => TypeOK
  BY DEF IInv
<1> QED
  BY <1>1, Inductive, PTL

\* Whoever is rung is the one the tapped row showed, for lists of any length and
\* any order of cells and taps. (OnlineUsersTableViewController 81-95, 103-111)
THEOREM ShownAreRung == Spec => []RungIsShown
<1>1. IInv => RungIsShown
  BY DEF IInv
<1> QED
  BY <1>1, Inductive, PTL

\* The race on the array never leads past its end; only an element without a
\* field kills. (OnlineUsersTableViewController 35-37, 73-95)
THEOREM KilledByNil == Spec => []OnlyNilFieldsKill
<1>1. IInv => OnlyNilFieldsKill
  BY DEF IInv, DeadOfNil
<1> QED
  BY <1>1, Inductive, PTL

\* Between the answer and the table nothing loses the list: it is shown, or its
\* reloadData is queued. (OnlineUsersTableViewController 35-38, 73-76)
THEOREM ArrivedIsComing == Spec => []ListIsComing
<1>1. IInv => ListIsComing
  BY DEF IInv
<1> QED
  BY <1>1, Inductive, PTL
=============================================================================
