----------------------------- MODULE OnlineList -----------------------------
(***************************************************************************)
(* One life of a table of online users, OnlineUsersTableViewController or  *)
(* its audio twin: the two classes differ in the screen a tap leads to.    *)
(*                                                                         *)
(* The list is requested once.  Its completion assigns the array on a      *)
(* URLSession thread and posts reloadData to the main queue, while the     *)
(* main thread lays the table out, draws cells and handles taps.  The race *)
(* on the array is over one word, and what it replaces is the empty array, *)
(* which is never freed: a read gives the old array or the new one.        *)
(***************************************************************************)
EXTENDS Naturals, Sequences, SequencesExt

CONSTANTS
    Accounts,
    Incomplete,     \* an element without a first name, a last name or a uid
    NoUser,         \* the empty string
    Sheet,          \* is the call screen a sheet? (the audio list's is)
    MaxLength,      \* bound on the length of the list
    MaxCalls        \* bound on the rows tapped

ASSUME OnlineListAssumption ==
    /\ Incomplete \notin Accounts /\ NoUser \notin Accounts
    /\ Sheet \in BOOLEAN
    /\ MaxLength \in Nat /\ MaxCalls \in Nat

VARIABLES
    screen,         \* the list, what covers it, or what became of it
    request,        \* the request for the list
    allOnlineUsers,
    reload,         \* is reloadData on the main queue?
    laidOut,        \* has the table asked for its number of rows?
    rows,           \* the number it was told
    cells,          \* whom each drawn row shows
    userUID,        \* written by cells and taps alike
    calls,          \* whom the tapped row showed and whom calluser rang
    crash           \* why the process died

vars == <<screen, request, allOnlineUsers, reload, laidOut, rows, cells,
          userUID, calls, crash>>

Entries == Accounts \cup {Incomplete}
Call == [shown : Accounts, rung : Accounts]

TypeOK ==
    /\ screen \in {"new", "list", "call", "gone", "dead"}
    /\ request \in {"idle", "pending", "done"}
    /\ allOnlineUsers \in Seq(Entries)
    /\ reload \in BOOLEAN /\ laidOut \in BOOLEAN
    /\ rows \in Nat
    /\ DOMAIN cells \subseteq 1..rows
    /\ \A i \in DOMAIN cells : cells[i] \in Accounts
    /\ userUID \in Accounts \cup {NoUser}
    /\ calls \in Seq(Call)
    /\ crash \in {"none", "nilField", "index"}

NoCells == [i \in {} |-> NoUser]

Init ==
    /\ screen = "new" /\ request = "idle"
    /\ allOnlineUsers = <<>> /\ reload = FALSE
    /\ laidOut = FALSE /\ rows = 0 /\ cells = NoCells
    /\ userUID = NoUser /\ calls = <<>> /\ crash = "none"

-----------------------------------------------------------------------------
FindOnlineUsers == request' = "pending"

ViewDidLoad ==
    /\ screen = "new" /\ screen' = "list"
    /\ FindOnlineUsers
    /\ UNCHANGED <<allOnlineUsers, reload, laidOut, rows, cells, userUID,
                   calls, crash>>

\* Mutant: the array is nil without a body (a try? in place of the do).
Bug_NilWithoutBody ==
    /\ screen # "dead" /\ request = "pending" /\ request' = "done"
    /\ \/ /\ allOnlineUsers' = Incomplete
          /\ reload' = TRUE
       \/ UNCHANGED <<allOnlineUsers, reload>>
    /\ UNCHANGED <<screen, laidOut, rows, cells, userUID, calls, crash>>

\* The completion: an error, or a body that is no list, changes nothing.
OnlineUsersArrive ==
    /\ screen # "dead" /\ request = "pending" /\ request' = "done"
    /\ \/ /\ allOnlineUsers' \in BoundedSeq(Entries, MaxLength)
          /\ reload' = TRUE
       \/ UNCHANGED <<allOnlineUsers, reload>>
    /\ UNCHANGED <<screen, laidOut, rows, cells, userUID, calls, crash>>

NumberOfRowsInSection ==
    /\ laidOut' = TRUE
    /\ rows' = Len(allOnlineUsers)
    /\ cells' = NoCells

\* The first layout, before or after the array is assigned.
Layout ==
    /\ screen = "list" /\ ~laidOut
    /\ NumberOfRowsInSection
    /\ UNCHANGED <<screen, request, allOnlineUsers, reload, userUID, calls, crash>>

\* Mutant: the block is posted before the array is assigned, and so may run.
Bug_ReloadTooEarly ==
    /\ screen \notin {"new", "dead"} /\ reload /\ reload' = FALSE
    /\ laidOut' = TRUE /\ rows' = 0 /\ cells' = NoCells
    /\ UNCHANGED <<screen, request, allOnlineUsers, userUID, calls, crash>>

ReloadData ==
    /\ screen \notin {"new", "dead"} /\ reload /\ reload' = FALSE
    /\ NumberOfRowsInSection
    /\ UNCHANGED <<screen, request, allOnlineUsers, userUID, calls, crash>>

\* Row i cannot be read: it is past the end, or a field of it is nil.
Unreadable(i) == i > Len(allOnlineUsers) \/ allOnlineUsers[i] = Incomplete

Dies(i) ==
    /\ crash' = IF i > Len(allOnlineUsers) THEN "index" ELSE "nilField"
    /\ screen' = "dead"
    /\ UNCHANGED <<request, allOnlineUsers, reload, laidOut, rows, cells,
                   userUID, calls>>

\* A row comes into view, in any order as the user scrolls, and again.
CellForRowAt(i) ==
    /\ screen = "list" /\ i <= rows
    /\ \/ Unreadable(i) /\ Dies(i)
       \/ /\ ~Unreadable(i)
          /\ userUID' = allOnlineUsers[i]
          /\ cells' = [j \in DOMAIN cells \cup {i} |->
                           IF j = i THEN allOnlineUsers[i] ELSE cells[j]]
          /\ UNCHANGED <<screen, request, allOnlineUsers, reload, laidOut, rows,
                         calls, crash>>

\* prepare(for:) rings userUID and names the room by it.
Prepare(shown, uid) == calls' = Append(calls, [shown |-> shown, rung |-> uid])

\* Mutant: the tap relies on the uid of the cell (no line 93).
Bug_TapKeepsUID(i) ==
    /\ screen = "list" /\ i \in DOMAIN cells /\ Len(calls) < MaxCalls
    /\ \/ Unreadable(i) /\ Dies(i)
       \/ /\ ~Unreadable(i)
          /\ Prepare(cells[i], userUID)
          /\ screen' = "call"
          /\ UNCHANGED <<request, allOnlineUsers, reload, laidOut, rows, cells,
                         userUID, crash>>

\* A drawn row is tapped; the segue, and prepare, run before it returns.
DidSelectRowAt(i) ==
    /\ screen = "list" /\ i \in DOMAIN cells /\ Len(calls) < MaxCalls
    /\ \/ Unreadable(i) /\ Dies(i)
       \/ /\ ~Unreadable(i)
          /\ userUID' = allOnlineUsers[i]
          /\ Prepare(cells[i], userUID')
          /\ screen' = "call"
          /\ UNCHANGED <<request, allOnlineUsers, reload, laidOut, rows, cells,
                         crash>>

\* Mutant: the list is fetched anew whenever it appears.
Bug_FetchedAgain ==
    /\ Sheet /\ screen = "call" /\ screen' = "list"
    /\ FindOnlineUsers
    /\ UNCHANGED <<allOnlineUsers, reload, laidOut, rows, cells, userUID,
                   calls, crash>>

\* The audio screen, a sheet, is swiped away: here is the list again, as old
\* as before.
Uncovered ==
    /\ Sheet /\ screen = "call" /\ screen' = "list"
    /\ UNCHANGED <<request, allOnlineUsers, reload, laidOut, rows, cells,
                   userUID, calls, crash>>

\* The call ends with a new root, or the list itself, a sheet, is swiped away.
Leave ==
    /\ screen \in {"list", "call"} /\ screen' = "gone"
    /\ UNCHANGED <<request, allOnlineUsers, reload, laidOut, rows, cells,
                   userUID, calls, crash>>

Next ==
    \/ ViewDidLoad \/ OnlineUsersArrive \/ Layout \/ ReloadData
    \/ Uncovered \/ Leave
    \/ \E i \in 1..rows : CellForRowAt(i) \/ DidSelectRowAt(i)

Spec == Init /\ [][Next]_vars

\* The main queue is served.
FairSpec == Spec /\ WF_vars(ReloadData)

-----------------------------------------------------------------------------
\* Whoever is rung is the one the tapped row showed when it was drawn, whatever
\* was drawn or assigned since. (OnlineUsersTableViewController 81-95, 103-111)
RungIsShown == \A i \in DOMAIN calls : calls[i].rung = calls[i].shown

\* No row read is past the end of the array, though the table counted its rows
\* at another time; the process dies only of an element that lacks a field.
\* (OnlineUsersTableViewController 35-37, 73-95)
OnlyNilFieldsKill ==
    /\ crash # "index"
    /\ crash = "nilField" => \E i \in DOMAIN allOnlineUsers :
                                 allOnlineUsers[i] = Incomplete

\* A list that has arrived is on the table, or the block that puts it there is
\* still queued: no layout, cell, tap or call screen in between loses it.
\* (OnlineUsersTableViewController 35-38, 73-76)
ListIsComing ==
    request = "done" /\ screen # "dead" => rows = Len(allOnlineUsers) \/ reload

\* A list that arrives is on the table in the end, also behind a call screen
\* and in whatever order the table was laid out. (lines 35-38, 73-76)
ListAppears ==
    request = "done" ~> (rows = Len(allOnlineUsers) \/ screen = "dead")
=============================================================================
