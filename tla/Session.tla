------------------------------ MODULE Session ------------------------------
(***************************************************************************)
(* What the rest of the app may rely on of the User statics: they belong   *)
(* to a running process, start empty, are set by sign-ins only, never go   *)
(* back to empty while the process runs (there is no logging out), and are *)
(* gone with it.                                                           *)
(*                                                                         *)
(* The abstract specification of Presence, and the base of Signalling.     *)
(***************************************************************************)
CONSTANTS
    Phones,
    Accounts,
    NoUser          \* User.uid = "", in a process nobody has signed in to

ASSUME SessionAssumption == NoUser \notin Accounts

VARIABLES
    alive,          \* the phones on which the app runs
    uid             \* User.uid of each phone

sessionVars == <<alive, uid>>

SessionTypeOK ==
    /\ alive \subseteq Phones
    /\ uid \in [Phones -> Accounts \cup {NoUser}]

SessionInit ==
    /\ alive = {}
    /\ uid = [p \in Phones |-> NoUser]

\* didFinishLaunching: the statics are empty.
Starts(p) ==
    /\ p \notin alive
    /\ alive' = alive \cup {p}
    /\ UNCHANGED uid

\* A completion of signIn: the last one decides.
SignedIn(p, u) ==
    /\ p \in alive
    /\ uid' = [uid EXCEPT ![p] = u]
    /\ UNCHANGED alive

\* The process ends, whatever ends it.
Ends(p) ==
    /\ p \in alive
    /\ alive' = alive \ {p}
    /\ uid' = [uid EXCEPT ![p] = NoUser]

SessionNext ==
    \E p \in Phones : Starts(p) \/ Ends(p) \/ \E u \in Accounts : SignedIn(p, u)

SessionSpec == SessionInit /\ [][SessionNext]_sessionVars
=============================================================================
