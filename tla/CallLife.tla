------------------------------ MODULE CallLife ------------------------------
(***************************************************************************)
(* What a call screen promises, whatever it renders: it dials once, the    *)
(* hang-up and the closing of the screen are one step, and nothing dials   *)
(* again afterwards.  A screen may also be taken away, by another that is  *)
(* put in its place or, a sheet, by a swipe; that leaves the call alone.   *)
(*                                                                         *)
(* The abstract specification of both CallSession and AudioCallSession.    *)
(***************************************************************************)

VARIABLES
    screen,     \* the call screen
    call        \* the SDK's room

vars == <<screen, call>>

Init == screen = "opening" /\ call = "none"

\* The screen is up, and dials, in one step: there is no button before.
Dial ==
    /\ screen = "opening" /\ screen' = "open"
    /\ call = "none" /\ call' = "connecting"

\* The network answers, or ends the call; an ended call stays so.
Network ==
    /\ screen # "dead"
    /\ \/ call = "connecting" /\ call' \in {"connected", "disconnected"}
       \/ call \in {"connected", "disconnecting"} /\ call' = "disconnected"
    /\ UNCHANGED screen

\* At any moment of the call, a call still being dialled included.
HangUp ==
    /\ screen = "open" /\ screen' = "closed"
    /\ call' = IF call = "disconnected" THEN call ELSE "disconnecting"

\* Another screen becomes the window's root, or UIKit takes a sheet off it:
\* nobody asks this one, and the button goes with it.
TakeAway ==
    /\ screen = "open" /\ screen' = "gone"
    /\ UNCHANGED call

\* The process may die under the screen.
Die ==
    /\ screen # "dead" /\ screen' = "dead"
    /\ UNCHANGED call

Next == Dial \/ Network \/ HangUp \/ TakeAway \/ Die

Spec == Init /\ [][Next]_vars
=============================================================================
