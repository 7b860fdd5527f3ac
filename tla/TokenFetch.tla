----------------------------- MODULE TokenFetch -----------------------------
(***************************************************************************)
(* The access token of a call screen.  viewDidLoad asks the token server   *)
(* for one, sleeps a second on the main thread, and connects with whatever *)
(* accessToken then holds; the request's completion stores the reply on a  *)
(* URLSession thread, with no synchronisation between the two.  Both call  *)
(* screens have this code, word for word.                                  *)
(***************************************************************************)

\* The outcomes of a request that the server and the network allow: "token" a
\* body that is a valid token; "errorBody" any other body, stored all the same;
\* "nothing" an error, or no decodable body.
CONSTANT Replies
ASSUME RepliesAssumption == Replies \subseteq {"token", "errorBody", "nothing"}

VARIABLES
    accessToken,    \* self.accessToken
    fetch,          \* the request, or the body its completion is storing
    connectToken    \* the token the connect options were built with

tokenVars == <<accessToken, fetch, connectToken>>

Bodies == {"token", "errorBody"}
Tokens == {"placeholder", "empty"} \cup Bodies

TokenTypeOK ==
    /\ accessToken \in Tokens
    /\ fetch \in {"idle", "pending", "done"} \cup Bodies
    /\ connectToken \in Tokens \cup {"unset"}

TokenInit ==
    /\ accessToken = "placeholder"
    /\ fetch = "idle"
    /\ connectToken = "unset"

RequestToken ==
    /\ accessToken' = "empty"
    /\ fetch' = "pending"
    /\ UNCHANGED connectToken

\* Mutant: the error branch (93-97) falls through and stores what it has.
Bug_ErrorFallsThrough ==
    /\ fetch = "pending"
    /\ fetch' \in Replies
    /\ UNCHANGED <<accessToken, connectToken>>

\* The completion runs: on an error, or without a body, it returns.
ReplyArrives ==
    /\ fetch = "pending"
    /\ \E r \in Replies : fetch' = IF r \in Bodies THEN r ELSE "done"
    /\ UNCHANGED <<accessToken, connectToken>>

StoreToken ==
    /\ fetch \in Bodies
    /\ accessToken' = fetch
    /\ fetch' = "done"
    /\ UNCHANGED connectToken

\* An unsynchronised read of accessToken while the completion is storing: the
\* old value or the new one, if the two words of the string belong together.
UseToken ==
    /\ connectToken' \in {accessToken} \cup ({fetch} \cap Bodies)
    /\ UNCHANGED <<accessToken, fetch>>

\* They may not: the read is torn, and the process dies of it.
TornRead == fetch \in Bodies
=============================================================================
