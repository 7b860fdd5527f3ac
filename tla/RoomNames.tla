----------------------------- MODULE RoomNames -----------------------------
(***************************************************************************)
(* A call's room is named by the characters of both uids, sorted: the      *)
(* caller joins theirs as receiver + caller (the online lists), and so     *)
(* does the receiver (the notification).  Characters are numbers here;     *)
(* equal ones cannot be told apart, so which of them sorted() puts first   *)
(* does not matter.                                                        *)
(***************************************************************************)
EXTENDS Integers, Sequences, FiniteSets

\* Mutant: the characters are sorted as a set, each of them once.
Bug_Distinct(s) ==
    LET chars == {s[i] : i \in DOMAIN s}
    IN  [k \in 1..Cardinality(chars) |->
            CHOOSE c \in chars : Cardinality({d \in chars : d <= c}) = k]

\* Where the i-th character of s is put: after the smaller ones, and after those
\* like it that came before.
Position(s, i) ==
    Cardinality({j \in DOMAIN s : s[j] < s[i] \/ (s[j] = s[i] /\ j <= i)})

\* String(nonSortedString.sorted())
SortedString(s) ==
    [k \in DOMAIN s |-> s[CHOOSE i \in DOMAIN s : Position(s, i) = k]]

RoomString(receiver, caller) == SortedString(receiver \o caller)

-----------------------------------------------------------------------------
Occurrences(s, c) == Cardinality({i \in DOMAIN s : s[i] = c})

\* The same characters, each as often.
Anagrams(s, t) ==
    \A c \in {s[i] : i \in DOMAIN s} \cup {t[i] : i \in DOMAIN t} :
        Occurrences(s, c) = Occurrences(t, c)
=============================================================================
