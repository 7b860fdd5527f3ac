--------------------------- MODULE MCSignalling ---------------------------
\* Small instances of Signalling: uids of up to four characters out of two, and
\* nobody's is empty.  u1 who calls u1 shares a room with nobody who calls u2.
EXTENDS Signalling

CONSTANTS u1, u2

MCUid == [u \in Accounts \cup {NoUser} |->
             CASE u = u1 -> <<1, 2>>
               [] u = u2 -> <<1, 2, 1, 2>>
               [] OTHER -> <<>>]
=============================================================================
