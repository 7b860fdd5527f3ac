--------------------------- MODULE MCCallSession ---------------------------
\* Small instances of CallSession: model values for participants and tracks.
EXTENDS CallSession, TLC

\* Participants differ only by name, so any two may be swapped (safety only).
Symmetry == Permutations(Participants)
=============================================================================
