------------------------- MODULE MCAudioCallSession -------------------------
\* Small instances of AudioCallSession: model values for the participants.
EXTENDS AudioCallSession
=============================================================================
