---------------------------- MODULE MCAndroidApp ----------------------------
\* Two documents and two pickers, and two events that may slip in between two
\* frames: enough for a key and a tap that let a second recovery overlap the first.
EXTENDS AndroidApp

CONSTANTS a, b
=============================================================================
