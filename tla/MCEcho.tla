------------------------------- MODULE MCEcho -------------------------------
\* Both pairs of echo programs with small command lines, for TLC.
EXTENDS Echo
=============================================================================
