---------------------------- MODULE MCTdsFraming ----------------------------
\* Instances of TdsFraming for TLC.
EXTENDS TdsFraming
=============================================================================
