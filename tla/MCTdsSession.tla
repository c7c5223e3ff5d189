---------------------------- MODULE MCTdsSession ----------------------------
(* TLC instances of TdsSession; the constants are given in the .cfg files. *)
EXTENDS TdsSession
=============================================================================
