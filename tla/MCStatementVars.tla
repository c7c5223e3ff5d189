-------------------------- MODULE MCStatementVars ---------------------------
(***************************************************************************)
(* Two variables, one of them in two spellings, with up to two in one      *)
(* expression and statements two deep.                                     *)
(***************************************************************************)
EXTENDS StatementVars

MCLower == [n \in {"@a", "@A", "@b"} |-> IF n = "@A" THEN "@a" ELSE n]
=============================================================================
