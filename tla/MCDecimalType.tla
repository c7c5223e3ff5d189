--------------------------- MODULE MCDecimalType ----------------------------
(***************************************************************************)
(* Two values, in a scale of their own: bytes of three bits and ints of    *)
(* five, so that magnitudes outgrow both, and numbers with up to two       *)
(* places.                                                                 *)
(***************************************************************************)
EXTENDS DecimalType

MCColumns == {<< >>, <<3>>, <<5, 1>>}
=============================================================================
