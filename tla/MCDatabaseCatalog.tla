------------------------- MODULE MCDatabaseCatalog -------------------------
(* Two databases, of which the name of one begins with that of the other, as *)
(* master and master2: the one with the shorter name may be the installed one. *)
EXTENDS DatabaseCatalog, TLC

CONSTANTS Short, Long

MCDatabases == {Short, Long}

MCInstalled == {Short}

MCLike == (Short :> {Short, Long}) @@ (Long :> {Long})
=============================================================================
