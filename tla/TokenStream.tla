---------------------------- MODULE TokenStream ----------------------------
(***************************************************************************)
(* The token list of one response (tds/tdspacket_tokenised.cc) and the     *)
(* tokens the server puts into it.  A token keeps what the session's       *)
(* properties tell apart: its kind, the two status bits of a DONE, whether *)
(* the SPI tuple table behind a result set is still allocated, and the     *)
(* database an ENVCHANGE announces.  Text, numbers and layout are left out.*)
(***************************************************************************)
EXTENDS Naturals, Sequences

CONSTANTS Databases, \* database names, each standing for the schema "<name>.dbo"
          NoDb       \* what a token that announces no database carries

ASSUME NoDbAssumption == NoDb \notin Databases

Kinds == {"loginack", "env_database", "env_collation",
          "results", "error", "info", "done"}

Token == [kind  : Kinds,
          error : BOOLEAN,                \* DONE: error_flag
          more  : BOOLEAN,                \* DONE: more_flag
          held  : BOOLEAN,                \* results: tuple table allocated
          db    : Databases \cup {NoDb}]  \* env_database: new database

Plain(kind) == [kind |-> kind, error |-> FALSE, more |-> FALSE,
                held |-> FALSE, db |-> NoDb]

\* The tokens as their constructors and setters leave them.
Done           == Plain("done")
DoneError      == [Plain("done") EXCEPT !.error = TRUE]
Results        == [Plain("results") EXCEPT !.held = TRUE]
EnvDatabase(d) == [Plain("env_database") EXCEPT !.db = d]

AddToken(toks, t) == Append(toks, t)

\* tsql_executor::error, and the same pair built by hand in tdsmain::run
AddError(toks) == AddToken(AddToken(toks, Plain("error")), DoneError)

\* tsql_executor::info
AddInfo(toks) == AddToken(AddToken(toks, Plain("info")), Done)

\* tsql_executor::set_database, the tokens of it
AddDatabase(toks, d) ==
    AddToken(AddToken(toks, EnvDatabase(d)), Plain("env_collation"))

\* SPI_finish and the abort of a subtransaction free the tuple tables that
\* the result sets of the list still point to.
Freed(t) == [t EXCEPT !.held = FALSE]

ReleaseTables(toks) == [i \in 1..Len(toks) |-> Freed(toks[i])]

\* tdspacket_tokenised::writepacket, first half: a DONE that has a successor
\* says so.  Slip: every DONE says so.
Marked(t) == [t EXCEPT !.more = TRUE]

MarkMore_Every(toks) ==
    [i \in 1..Len(toks) |->
        IF toks[i].kind = "done" THEN Marked(toks[i]) ELSE toks[i]]

MarkMore(toks) ==
    [i \in 1..Len(toks) |->
        IF toks[i].kind = "done" /\ i < Len(toks) THEN Marked(toks[i])
                                                  ELSE toks[i]]

EndsWithDone(toks) == toks # << >> /\ toks[Len(toks)].kind = "done"

\* tdspacket_tokenised::writepacket: the tokens that go out.  A list that does
\* not end with a DONE gets a plain one.
Serialise(toks) ==
    IF EndsWithDone(toks) THEN MarkMore(toks)
                          ELSE Append(MarkMore(toks), Done)

----------------------------------------------------------------------------
\* What a client reads off a stream.

\* Reading the stream with database `before' leaves the client at database d.
Announces(stream, before, d) ==
    \/ /\ \A i \in 1..Len(stream) : stream[i].kind # "env_database"
       /\ d = before
    \/ \E i \in 1..Len(stream) :
          /\ stream[i].kind = "env_database"
          /\ stream[i].db = d
          /\ \A j \in 1..Len(stream) : j > i => stream[j].kind # "env_database"

\* A client stops reading at the first DONE without more_flag, and takes the
\* error_flag of the DONE after an ERROR token for the statement's status.
WellFormed(stream) ==
    /\ EndsWithDone(stream)
    /\ \A i \in 1..Len(stream) : stream[i].kind = "done" =>
                                    (stream[i].more <=> i < Len(stream))
    /\ \A i \in 1..Len(stream) : stream[i].kind = "error" =>
          /\ i < Len(stream)
          /\ stream[i + 1].kind = "done"
          /\ stream[i + 1].error

EndsWithError(stream) == EndsWithDone(stream) /\ stream[Len(stream)].error

AllHeld(stream) ==
    \A i \in 1..Len(stream) : stream[i].kind = "results" => stream[i].held
=============================================================================
