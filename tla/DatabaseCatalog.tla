-------------------------- MODULE DatabaseCatalog --------------------------
(***************************************************************************)
(* The databases of an instance, as several sessions change them at once:  *)
(* USE, CREATE DATABASE and DROP DATABASE.  A database that CREATE made is *)
(* a schema "<name>.dbo" and a schema "<name>.information_schema" with     *)
(* five views in them; one that was installed (master) is a schema         *)
(* "<name>.dbo" and a schema "<name>.sys".  Each statement is a series of  *)
(* SQL commands, each of which reads the catalogue afresh, inside the      *)
(* transaction of the batch.                                               *)
(*                                                                         *)
(* The rest of the session is in module TdsSession.  Here a batch is a SQL *)
(* batch: the statements that concern databases, an ERROR at any point for *)
(* what the other statements do, its answer to the client, and its commit. *)
(***************************************************************************)
EXTENDS Naturals

CONSTANTS Databases,     \* names
          Installed,     \* those that the installation scripts make
          Sessions,
          Like,          \* Like[d]: the names that LIKE 'd%' matches
          MaxStatements  \* bound: statements of all sessions together

\* A name matches itself.  As it stands here, that a pattern matches all
\* schemas of a database or none, is not so for names with an underscore
\* where "<name>.dbo" has its dot; such names are left out.
ASSUME CatalogAssumption ==
    /\ Installed \subseteq Databases
    /\ Like \in [Databases -> SUBSET Databases]
    /\ \A d \in Databases : d \in Like[d]
    /\ MaxStatements \in Nat

Kinds == {"dbo", "information_schema", "sys"}

\* The commands of CREATE DATABASE, by what they create: the first creates
\* dbo, and After[p] is created after p.
After == [dbo |-> "information_schema", information_schema |-> "tables",
          tables |-> "sysusers", sysusers |-> "sysobjects",
          sysobjects |-> "syscolumns", syscolumns |-> "sysindexes"]

LastPart == "sysindexes"

Parts == DOMAIN After \cup {LastPart}

Objects == Databases \X (Parts \cup {"sys"})

Schemas == Databases \X Kinds

ObjectsOf == [d \in Databases |-> {o \in Objects : o[1] = d}]

\* The shapes of a database: as CREATE DATABASE makes it, and as it is
\* installed.  (The tables of the installed schemas go with them.)
Created == [d \in Databases |-> {d} \X Parts]

Shipped == [d \in Databases |-> {d} \X {"dbo", "sys"}]

Shapes == [d \in Databases |->
              {Created[d]} \cup (IF d \in Installed THEN {Shipped[d]} ELSE {})]

\* The schema of an object, and what a schema may hold: DROP SCHEMA ...
\* CASCADE takes along what is in it.
SchemaOf(o) ==
    <<o[1], CASE o[2] = "sys" -> "sys"
              [] o[2] \in {"information_schema", "tables"} -> "information_schema"
              [] OTHER -> "dbo">>

Contents == [x \in Schemas |-> {o \in Objects : SchemaOf(o) = x}]

Dbo(d) == <<d, "dbo">>

Places == {"idle",    \* between batches
           "run",     \* in a batch, about to start a statement
           "use",     \* USE: database counted, search path not yet set
           "create",  \* CREATE DATABASE: before the command for facing[s]
           "drop",    \* DROP DATABASE: schemas listed, doomed[s] to be dropped
           "end",     \* a statement has returned an error
          "answer"}  \* the response is being sent, nothing is committed yet

VARIABLES
    committed,  \* the objects in the catalogue
    pc,
    own,        \* own[s]: objects that s has created and not committed
    gone,       \* gone[s]: committed objects that s has dropped
    facing,     \* what the next command of the statement s is in is about
    doomed,     \* DROP DATABASE: the listed schemas not yet dropped
    database,   \* tsql_executor::database, announced to the client
    started,    \* statements so far, of all sessions
    lost        \* history: databases that s saw, or logged in to, and that
                \* a drop or a rollback has taken away since

catalogVars == <<committed, own, gone>>
stmtVars    == <<facing, doomed, started>>
vars == <<catalogVars, pc, stmtVars, database, lost>>

\* The catalogue in the eyes of a command that s executes: a new snapshot for
\* each, as SPI_execute_with_args is not told that they are read-only.
Visible(s) == (committed \ gone[s]) \cup own[s]

Exists(s, d) == Dbo(d) \in Visible(s)

Init ==
    /\ \E D \in SUBSET Databases, I \in SUBSET Installed :
           committed = {o \in Objects : \/ o[1] \in I /\ o \in Shipped[o[1]]
                                        \/ o[1] \in D \ I /\ o \in Created[o[1]]}
    /\ pc = [s \in Sessions |-> "idle"]
    /\ own = [s \in Sessions |-> {}] /\ gone = [s \in Sessions |-> {}]
    /\ database \in [Sessions -> Databases]
    /\ facing = [s \in Sessions |-> Dbo(database[s])]
    /\ doomed = [s \in Sessions |-> {}]
    /\ started = 0
    /\ lost = [s \in Sessions |->
                  IF Dbo(database[s]) \in committed THEN {} ELSE {database[s]}]

----------------------------------------------------------------------------
\* Connections and transactions.

Goto(s, place) == pc' = [pc EXCEPT ![s] = place]

Begin(s) ==
    /\ pc[s] = "idle" /\ Goto(s, "run")
    /\ UNCHANGED <<catalogVars, stmtVars, database, lost>>

\* What s has done since its transaction began is undone.
Rollback(s) ==
    /\ own' = [own EXCEPT ![s] = {}] /\ gone' = [gone EXCEPT ![s] = {}]
    /\ doomed' = [doomed EXCEPT ![s] = {}]
    /\ UNCHANGED <<committed, facing, started>>

InBatch(s) == pc[s] # "idle"

\* An ERROR: PG_CATCH rolls the batch back and answers it.  The executor keeps
\* its database.
PgError(s) ==
    /\ InBatch(s) /\ Goto(s, "answer")
    /\ Rollback(s)
    /\ lost' = [lost EXCEPT ![s] = @ \cup {d \in Databases : Dbo(d) \in own[s]}]
    /\ UNCHANGED database

\* The worker of s ends, at any point, and s is the next connection.  Its login
\* takes the database the packet names; that it exists is not looked at.
Login(s, d) ==
    /\ Goto(s, "idle")
    /\ Rollback(s)
    /\ database' = [database EXCEPT ![s] = d]
    /\ lost' = [lost EXCEPT ![s] = IF Dbo(d) \in committed THEN {} ELSE {d}]

\* The end of the statements, also when one has returned an error.  The
\* response is sent before anything is committed, by a send that waits for
\* the client to read.
EndBatch(s) ==
    /\ pc[s] \in {"run", "end"} /\ Goto(s, "answer")
    /\ UNCHANGED <<catalogVars, stmtVars, database, lost>>

\* The client has read its response.
Commit(s) ==
    /\ pc[s] = "answer" /\ Goto(s, "idle")
    /\ committed' = Visible(s)
    /\ own' = [own EXCEPT ![s] = {}] /\ gone' = [gone EXCEPT ![s] = {}]
    /\ lost' = [t \in Sessions |-> lost[t] \cup
                   {d \in Databases : Dbo(d) \in gone[s] \ own[s]}]
    /\ UNCHANGED <<stmtVars, database>>

----------------------------------------------------------------------------
\* Statements.

Start(s) ==
    /\ pc[s] = "run" /\ started < MaxStatements
    /\ started' = started + 1

\* USE d, first command: the schema is counted.
UseCount(s, d) ==
    /\ Start(s) /\ Exists(s, d)
    /\ Goto(s, "use")
    /\ facing' = [facing EXCEPT ![s] = Dbo(d)]
    /\ lost' = [lost EXCEPT ![s] = @ \ {d}]
    /\ UNCHANGED <<catalogVars, doomed, database>>

\* The count is 0: error 911.  It ends the batch, unless the USE is in the
\* text of an EXEC.  Slip: the count is not looked at.
UseUnknown_Switches(s, d) ==
    /\ Start(s) /\ ~Exists(s, d)
    /\ Goto(s, "use")
    /\ facing' = [facing EXCEPT ![s] = Dbo(d)]
    /\ UNCHANGED <<catalogVars, doomed, database, lost>>

UseUnknown(s, d) ==
    /\ Start(s) /\ ~Exists(s, d)
    /\ Goto(s, "run") \/ Goto(s, "end")
    /\ UNCHANGED <<catalogVars, facing, doomed, database, lost>>

\* USE, second command: SET SEARCH_PATH takes any name.  Slip: the executor is
\* given the name of the schema.
UseSwitch_ToSchema(s) ==
    /\ pc[s] = "use" /\ Goto(s, "run")
    /\ database' = [database EXCEPT ![s] = facing[s]]
    /\ UNCHANGED <<catalogVars, stmtVars, lost>>

UseSwitch(s) ==
    /\ pc[s] = "use" /\ Goto(s, "run")
    /\ database' = [database EXCEPT ![s] = facing[s][1]]
    /\ UNCHANGED <<catalogVars, stmtVars, lost>>

CreateStart(s, d) ==
    /\ Start(s) /\ Goto(s, "create")
    /\ facing' = [facing EXCEPT ![s] = Dbo(d)]
    /\ UNCHANGED <<catalogVars, doomed, database, lost>>

\* CREATE SCHEMA and CREATE VIEW wait for another transaction that has
\* created the same name.
WaitsToCreate(s, t) ==
    /\ pc[s] = "create" /\ t # s
    /\ facing[s] \in own[t] \ Visible(s)

\* exec_cmd.  What it returns is not looked at; an ERROR does not return.
CreateCommand(s) ==
    /\ pc[s] = "create"
    /\ facing[s] \notin Visible(s)
    /\ \A t \in Sessions : ~WaitsToCreate(s, t)
    /\ own' = [own EXCEPT ![s] = @ \cup {facing[s]}]
    /\ IF facing[s][2] = LastPart
       THEN Goto(s, "run") /\ UNCHANGED facing
       ELSE facing' = [facing EXCEPT ![s] = <<@[1], After[@[2]]>>] /\ UNCHANGED pc
    /\ UNCHANGED <<committed, gone, doomed, started, database, lost>>

\* The name is taken.  Slip: the command is tried again.
CreateFails_Retries(s) ==
    pc[s] = "create" /\ facing[s] \in Visible(s) /\ UNCHANGED vars

CreateFails(s) ==
    /\ pc[s] = "create" /\ facing[s] \in Visible(s)
    /\ PgError(s)

\* DROP DATABASE d, first command: the schemas whose name begins with d.
\* Slip: only the schema dbo is listed.
Listed_DboOnly(s, d) ==
    {x \in Schemas \cap Visible(s) : x[1] \in Like[d] /\ x[2] = "dbo"}

Listed(s, d) == {x \in Schemas \cap Visible(s) : x[1] \in Like[d]}

\* The loop over the listed schemas, which come in the order of the
\* catalogue: any order.  Slip: it ends after the first.
DropNext_First(s, left) ==
    LET all == IF pc[s] = "drop" THEN {} ELSE left IN
    /\ doomed' = [doomed EXCEPT ![s] = all]
    /\ \/ all = {} /\ Goto(s, "run") /\ UNCHANGED facing
       \/ /\ Goto(s, "drop")
          /\ \E x \in all : facing' = [facing EXCEPT ![s] = x]

DropNext(s, left) ==
    /\ doomed' = [doomed EXCEPT ![s] = left]
    /\ \/ left = {} /\ Goto(s, "run") /\ UNCHANGED facing
       \/ /\ Goto(s, "drop")
          /\ \E x \in left : facing' = [facing EXCEPT ![s] = x]

DropStart(s, d) ==
    /\ Start(s)
    /\ DropNext(s, Listed(s, d))
    /\ UNCHANGED <<catalogVars, database, lost>>

\* DROP SCHEMA waits for another transaction that has dropped the schema.
WaitsToDrop(s, t) ==
    pc[s] = "drop" /\ t # s /\ facing[s] \in gone[t]

DropCommand(s) ==
    /\ pc[s] = "drop" /\ facing[s] \in Visible(s)
    /\ \A t \in Sessions : ~WaitsToDrop(s, t)
    /\ own' = [own EXCEPT ![s] = @ \ Contents[facing[s]]]
    /\ gone' = [gone EXCEPT ![s] = @ \cup (Contents[facing[s]] \cap committed)]
    /\ DropNext(s, doomed[s] \ {facing[s]})
    /\ lost' = [lost EXCEPT ![s] = @ \cup {facing[s][1]}]
    /\ UNCHANGED <<committed, started, database>>

\* The schema was there when it was listed, and is not any more.
DropFails(s) ==
    /\ pc[s] = "drop" /\ facing[s] \notin Visible(s)
    /\ PgError(s)

\* Sessions that wait for each other in a circle: PostgreSQL raises an ERROR
\* in one of them.
Waits(s, t) == WaitsToCreate(s, t) \/ WaitsToDrop(s, t)

Deadlocked(s) ==
    \E C \in SUBSET Sessions :
        /\ s \in C
        /\ \A t \in C : \E u \in C : Waits(t, u)

DeadlockDetected(s) == Deadlocked(s) /\ PgError(s)

----------------------------------------------------------------------------
\* What a session does by itself once a batch has begun.  Commit is not of it:
\* it comes after the client has read the response.
Progress(s) ==
    \/ UseSwitch(s)
    \/ CreateCommand(s) \/ CreateFails(s)
    \/ DropCommand(s) \/ DropFails(s)
    \/ DeadlockDetected(s)
    \/ EndBatch(s)

Next ==
    \E s \in Sessions :
        \/ \E d \in Databases :
               Login(s, d) \/ UseCount(s, d) \/ UseUnknown(s, d)
               \/ CreateStart(s, d) \/ DropStart(s, d)
        \/ Begin(s) \/ PgError(s) \/ Commit(s)
        \/ Progress(s)

Spec == Init /\ [][Next]_vars

\* A worker that can go on by itself does.  A client need not read.
FairSpec == Spec /\ \A s \in Sessions : WF_vars(Progress(s))

----------------------------------------------------------------------------
TypeOK ==
    /\ committed \in SUBSET Objects
    /\ pc \in [Sessions -> Places]
    /\ own \in [Sessions -> SUBSET Objects]
    /\ gone \in [Sessions -> SUBSET Objects]
    /\ facing \in [Sessions -> Objects]
    /\ doomed \in [Sessions -> SUBSET Schemas]
    /\ database \in [Sessions -> Databases]
    /\ started \in Nat
    /\ lost \in [Sessions -> SUBSET Databases]

\* The catalogue holds whole databases: the schemas of a database with all
\* that belongs to them, or nothing.  It is the transaction around a batch
\* that makes it so, as CREATE DATABASE does not look at the outcome of its
\* seven commands and DROP DATABASE drops what it has listed one by one.
WholeSet(S) == \A d \in Databases : ObjectsOf[d] \cap S \in Shapes[d] \cup {{}}

Whole == WholeSet(committed)

\* A session whose database does not exist has logged in to one that did not,
\* or has seen it being dropped, by itself or by another session, or rolled
\* back its creation: USE does not lead there, except by being overtaken
\* between its two commands.
StrandedOnlyByLoss ==
    \A s \in Sessions :
        /\ Exists(s, database[s]) \/ database[s] \in lost[s]
        /\ pc[s] = "use" => Exists(s, facing[s][1]) \/ facing[s][1] \in lost[s]

\* The sessions together implement module DatabaseSet: databases come and go
\* whole, with the commit of a session that made or dropped them.
Present(S) == {d \in Databases : ObjectsOf[d] \cap S \in Shapes[d]}

Set == INSTANCE DatabaseSet WITH
           dbs     <- Present(committed),
           made    <- [s \in Sessions |-> Present(own[s])],
           dropped <- [s \in Sessions |-> Present(gone[s])]

DatabasesAtomic == Set!Spec

\* The client of s, or of a session that s waits for, or that such a session
\* waits for, has to read its response.
AwaitsClient(s) ==
    \A C \in SUBSET Sessions :
        /\ s \in C
        /\ \A t \in C : \A u \in Sessions : Waits(t, u) => u \in C
        => \E t \in C : pc[t] = "answer"

\* A batch that never ends waits for a client that never reads: its own, or
\* that of a session whose databases it touches, as the response is sent
\* before the commit.  Nothing else holds it up: not a database that another
\* session has created or dropped, and not a circle of such sessions.
BatchEnds ==
    \A s \in Sessions : <>[]InBatch(s) => <>[]AwaitsClient(s)
=============================================================================
