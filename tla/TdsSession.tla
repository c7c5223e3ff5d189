----------------------------- MODULE TdsSession -----------------------------
(***************************************************************************)
(* One connection: the packet loop of a worker process (tdsmain::run), the *)
(* transaction it wraps around every batch, the control of the statement   *)
(* interpreter as far as a response shows it, and the client at the other  *)
(* end of the socket.                                                      *)
(*                                                                         *)
(* A worker is one sequential process, so an action is the stretch of code *)
(* between two points where something else can happen: the client sends or *)
(* hangs up, a PostgreSQL ERROR is raised, the process dies.  What a batch *)
(* contains is left open: while it runs, any next statement may follow, up *)
(* to MaxStatements of them.                                               *)
(***************************************************************************)
EXTENDS TokenStream

CONSTANTS Master,        \* the database of a login that names none
          MaxRequests,   \* bound: requests a client sends
          MaxAhead,      \* bound: requests it sends ahead of the worker
          MaxStatements  \* bound: statements one batch starts

ASSUME SessionAssumption ==
    /\ Master \in Databases
    /\ MaxRequests \in Nat
    /\ MaxAhead \in Nat
    /\ MaxStatements \in Nat

\* Packet types; "execsql" is an RPC with proc id 10, "otherrpc" any other
\* RPC, "unknown" a type readpacket has no class for.
RequestTypes == {"prelogin", "login4", "login7", "sql", "execsql",
                 "otherrpc", "unknown"}

States == {"PRELOGIN", "LOGIN", "CONNECTED", "FAIL"}

Locations == {"recv",       \* blocked in readpacket
              "login",      \* transaction of the login open
              "run",        \* in program->exec, about to start a statement
              "unwind",     \* in program->exec, returning an error
              "write",      \* SQL: batch done, response not yet written
              "release",    \* SQL: response written, subtransaction open
              "catch",      \* SQL: in PG_CATCH
              "finish",     \* SQL: subtransaction closed, transaction open
              "rpcfinish",  \* RPC: batch done, transaction open
              "rpcwrite",   \* RPC: committed, response not yet written
              "spin",       \* in the body loop of readpacket for good
              "closed",     \* run() has returned, socket closed
              "dead"}       \* process exited without returning from run()

\* Where the client's stream ends: before a packet, or inside one.
HangUps == {"no", "between", "inside"}

Outcomes == {"none", "ok", "failed", "silent", "caught", "rejected"}

VARIABLES
    sent,      \* what the client has sent, in order
    hungup,    \* whether and where the client has closed its end
    nread,     \* how many of these the worker has taken off the socket
    state,     \* tdsmain::state
    pc,        \* where the worker is in run()
    pg,        \* open transaction, SPI, snapshot and subtransaction levels
    path,      \* the search path in force, named by its first database
    savedPath, \* the search path a rollback of the subtransaction restores
    database,  \* tsql_executor::database
    tokens,    \* the token list of the current response (stpt)
    frames,    \* open "program" and "while" frames above the batch itself
    fault,     \* "none", or how the error being returned was reported
    started,   \* statements the current batch has started
    executed,  \* changes to the database the current request has made
    work,      \* those of them that are neither rolled back nor committed
    kept,      \* those of them that are committed
    reply,     \* the response written since the last packet was read
    answered,  \* the requests that responses were written for, in order
    clientDb   \* the client's database after the responses so far

clientVars == <<sent, hungup>>
pathVars   == <<path, savedPath, database>>
batchVars  == <<tokens, frames, fault, started>>
workVars   == <<executed, work, kept>>
wireVars   == <<reply, answered, clientDb>>
vars == <<clientVars, nread, state, pc, pg, pathVars, batchVars, workVars,
          wireVars>>

NoReply == [id |-> 0, outcome |-> "none", stream |-> << >>]

\* What of PostgreSQL is open.
Levels(xact, spi, snaps, subs) ==
    [xact |-> xact, spi |-> spi, snaps |-> snaps, subs |-> subs]

Idle == Levels(FALSE, 0, 0, 0)

Init ==
    /\ sent = << >> /\ hungup = "no" /\ nread = 0
    /\ state = "PRELOGIN" /\ pc = "recv"
    /\ pg = Idle
    /\ path = NoDb /\ savedPath = NoDb /\ database = NoDb
    /\ tokens = << >>
    /\ frames = << >> /\ fault = "none" /\ started = 0
    /\ executed = 0 /\ work = 0 /\ kept = 0
    /\ reply = NoReply
    /\ answered = << >> /\ clientDb = NoDb

----------------------------------------------------------------------------
\* The client.

ClientSend(type) ==
    /\ hungup = "no"
    /\ Len(sent) < MaxRequests /\ Len(sent) < nread + MaxAhead
    /\ sent' = Append(sent, type)
    /\ UNCHANGED <<hungup, nread, state, pc, pg, pathVars, batchVars, workVars,
                   wireVars>>

ClientClose(where) ==
    /\ hungup = "no"
    /\ hungup' = where
    /\ UNCHANGED <<sent, nread, state, pc, pg, pathVars, batchVars, workVars,
                   wireVars>>

----------------------------------------------------------------------------
\* PostgreSQL as the worker uses it.

\* StartTransactionCommand, SPI_connect, PushActiveSnapshot
Begin(p) == Levels(TRUE, p.spi + 1, p.snaps + 1, p.subs)

\* SPI_finish, PopActiveSnapshot, CommitTransactionCommand.
\* Slip: the snapshot stays on its stack.
End_LeavesSnapshot(p) == Levels(FALSE, p.spi - 1, p.snaps, p.subs)

End(p) == Levels(FALSE, p.spi - 1, p.snaps - 1, p.subs)

\* BeginInternalSubTransaction
BeginSub(p) == Levels(p.xact, p.spi, p.snaps, p.subs + 1)

\* ReleaseCurrentSubTransaction, RollbackAndReleaseCurrentSubTransaction.
\* Slip: the level above is left too.
EndSub_Twice(p) == Levels(p.xact, p.spi, p.snaps, p.subs - 2)

EndSub(p) == Levels(p.xact, p.spi, p.snaps, p.subs - 1)

\* RollbackAndReleaseCurrentSubTransaction: what was done in it is undone.
\* Slip: it is released instead.
Rollback_Released == pg' = EndSub(pg) /\ UNCHANGED <<path, work>>

Rollback == pg' = EndSub(pg) /\ path' = savedPath /\ work' = 0

\* A response goes out for request id.
Respond(id, outcome, stream) ==
    /\ reply' = [id |-> id, outcome |-> outcome, stream |-> stream]
    /\ answered' = Append(answered, id)
    /\ clientDb' = CHOOSE d \in Databases \cup {NoDb} :
                       Announces(stream, clientDb, d)

----------------------------------------------------------------------------
\* The packet loop.

Current == sent[nread]

Receive(types) ==
    /\ pc = "recv" /\ nread < Len(sent)
    /\ sent[nread + 1] \in types
    /\ nread' = nread + 1
    /\ executed' = 0 /\ kept' = 0
    /\ UNCHANGED <<clientVars, work>>

NoResponse == reply' = NoReply /\ UNCHANGED <<answered, clientDb>>

\* readpacket has no class for the packet type.
RecvUnknown ==
    /\ Receive({"unknown"})
    /\ pc' = "closed"
    /\ NoResponse
    /\ UNCHANGED <<state, pg, pathVars, batchVars>>

\* readpacket returns without a packet, or not at all.
NoPacket(to) ==
    /\ pc = "recv" /\ pc' = to
    /\ UNCHANGED <<clientVars, nread, state, pg, pathVars, batchVars, workVars,
                   wireVars>>

\* It finds the end of the stream instead of a header.
\* Slip: it reads again.
RecvEof_Retries ==
    pc = "recv" /\ nread = Len(sent) /\ hungup = "between" /\ UNCHANGED vars

RecvEof == nread = Len(sent) /\ hungup = "between" /\ NoPacket("closed")

\* It finds the end of the stream inside the body of a packet: recv returns 0
\* again and again.
RecvTorn == nread = Len(sent) /\ hungup = "inside" /\ NoPacket("spin")

\* recv reports an error or, interrupted, a part of a header.
RecvFails == NoPacket("closed")

\* The packets a state of the handshake waits for.
Expected == CASE state = "PRELOGIN" -> {"prelogin", "login4"}
              [] state = "LOGIN"    -> {"login7"}
              [] OTHER              -> {}

RecvPrelogin ==
    /\ state = "PRELOGIN" /\ Receive({"prelogin"})
    /\ Respond(nread + 1, "ok", << >>)
    /\ state' = "LOGIN"
    /\ UNCHANGED <<pc, pg, pathVars, batchVars>>

\* The backend connects and the login's transaction starts; `given' is the
\* database the packet names.  That it exists is not looked at.
RecvLogin(given) ==
    /\ Receive(Expected \cap {"login4", "login7"})
    /\ database' = IF given = NoDb THEN Master ELSE given
    /\ path' = database'
    /\ pg' = Begin(pg)
    /\ pc' = "login"
    /\ NoResponse
    /\ UNCHANGED <<state, savedPath, batchVars>>

LoginTokens == AddToken(AddDatabase(<<Plain("loginack")>>, database), Done)

LoginEnd ==
    /\ pc = "login"
    /\ pg' = End(pg)
    /\ Respond(nread, "ok", Serialise(LoginTokens))
    /\ state' = "CONNECTED" /\ pc' = "recv"
    /\ UNCHANGED <<clientVars, nread, pathVars, batchVars, workVars>>

\* Any other packet before the session is connected ends it.
RecvOutOfOrder ==
    /\ state \in {"PRELOGIN", "LOGIN"}
    /\ Receive(RequestTypes \ (Expected \cup {"unknown"}))
    /\ state' = "FAIL" /\ pc' = "closed"
    /\ NoResponse
    /\ UNCHANGED <<pg, pathVars, batchVars>>

\* A connected session drops what it has no case for, without a response.
RecvIgnored ==
    /\ state = "CONNECTED"
    /\ Receive({"prelogin", "login4", "login7", "otherrpc"})
    /\ NoResponse
    /\ UNCHANGED <<state, pc, pg, pathVars, batchVars>>

\* A batch that does not parse is answered without a transaction.
RecvSqlRejected ==
    /\ state = "CONNECTED" /\ Receive({"sql"})
    /\ Respond(nread + 1, "rejected", Serialise(AddError(<< >>)))
    /\ UNCHANGED <<state, pc, pg, pathVars, batchVars>>

\* What the SQL and the RPC case share; the response is empty and no frame
\* open, as the end of the last request left them.
StartBatch ==
    /\ state = "CONNECTED" /\ pc' = "run"
    /\ NoResponse
    /\ UNCHANGED <<state, path, database, batchVars>>

RecvSql ==
    /\ Receive({"sql"}) /\ StartBatch
    /\ pg' = BeginSub(Begin(pg))
    /\ savedPath' = path

\* sp_executesql.  The program's error_message is not looked at: one that did
\* not parse has no statements and runs as the empty program.
RecvExecSql ==
    /\ Receive({"execsql"}) /\ StartBatch
    /\ pg' = Begin(pg)
    /\ UNCHANGED savedPath

----------------------------------------------------------------------------
\* The interpreter.

Statement ==
    /\ pc = "run" /\ started < MaxStatements
    /\ started' = started + 1
    /\ UNCHANGED <<clientVars, nread, state, pg, savedPath, kept, wireVars>>

\* A change to the database, uncommitted
Change == executed' = executed + 1 /\ work' = work + 1

\* exec_ext, SPI_OK_SELECT
Select ==
    /\ Statement
    /\ tokens' = AddToken(AddToken(tokens, Results), Done)
    /\ UNCHANGED <<pc, path, database, frames, fault, executed, work>>

\* exec_ext, SPI_OK_INSERT and the like
Modify ==
    /\ Statement /\ Change
    /\ tokens' = AddToken(tokens, Done)
    /\ UNCHANGED <<pc, path, database, frames, fault>>

\* CREATE DATABASE, DROP DATABASE: changes without a token
ModifySilently ==
    /\ Statement /\ Change
    /\ UNCHANGED <<pc, path, database, tokens, frames, fault>>

PrintStatement ==
    /\ Statement
    /\ tokens' = AddInfo(tokens)
    /\ UNCHANGED <<pc, path, database, frames, fault, executed, work>>

\* tsql_executor::set_database.  Slip: the executor keeps its old database.
SetDatabase_TokensOnly(d) ==
    tokens' = AddDatabase(tokens, d) /\ UNCHANGED database

SetDatabase(d) == tokens' = AddDatabase(tokens, d) /\ database' = d

\* USE d, when the schema is found
UseDatabase(d) ==
    /\ Statement
    /\ path' = d
    /\ SetDatabase(d)
    /\ UNCHANGED <<pc, frames, fault, executed, work>>

\* A statement that reports an error of its own and returns 1: USE of an
\* unknown database, an SPI result exec_ext does not expect, the condition of
\* an IF or of a WHILE when it is first evaluated.
StatementError ==
    /\ Statement
    /\ tokens' = AddError(tokens)
    /\ fault' = "reported" /\ pc' = "unwind"
    /\ UNCHANGED <<path, database, frames, executed, work>>

\* do_exec on a text that does not parse returns 1 and adds no token.
ExecUnparsable ==
    /\ Statement
    /\ fault' = "silent" /\ pc' = "unwind"
    /\ UNCHANGED <<path, database, tokens, frames, executed, work>>

\* EXEC enters a program of its own, WHILE a loop body.
EnterFrame(kind) ==
    /\ Statement
    /\ frames' = <<kind>> \o frames
    /\ UNCHANGED <<pc, path, database, tokens, fault, executed, work>>

\* The steps between statements leave everything else alone.
Control == UNCHANGED <<clientVars, nread, state, pg, pathVars, started,
                       workVars, wireVars>>

\* The nested program ends, or the condition of the loop turns false.
LeaveFrame ==
    /\ pc = "run" /\ frames # << >>
    /\ frames' = Tail(frames)
    /\ Control /\ UNCHANGED <<pc, tokens, fault>>

\* The condition of the loop fails after an iteration.
WhileConditionError ==
    /\ pc = "run" /\ frames # << >> /\ Head(frames) = "while"
    /\ frames' = Tail(frames)
    /\ tokens' = AddError(tokens)
    /\ fault' = "reported" /\ pc' = "unwind"
    /\ Control

\* The error leaves one frame: a WHILE adds an error of its own and passes it
\* on, the program of an EXEC drops it and the batch goes on behind the EXEC.
UnwindWhile ==
    /\ pc = "unwind" /\ frames # << >> /\ Head(frames) = "while"
    /\ frames' = Tail(frames)
    /\ tokens' = AddError(tokens)
    /\ fault' = "reported"
    /\ Control /\ UNCHANGED pc

UnwindProgram ==
    /\ pc = "unwind" /\ frames # << >> /\ Head(frames) = "program"
    /\ frames' = Tail(frames)
    /\ fault' = "none" /\ pc' = "run"
    /\ Control /\ UNCHANGED tokens

\* Where run() goes when program->exec returns.  Slips: it returns an error
\* without writing a response; it ends the transaction before it writes; it
\* writes before it ends the transaction.
AfterBatch_SkipsWrite ==
    IF fault = "reported" THEN "finish"
    ELSE IF Current = "sql" THEN "write" ELSE "rpcfinish"
AfterBatch_FinishFirst == "rpcfinish"
AfterBatch_WriteFirst  == "write"

AfterBatch == IF Current = "sql" THEN "write" ELSE "rpcfinish"

\* program->exec returns, after its last statement or with the error; the
\* value it returns is logged and dropped.
BatchEnd ==
    /\ pc \in {"run", "unwind"} /\ frames = << >>
    /\ pc' = AfterBatch
    /\ Control /\ UNCHANGED <<tokens, frames, fault>>

----------------------------------------------------------------------------
\* The end of a batch.

Outcome == CASE fault = "none"     -> "ok"
             [] fault = "reported" -> "failed"
             [] fault = "silent"   -> "silent"

SqlWrite ==
    /\ pc = "write"
    /\ Respond(nread, Outcome, Serialise(tokens))
    /\ pc' = "release"
    /\ UNCHANGED <<clientVars, nread, state, pg, pathVars, batchVars, workVars>>

SqlRelease ==
    /\ pc = "release"
    /\ pg' = EndSub(pg)
    /\ pc' = "finish"
    /\ UNCHANGED <<clientVars, nread, state, pathVars, batchVars, workVars,
                   wireVars>>

\* An ERROR of PostgreSQL inside PG_TRY: a statement fails, or a value cannot
\* be fetched while the response is built (nothing of it is sent yet).
\* Slip: an ERROR after the response was sent is handled the same way.
Fails == UNCHANGED <<clientVars, nread, state, pg, pathVars, batchVars,
                     workVars, wireVars>>

PgError_AfterWrite ==
    /\ pc \in {"run", "write", "release"} /\ Current = "sql"
    /\ pc' = "catch"
    /\ Fails

PgError ==
    /\ pc \in {"run", "write"} /\ Current = "sql"
    /\ pc' = "catch"
    /\ Fails

\* The rollback frees the tuple tables made in the subtransaction; the error
\* joins the tokens so far.  Slip: a fresh response is started.
CaughtTokens_Fresh == AddError(<< >>)

CaughtTokens == AddError(ReleaseTables(tokens))

\* PG_CATCH
Catch ==
    /\ pc = "catch"
    /\ Rollback
    /\ Respond(nread, "caught", Serialise(CaughtTokens))
    /\ pc' = "finish"
    /\ UNCHANGED <<clientVars, nread, state, savedPath, database, batchVars,
                   executed, kept>>

Commit ==
    /\ pg' = End(pg)
    /\ kept' = work /\ work' = 0
    /\ UNCHANGED <<clientVars, nread, state, pathVars, executed>>

\* The program and its response are done with.
EndBatch ==
    /\ pc' = "recv"
    /\ tokens' = << >> /\ frames' = << >> /\ fault' = "none" /\ started' = 0

SqlFinish ==
    /\ pc = "finish"
    /\ Commit /\ EndBatch
    /\ UNCHANGED wireVars

\* An RPC commits before it writes, so SPI_finish has freed the tuple tables.
RpcFinish ==
    /\ pc = "rpcfinish"
    /\ Commit
    /\ tokens' = ReleaseTables(tokens)
    /\ pc' = "rpcwrite"
    /\ UNCHANGED <<frames, fault, started, wireVars>>

RpcWrite ==
    /\ pc = "rpcwrite"
    /\ Respond(nread, Outcome, Serialise(tokens))
    /\ EndBatch
    /\ UNCHANGED <<clientVars, nread, state, pg, pathVars, workVars>>

\* The process ends without returning from run(): it is terminated, or an
\* ERROR is raised where no PG_TRY catches it (a login, an RPC, a commit).
\* What is not committed is rolled back.
WorkerDies ==
    /\ pc \notin {"closed", "dead"}
    /\ pc' = "dead"
    /\ pg' = Idle
    /\ work' = 0
    /\ UNCHANGED <<clientVars, nread, state, pathVars, batchVars, executed,
                   kept, wireVars>>

----------------------------------------------------------------------------
Client == \/ \E where \in {"between", "inside"} : ClientClose(where)
          \/ \E type \in RequestTypes : ClientSend(type)

PacketLoop ==
    \/ RecvUnknown \/ RecvEof \/ RecvTorn
    \/ RecvPrelogin \/ RecvOutOfOrder \/ RecvIgnored
    \/ \E given \in Databases \cup {NoDb} : RecvLogin(given)
    \/ LoginEnd
    \/ RecvSqlRejected \/ RecvSql \/ RecvExecSql

Interpreter ==
    \/ Select \/ Modify \/ ModifySilently \/ PrintStatement
    \/ \E d \in Databases : UseDatabase(d)
    \/ StatementError \/ ExecUnparsable
    \/ \E kind \in {"program", "while"} : EnterFrame(kind)
    \/ LeaveFrame \/ WhileConditionError
    \/ UnwindWhile \/ UnwindProgram \/ BatchEnd

BatchClose == \/ SqlWrite \/ SqlRelease \/ Catch \/ SqlFinish
              \/ RpcFinish \/ RpcWrite

Worker == PacketLoop \/ Interpreter \/ BatchClose

Next == Client \/ Worker \/ RecvFails \/ PgError \/ WorkerDies

Spec == Init /\ [][Next]_vars

\* The worker process keeps running; nobody has to send, and errors of a
\* socket or of PostgreSQL and deaths are never due.
FairSpec == Spec /\ WF_vars(Worker)
----------------------------------------------------------------------------
(* Properties *)

Response == [id : Nat, outcome : Outcomes, stream : Seq(Token)]

\* Every variable keeps its type; in particular no transaction, SPI, snapshot
\* or subtransaction level is closed more often than it was opened.
TypeOK ==
    /\ sent \in Seq(RequestTypes) /\ hungup \in HangUps
    /\ nread \in 0..Len(sent)
    /\ state \in States /\ pc \in Locations
    /\ pg \in [xact : BOOLEAN, spi : Nat, snaps : Nat, subs : Nat]
    /\ path \in Databases \cup {NoDb}
    /\ savedPath \in Databases \cup {NoDb}
    /\ database \in Databases \cup {NoDb}
    /\ tokens \in Seq(Token)
    /\ frames \in Seq({"program", "while"})
    /\ fault \in {"none", "reported", "silent"}
    /\ started \in Nat /\ executed \in Nat /\ work \in Nat /\ kept \in Nat
    /\ reply \in Response
    /\ answered \in Seq(Nat)
    /\ clientDb \in Databases \cup {NoDb}

\* The transaction bracket around a request (StartTransactionCommand,
\* SPI_connect, PushActiveSnapshot ... CommitTransactionCommand) is closed
\* whenever the worker waits for the next packet or has left run(), however
\* the request ended; between the two it is open exactly once, and the
\* subtransaction of a SQL batch is open exactly until its response is
\* written or its ERROR is handled.
InSub == \/ pc \in {"write", "release", "catch"}
         \/ pc \in {"run", "unwind"} /\ Current = "sql"

TransactionBracket ==
    IF pc \in {"recv", "rpcwrite", "spin", "closed", "dead"}
    THEN pg = Idle
    ELSE pg = Levels(TRUE, 1, 1, IF InSub THEN 1 ELSE 0)

\* Responses go out in the order of the requests, at most one for each, and
\* only for a request that was read.
AnsweredOnceInOrder ==
    /\ \A i \in 1..Len(answered) : answered[i] \in 1..nread
    /\ \A i, j \in 1..Len(answered) : i < j => answered[i] < answered[j]

\* When the worker goes back to readpacket, every batch and every
\* sp_executesql it has read has been answered, whether it parsed, failed,
\* raised an ERROR or succeeded.
EveryRequestAnswered ==
    pc = "recv" =>
        \A n \in 1..nread : sent[n] \in {"sql", "execsql"} =>
            \E i \in 1..Len(answered) : answered[i] = n

IsStream == reply.id # 0 /\ sent[reply.id] # "prelogin"

\* A response that ends in an error says so last: when the batch stopped on a
\* reported error, on an ERROR of PostgreSQL or in the parser, the final DONE
\* carries the error flag, also when earlier statements had succeeded.  (An
\* EXEC of a text that does not parse stops the batch without a token:
\* outcome "silent".)  The stream itself has its flags in order: one final
\* DONE without more_flag, and an error DONE behind every ERROR token.
FailureTold ==
    IsStream => /\ WellFormed(reply.stream)
                /\ reply.outcome \in {"failed", "caught", "rejected"}
                     => EndsWithError(reply.stream)

\* The result sets of a SQL batch that raised no ERROR are written while
\* their tuple tables are allocated.
ResultsHeldOnSuccess ==
    IsStream /\ sent[reply.id] = "sql" /\ reply.outcome # "caught"
        => AllHeld(reply.stream)

\* exec.h:68 has tsql_results rely on the tuple table living until SPI_finish
\* releases it, so a result set of an sp_executesql that is written must still
\* have one.
ResultsHeld ==
    IsStream /\ sent[reply.id] = "execsql" => AllHeld(reply.stream)

\* Between requests the client and the executor agree on the current
\* database, also after a batch whose ERROR rolled a USE back.
ClientKnowsDatabase ==
    state = "CONNECTED" /\ pc = "recv" => clientDb = database

\* What a transaction keeps is what its response says: nothing of a batch
\* that raised an ERROR, and everything of one that did not, including the
\* statements before a reported error.
WorkMatchesOutcome ==
    pc = "recv" /\ IsStream /\ reply.id = nread =>
        /\ reply.outcome = "caught" => kept = 0
        /\ sent[nread] \in {"sql", "execsql"}
             /\ reply.outcome \in {"ok", "failed", "silent"} => kept = executed

\* The response to an sp_executesql is not on the socket before its changes
\* are committed.
RpcAnswerIsDurable ==
    IsStream /\ reply.id = nread /\ sent[nread] = "execsql"
        => kept = executed /\ ~pg.xact

\* The search path leaves the executor's database only when a rollback takes
\* back a USE.
PathDivergesOnlyByRollback ==
    [][path = database /\ path' # database' => pc = "catch"]_vars

Gone == pc \in {"closed", "dead"}

\* Every batch and every sp_executesql the client sends is answered, unless
\* the connection or the process ends first.
RequestsServed ==
    \A n \in 1..MaxRequests :
        (n <= Len(sent) /\ sent[n] \in {"sql", "execsql"})
            ~> (Gone \/ \E i \in 1..Len(answered) : answered[i] = n)

\* A worker whose client has closed the connection behind its last packet
\* ends.  (One whose client closed it inside a packet stays in readpacket.)
WorkerEnds == hungup = "between" ~> Gone
=============================================================================
