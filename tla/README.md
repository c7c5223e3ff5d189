# Verification of tdspsql

tdspsql lets a Microsoft SQL Server client talk to PostgreSQL. A listener, itself a PostgreSQL
background worker, accepts TDS connections on port 1433, has the postmaster start one worker
process for each and passes it the socket. The worker reads TDS messages, wraps every batch in a
PostgreSQL transaction, runs its T-SQL statements through SPI and answers with a stream of TDS
tokens.

The modules here are translated from the code under `src/`; `PROJECT.json` names, for every
definition, the lines it stands for. TLC checks them on small instances, and TLAPS proves their
safety properties for every value of the constants.

    cd tla
    tlc -config MCTdsSession.cfg MCTdsSession.tla      # a run
    tlapm TdsSessionProofs.tla                         # a proof

## 1. The system

| Component (source) | State it keeps | Operations | Talks to |
|---|---|---|---|
| Listener (`bgworker/init.cc`, `listener`) | two listening sockets, the sockets it has accepted, never closed | accept, register a worker, accept the worker, send it the socket | clients, postmaster, workers |
| Worker start (`init.cc`, `tdsworker`) | its end of the IPC connection | connect, receive the socket, `tdsmain::run` | listener |
| Packet framing (`tds/tdspacket.cc`) | the byte stream of a socket; position in a message | `readpacket`, `writepacket` | client, session |
| Session (`tds/tdsmain.cc`) | `state`, open transaction, SPI, snapshot and subtransaction levels, TDS version | handshake, login, SQL batch, RPC | framing, statements, PostgreSQL |
| Statement execution (`language/exec.cc`, `stmt_*.h`) | current database, search path, variables, the response under construction | SELECT, DML, IF, WHILE, EXEC, PRINT, USE, SET, ... | PostgreSQL through SPI, tokens |
| Database statements (`stmt_use.h`, `stmt_create_database.h`, `stmt_drop_database.h`) | schemas `<name>.dbo` and `<name>.information_schema` with their views in the PostgreSQL catalogue | USE, CREATE and DROP DATABASE | other sessions through the catalogue |
| Response tokens (`tdspacket_tokenised.cc`, `tdstoken*.cc`) | the token list of one response | add a token, serialise | statements, output buffer |
| Output buffer (`tds/dynbuffer.cc`) | bytes, child buffers, fix-ups of lengths and pointers | add, grow, finalise, write | tokens, framing |
| Request payloads (`tdspacket_{prelogin,login,sql,rpc}.cc`) | none beyond the message | getters on offsets, walk over RPC parameters | session |
| T-SQL parser (`language/parse.y`, `scan.l`) | `stmt_vars`, the variables of the statement being read; none between calls | text to program | session, EXEC |
| Type catalogue (`language/misc.cc`) | oid to type tables, filled at login | `init_types`, lookups | tokens, statements |
| SQL types (`types/*`) | none: functions PostgreSQL calls | input, output, casts, arithmetic | PostgreSQL |
| Language handlers, scripts | none | stubs; SQL run at installation | PostgreSQL |

**How they interact.** A client connects; the listener takes the connection, registers a worker
and waits on `/tmp/tdspsql` for *whichever* worker connects next. The worker receives the
descriptor and enters `run()`, a loop around `readpacket`. A message of type SQL is parsed,
executed inside a transaction and a subtransaction, answered, and committed; a PostgreSQL ERROR
comes back to `run()` by `longjmp` into `PG_CATCH`. An RPC for `sp_executesql` takes the same way
without subtransaction and without `PG_TRY`, and is committed before it is answered. The statements add
tokens to the response in the middle of all that; nothing goes out before the end.

**What is hard.** (a) Errors reach the response by three routes: a statement that returns 1, an
ERROR that unwinds by `longjmp`, and an error that a frame between them drops; the transaction,
the token list and the executor's own variables have to agree after each. (b) Token lists hold
pointers into SPI memory that the end of SPI or of a subtransaction frees. (c) Two processes and
two kernel queues agree on which worker gets which socket only by taking turns. (d) A message is
cut into packets by the client and into pieces by the kernel, and the stream may end anywhere.
(e) Almost no result of a system call is looked at. `PROJECT.json` lists the hazards at their
lines, with the properties that cover each or the reason why none does.

**What makes each component correct.** Listener: every connection goes to at most one worker, the
one registered for it, and clients go on being accepted. Framing: messages come out whole, once
and in order, and a reader ends with its client. Session: the transaction bracket is closed
between requests, every request is answered once and in order, the answer tells a failure, and
what was committed is what was told. Tokens: the stream is one a client can read to its end.
Statements: control flow and variables follow the text. Database statements: a session's
database, search path and what the client was told agree; databases come and go whole, whatever
other sessions do meanwhile. Parser: a placeholder stands for the variable that was written. Output buffer: no write beyond the
buffer, every length filled in. Types: values that are equal to an index stay equal, sorted rows stay
sorted, and arithmetic keeps its number.

## 2. Modules

### Session and tokens

`TokenStream` holds the token list. A token keeps its kind, the error and more bits of a DONE,
whether the tuple table behind a result set is still allocated (`held`) and the database an ENVCHANGE
announces. `AddToken`, `AddError`, `AddInfo`, `AddDatabase` are the additions of the code;
`Serialise` is `tdspacket_tokenised::writepacket`: it sets `more` on every DONE with a successor
(for good: a list that is written twice keeps the bits) and appends a DONE to a list that does not end
with one. `ReleaseTables` is what `SPI_finish` and an aborted subtransaction do to the list.
`Announces`, `WellFormed` and `EndsWithError` are what a client reads off a stream.

`TdsSession` is one worker in `tdsmain::run` with its client. `pc` is the place in `run()`; an action
is the code between two places where something else may happen.

| Action | Code |
|---|---|
| `RecvPrelogin`, `RecvLogin`, `LoginEnd`, `RecvOutOfOrder` | handshake; a login takes a transaction of its own; anything else sets STATE_FAIL |
| `RecvUnknown`, `RecvEof`, `RecvTorn`, `RecvFails` | the ways `readpacket` returns without a packet, or never |
| `RecvSqlRejected`, `RecvSql`, `RecvExecSql`, `RecvIgnored` | packets of a connected session |
| `Select`, `Modify`, `ModifySilently`, `PrintStatement`, `UseDatabase`, `StatementError`, `ExecUnparsable`, `EnterFrame` | one statement each, by what it does to the response, the database and the frames |
| `LeaveFrame`, `WhileConditionError`, `UnwindWhile`, `UnwindProgram`, `BatchEnd` | return of a value through WHILE and EXEC: WHILE adds an error of its own, EXEC drops the error |
| `SqlWrite`, `SqlRelease`, `SqlFinish` | end of a batch without ERROR: response, subtransaction, transaction, in this order |
| `PgError`, `Catch` | an ERROR in `PG_TRY`, also one raised while the response is built, and `PG_CATCH` |
| `RpcFinish`, `RpcWrite` | end of `sp_executesql`: transaction, then response |
| `WorkerDies` | process ended, or ERROR outside `PG_TRY` (RPC, login, commit): rolled back, no response |
| `ClientSend`, `ClientClose` | the client, which may send ahead and may hang up between or inside messages |

Abstractions: a batch may consist of any statements, so conditions and variables are left open; SET and DECLARE leave
nothing that this module keeps and are not actions of their own (`StatementVars` has the binding of variables). A
worker is sequential: nothing of the client's can change what happens between two receives, except what is in the
socket. An RPC whose text does not parse runs as the empty program and is answered by a plain DONE, as the code does.
PRINT of a value that is NULL crashes the code and is a case of `WorkerDies`.

### Listener

`Dispatch` is the abstract specification: connections are taken one by one, and the one taken last is given to a
worker that has none. `BgHandoff` is `init.cc`: the listener's five calls in order (`AcceptConn`, `Register`,
`IpcAccept`, `Send`), each with its failure (`AcceptError`, `AcceptNoFd`, a `Register` without a free slot,
`IpcAcceptNoFd`, a `Send` that changes nothing), the worker (`Start`, `Connect`, `Receive`, `Exit`) and the end of the
listener with what it does to workers on their way (`ListenerEnds`, `ReceiveNothing`, `Crash`). The queue of the IPC
socket has its real length. The bytes of the IPC message are left out: only the descriptor matters. (The worker reads
a `sockaddr_in` of which one byte is ever sent, despite the comment at `init.cc:34`; nothing uses it.) The signal
handlers of a background worker restart `accept`, so an interrupted accept does not occur. Binding both sockets,
retried until it succeeds, is the initial state. `IpcAcceptNoFd` is an `accept` that fails because descriptors have
run out, and they stay so; one that fails for a moment (`ENFILE`, `ENOMEM`) is not modelled. It would leave the
registered worker in the queue, and every later connection to the worker before its own. As the listener keeps every
socket open, a client cannot rely on seeing the end of its connection; the models make nothing of it.

### Framing

`MessageChannel` is the abstract specification: messages are delivered in the order in which they were
sent, the last of them possibly never. `TdsFraming` is `readpacket` and a client that cuts its messages
into packets of its choice. The stream consists of headers and single bytes of bodies; `RecvHeader`,
`RecvBody(k)`, `RecvEof`, `RecvFails` are what `recv` can do (at the end of the stream it returns 0, which
is a failure for a header and no progress for a body), `Return` is the end of `readpacket` with `run()`
coming back for more. `number` and `part` of a unit are history: the reader never looks at them. Left out: packet
lengths below 8, and the size of the 1 MB buffer.

`TdsSession` takes `readpacket` in one step per message. That is what `Reassembles` justifies, and
`RecvTorn` and `RecvEof` there are the two ends that `SpinsOnlyWhenTorn` and `ReaderEnds` describe.

### Response

`DynBuffer` is the memory block a response is built in, `ResultRows` the columns and cells of a result
set, `ResponseWriter` the building of a response and its cut into packets: `tdspacket::writepacket(sock)`
with what it calls, for token lists and for the answer to a prelogin.

| Action | Code |
|---|---|
| `StartTokens`, `StartPrelogin`, `Finish` | `tdspacket_tokenised::writepacket`, `tdspacket_prelogin::writepacket` |
| `BeginMessage`, `BeginLoginAck`, `BeginDatabase`, `BeginCollation`, `BeginDone`, `BeginResults` | a token in a child buffer of its own; its additions are listed in `todo` |
| `Column`, `Row`, `NextCell` | the loops of `tdstoken_results::writetoken` |
| `Add`, `AddLength`, `AddCounted`, `AddPointer` | one addition: `add_u8` to `add_bytes`, `add_length_hu16`, `add_cc1_ucs2` and `add_cch2_ucs2`, `add_bytes` with a pointer; each may double the block |
| `Overrun` | an addition that does not fit into the doubled block either: it is written behind it |
| `EndToken`, `PutTail` | `finalise`: the length of a token, the data behind the pointers |
| `WritePacket`, `Return` | the loop that cuts the response into packets |

`make_room` doubles the block once, and nothing asks whether that is enough. Texts and values may have any length
here; the first that does not fit is an `Overrun`, after which what memory holds is not defined and the behaviour
ends. `OverrunOnlyByLong` says what it takes: an addition longer than the whole block, so of more than 1024 bytes. The
converter that `AddText` uses is taken to exist; if it did not, the code would add nothing (`dynbuffer.cc:222`, 266).

Bytes are positions. `held` are the positions of the block that hold what was put there: what is stored behind the end
of the block, or not copied when the block is replaced, is not in it. A field has a size, and a value where a client
goes by it (lengths, chunk sizes, the NULL word); all other values are left out. ERROR and INFO tokens have the same
fields and are one action. That a list ends with a DONE, and what its tokens are, is the business of `TokenStream`. A
client is in `ResultRows` too. It knows of a column what `Describe` has told it, the type and the announced length,
and never the typmod: `Reads` takes it over one cell by these, with chunks where a client of 7.2 or later has been
told `ff ff`, and `Readable` says that it gets over all cells to the end of the row. So the rule the writer goes by
(`Chunked`: the typmod is -1) and the rule the reader goes by are two, and they differ for `varchar(max)`
(`Misannounced`), which is a finding. `RowsReadable` excludes that by name, and three more: columns that are described
and never sent, values too long for their word, and empty values in chunks. An empty value adds no field, so the
client takes its empty chunk for the terminator and the terminator for the next cell (`tdstoken_results.cc:158` to
162, `EmptyInChunks`). The announced length is not compared with the length of values: an `nvarchar(n)` is announced
as n where a client wants bytes (`docs/versions:90`). `empties` marks the second byte of the count of an empty
message, for which `add_cch2_ucs2` reserves only the first (`dynbuffer.cc:272`). The header of a packet is left out
except for its length and eom_flag, and so are short writes.

### Databases

`DatabaseSet` is the abstract specification: a set of names; a session creates and drops whole names, and what it did
shows to the others with its commit or not at all. `DatabaseCatalog` is the three statements as the SQL commands they
consist of, in several sessions at once. The catalogue is a set of objects: for each database the two schemas and five
views that `CREATE DATABASE` makes (`Created`), or, for one of `Installed`, the two schemas that installation makes of
master, `dbo` and `sys` (`Shipped`, `scripts/000_drop_create.sql:33` to 37). Both shapes are whole. A database that is
installed cannot be created, `DROP DATABASE` lists whatever schemas it has, and if it is created again it has the
other shape. `own[s]` and `gone[s]` are what a session has created and dropped and not committed.

| Action | Code |
|---|---|
| `Login`, `Begin`, `EndBatch`, `Commit`, `PgError` | a new connection with the database its login names, the transaction of a batch, the response that is sent in it, its end once the client has read that, and `PG_CATCH`; `TdsSession` has these in full |
| `UseCount`, `UseUnknown`, `UseSwitch` | `stmt_use.h`: the count of schemas, error 911, `SET SEARCH_PATH` with `database` |
| `CreateStart`, `CreateCommand`, `CreateFails` | `stmt_create_database.h`: seven commands, one at a time |
| `DropStart`, `DropCommand`, `DropFails` | `stmt_drop_database.h`: the list of schemas by `LIKE`, then `DROP SCHEMA ... CASCADE` for each |
| `DeadlockDetected` | PostgreSQL, when sessions wait for each other in a circle |

A batch is a SQL batch, whose response is sent inside the transaction (`tdsmain.cc:240`, 241, 273 to 275): at `answer`
the session holds its locks and waits for its client. `sp_executesql`, which commits before it writes, is not modelled
here.

What PostgreSQL does below these commands is external and modelled from how they use it: each command reads the catalogue
afresh, a command that creates a name waits for another transaction that has created it and not ended, one that drops a
schema waits for another transaction that has dropped it, and a circle of waits ends with an ERROR in one of them. A worker
that dies is a `Login`: its transaction is rolled back and the session is the next connection. `Like` is
a constant, which names a `LIKE` pattern matches; it includes longer names with the same beginning.
Names with an underscore, which in a pattern also matches the dot of `<name>.dbo`, are left out.

### Variables

`StatementVars` is the part of the parser that binds variables. `stmt_vars` is one list for the statement being read,
and a statement gets it when it is reduced. A rule in the middle of IF and WHILE puts the list of the condition aside,
in a `stack` here and on the parser's stack in the code, and the end of the statement brings it back. The steps are
reductions and the shifts that lead to them, on any sequence of tokens; of an expression its variables are kept, and
of the statements that read expressions that they do, so `leaf` stands for SET, PRINT, EXEC, queries and so on. The
module ends with the text: values of variables, and the execution of what was parsed, are not in it. Neither are
variables in the defaults of DECLARE and CREATE PROCEDURE (`parse.y:485`, 861), which enter `stmt_vars` although the
text of the default is dropped.

### Types

`StringTypes` has varchar, nvarchar and varbinary with the functions that the installation scripts declare. A value is
its bytes. The module takes *two* values of a type through the same functions side by side, as what matters about
their comparison is a statement about pairs: `Holds` is the operators, `Truncated` the cast to a length, `In` and
`Out` the texts, the actions are the functions. Where a function leaves a result that is not a value (`left`, `rtrim`,
`replace`, the case of a wide unit, the text of a wide unit, `max` of varbinary), the action says so by a `status`
(`garbled`, `error`, `overrun`, `crash`) that ends the behaviour, and `EqualStaysEqual` and `OrderKept` claim nothing
for it; those faults are listed at the end of section 5. `tsql_varchar_ltrim` is declared nowhere (SQL's `ltrim` is
`rtrim`) and is not modelled. The order of nvarchar is that of an ICU collator of strength "secondary"
(`tsql_nvarchar.c:56` to 58), external and modelled by its two levels: `Primary`, the letters without case or accent,
and, where all letters are the same, `Secondary`, the accents. What has no letter, such as a combining mark, is
ignored on the first level, and what has no accent weighs less than an accent on the second. ASCII letters, digits and
spaces sort as their codes do but for case (`InCollationOrder`); of every other unit the constant `Elements` says
which letter and which accent it is, so that a letter in one unit and the same letter with a combining mark behind it
are equal. Outside the model are letters that sort as two (ß, æ) and pairs that sort as one. The order on accents is
what makes a cut dangerous: áb is before ac, and á is behind a. The two properties name what is excluded: `Marked`,
values with a unit that has no letter; `AccentsLeft`, an nvarchar that was cut before the letter that decided;
`Extended`, text behind a value that the other one starts with; `Recollated`, a varchar with letters beyond ASCII that
becomes an nvarchar. varchar is compared by `strncasecmp`, in a locale where bytes above 127 have no case (C, or any
with UTF-8).

`DecimalType` has decimal: `In` with its typmod, casts from and to integers and floats, arithmetic, comparison. A
value is a magnitude and a scale (kept in a byte, so modulo 256, which is real size in the model), and beside it
stands the number that it is meant to be, computed without them. Where an operation cannot keep to the number (a minus
sign, operands of different scales, a value too wide for an integer type), the number is `Lost`: the conditions under
which it is not are what the module says about the code, and they are many. Integer widths are constants. Texts
written by `tsql_decimal_out`, and the comparison of a decimal with an int, whose `=` and `!=` return the same, are
left out.

`MC*` modules only instantiate a module for TLC. Operators named `X_Something` in a module are slips, that is wrong
variants of the definition `X` below them; each property is known to fail when the variant listed under "mutants" in
`PROJECT.json` takes the place of the definition.

## 3. Runs

| Run | Instance | Shows |
|---|---|---|
| `session_safety` | 2 databases, 4 requests, 3 statements in a batch; 6.4 million states | `TypeOK`, `TransactionBracket`, `AnsweredOnceInOrder`, `EveryRequestAnswered`, `FailureTold`, `ResultsHeldOnSuccess`, `ClientKnowsDatabase`, `WorkMatchesOutcome`, `RpcAnswerIsDurable`, `PathDivergesOnlyByRollback` |
| `session_live` | 1 database, 3 requests, 2 sent ahead | `RequestsServed`, `WorkerEnds` |
| `results_held` | the same, 1 ahead | violated: `ResultsHeld` |
| `handoff` | 3 clients, 4 workers, 2 slots, 6 descriptors; 253 thousand states | `TypeOK`, `OwnWorker`, `RunsOnItsSocket`, `HandsOver` (refines `Dispatch`), `WedgedForGood`, `Served` |
| `handoff_listens` | 3 clients, 1 slot | violated: `Listens` |
| `framing` | 2 messages of up to 2 packets of up to 2 bytes, 2 types and any other | `TypeOK`, `SpinsOnlyWhenTorn`, `Reassembles` (refines `MessageChannel`), `Delivered`, `ReaderEnds` |
| `response_safety` | blocks of 10 bytes, packets of 9, lengths below 16, 3 tokens, 2 columns, 2 rows; 2.35 million states | `TypeOK`, `Whole`, `Navigable`, `RowsReadable`, `OverrunOnlyByLong`, `PacketsTile` |
| `max_in_chunks` | the same | violated: `MaxReadable` |
| `catalog` | 2 sessions, 2 databases of which one name begins with the other and one may be installed, 2 statements; 270 thousand states | `TypeOK`, `Whole`, `StrandedOnlyByLoss`, `DatabasesAtomic` (refines `DatabaseSet`), `BatchEnds` |
| `strings` | a letter in both cases and with two accents, one of which is also a combining mark, and a Greek letter; pieces of up to 2 units, values of up to 5 bytes; 71 thousand states | `EqualStaysEqual`, `OrderKept` |
| `decimals` | 2 values, bytes of 3 bits and ints of 5, magnitudes up to 40; 59 thousand states | `Exact`, `Ordered` |
| `variables` | 2 variables, one in two spellings, up to 2 in an expression, statements 2 deep; 611 thousand states | `Bound`, `OnlyItsOwn` |

**Why these bounds.** A session needs two requests for the handshake, so four leave two batches: what one leaves
behind and the other finds. Three statements make a USE, a result set and an error, or a WHILE in an EXEC with an
error in it, in any order; two databases are enough to tell the old from the new. In the handoff, two slots with six
descriptors let both resources run out in the same behaviour, and four workers leave one to be confused with another
at any time. In the framing, two messages of two packets have every seam: piece/piece, body/header of the same
message, message/message, empty bodies, a change of the type within a message. In the response, a block of 10 bytes
doubles several times in a response and within one token, and the count of an empty message falls on its last byte;
packets of 9 bytes make some responses fill their packets exactly; token lengths that wrap at 16 occur and do not
disturb the rest. Texts are empty or make 10 bytes of 7 bytes in UTF-8, and values are empty or have 12 bytes, so both
fit into the doubled block at some places and not at others; typmods are none, one that a word holds, and one that a
word of 4 bits (15 is NULL) cuts to the NULL; the row types are one of each shape: limited and unlimited string, fixed
size, never sent. In the catalogue, two statements are enough for every pair of statements of two sessions to
interleave, command by command: a USE is overtaken by a DROP, and two sessions that drop the same list, which has four
schemas, do so in every order, also in a circle. More statements, such as a USE overtaken by a DROP and a CREATE, add
nothing the proofs do not cover. Pieces of two units joined and cut at 4 and 5 bytes give strings each function can
take an odd or a complete part of, and the limits lie on either side of the four bytes that `left` takes for a header.
A letter with two accents and a letter of another script give pairs told apart by a letter, by an accent, and by both
in opposite directions; one accent in one unit and as a mark gives equal values of different lengths. Magnitudes up to
40 exceed a byte and an int of the instance, and 17 is the literal that an int does not hold. Two spellings of one
variable and another variable, in conditions two deep, let every condition share none, some or all of its variables
with the statements inside it. The safety properties of all these runs are proved without bounds.

**Deadlock** checking is off: a client may stop sending, a session ends, a listener may wait for
good (which `WedgedForGood`, `Served` and `Listens` are about), and a token list that has reached its bound without
a DONE at the end is not continued. Parsing ends with the text, and a string ends with a function whose result is no
value. Sessions that wait for each other in a circle are not TLC's deadlock either, as a `Login` is always
possible: `BatchEnds` is about them. It is on in `decimals`.

**Fairness.** Weak fairness of the worker's steps (`TdsSession`, `TdsFraming`) and of the listener's and of each
started worker's steps (`BgHandoff`): they are processes the operating system schedules, and a process that can take
its next step does so. The bound on requests, statements and loops stands for batches that end. In `DatabaseCatalog`
each session is weakly fair in what it does by itself once a statement has begun (`Progress`): PostgreSQL grants a
lock that has become free, and raises an ERROR in a circle of waits. That holds of one command at a time, and it needs
no more: the longest chain of waits has an end, or is a circle. `Commit` is not part of `Progress`: the response goes
out before it, with a `send` that waits for the client (`tdspacket.cc:112`), and a client that does not read keeps the
locks of its CREATE or DROP for good and every session that waits for them with it. `BatchEnds` says that this is all:
a batch that never ends has such a client at the end of every chain of waits. Clients are not fair, and failures
(errors of a socket, ERRORs of PostgreSQL, deaths, exits) never have to happen. `Delivered`, `Served` and
`RequestsServed` name every failure that excuses them.

**Findings.** `results_held`: `sp_executesql` calls `SPI_finish` before it serialises the response (`tdsmain.cc:318`,
321), while `exec.h:68` relies on `SPI_finish` as the end of a result set's life; the run shows one `sp_executesql`
with one SELECT. `max_in_chunks`: `varchar(max)` has the typmod 0x7FFFFFFF (`tsql_varchar.c:103`), which the
description of the column cuts to `ff ff`; `docs/versions:49` to 56 gives that length data in chunks, and the code
sends chunks for a typmod of -1 only (`tdstoken_results.cc:151`). `handoff_listens`: `README.md:43` has the listener
listen on port 1433; once every worker slot is taken, the next connection leaves it waiting for a worker that was
never registered (`init.cc:144`, 146), for good, although no process failed.

## 4. Proofs

| Module | Theorems | Inductive invariant |
|---|---|---|
| `TdsSessionProofs` | `SerialiseWellFormed`, lemmas on every operator of `TokenStream` | none: constant level |
| | `TypeCorrect`, `BracketCorrect`, `ClientKnowsDatabaseCorrect` | `Base`: type, bracket, `Position` (which state and packet each place belongs to), `Knows` |
| | `AnsweredOnceInOrderCorrect`, `EveryRequestAnsweredCorrect`, `FailureToldCorrect`, `WorkMatchesOutcomeCorrect`, `RpcAnswerIsDurableCorrect`, `ResultsHeldOnSuccessCorrect`, `PathDivergesOnlyByRollbackCorrect` | on top of `Base`: `Answers`, `Told`, `Worked`, `Held` |
| `BgHandoffProofs` | `TypeCorrect`, `OwnWorkerCorrect`, `RunsOnItsSocketCorrect`, `WedgedForGoodCorrect`, `HandsOverCorrect` | `IInv` |
| `TdsFramingProofs` | `TypeCorrect`, `SpinsOnlyWhenTornCorrect`, `ReassemblesCorrect` | `IInv` |
| `ResponseWriterProofs` | `TypeCorrect`, `WholeCorrect`, `NavigableCorrect`, `PacketsTileCorrect`, `OverrunOnlyByLongCorrect` | `AlwaysInv`: `IInv`, or what is left of it after an `Overrun` |
| | `RowsReadableCorrect` | `RowInv`, with `TypeOK` |
| `DatabaseCatalogProofs` | `TypeCorrect`, `WholeCorrect`, `StrandedOnlyByLossCorrect`, `DatabasesAtomicCorrect` | `IInv`: `TypeOK`, `Facing`, `Pending`; `StrandedOnlyByLoss` needs the first two only |
| `DecimalTypeProofs` | `TypeCorrect`, `ExactCorrect`, `OrderedCorrect` | `IInv`: every value is in `Goods` |
| `StatementVarsProofs` | `TypeCorrect`, `BoundCorrect`, `OnlyItsOwnCorrect` | `IInv`: `TypeOK`, and `Matches` of every text with its list |
| `StringTypesProofs` | `TypeCorrect`, `EqualStaysEqualCorrect`, `OrderKeptCorrect` | `TypeOK` |
| | `OperatorsCorrect` | none: constant level |

* **Session.** `ClientKnowsDatabase` only speaks of `recv`, so `Knows` follows the database through a batch: reading
  the tokens so far brings the client from its database to the executor's, whatever `Serialise` and an appended error
  do to the list. `Told` says the same of errors: every ERROR token has its error DONE behind it, and an error that is
  on its way out is the last thing in the list. No DONE is marked before the list is written, which is where a second
  `writepacket` of the same list could go wrong: `PgError` must not be possible after `SqlWrite`.
* **Handoff.** `OwnWorker` is not inductive: what excludes a stray worker in the queue is that the listener never
  takes the next connection before the last worker has connected. `LockStep` is that: as long as descriptors are left
  there is no unclaimed worker outside `ipcaccept`, and there at most the one meant for the connection in hand. When
  descriptors have run out nothing can be sent any more, so the invariant needs no more than that.
* **Framing.** The invariant `Stream` reads positions from the reader to the client. It speaks of any two positions of
  the same body at once (`Bodies`), not of neighbours, so that taking k bytes needs no induction; `Headers` links
  bodies, `Endings` says that a message that ends on the wire was sent, `Back` fits the last position to the client.
  All reader steps are one lemma: the new position of the reader is that of the last unit it took (`Shift`).
* **Response.** `Whole` alone is not inductive. `Built` adds that the block reaches to the position of the next
  addition, except right after the count of an empty message, and `Queue` that such a count is followed by a short
  text, which asks for room before anything is stored. Nothing bounds what is added: a step is either an addition that
  fits, which keeps `IInv`, or the `Overrun`, which moves nothing (`Ended`). `OverrunOnlyByLong` needs that the
  position of the next addition is never behind the block, since then a doubled block has room for as much again as
  the old one had. `Places` keeps positions of lengths and pointers within what has been built, so that `finalise`
  overwrites and never extends; `Listed` chains the tokens, `Sent` the packets. Rows are apart from all that: what a
  cell adds is read in one go by the type and length its column was described with (`ReadsCell`, one case for each
  shape, from `DescribedLength`), reading stays where it was when more is put behind it (`ReadsStill`), and `NextCell`
  makes the client's positions longer by one (`OneMore`). `RowsReadable` holds at every cell and not only at the end
  of a row, so it is nearly inductive by itself.
* **Databases.** `Whole` speaks of the committed catalogue, which only a commit changes, so the invariant has to say
  what every session would commit: `Shaped` does, place by place. Between statements `own` and `gone` hold databases
  that are whole, in the middle of a CREATE one database is short of the part it is facing and those after it, in the
  middle of a DROP a database that is half gone has its other schema in `doomed`. A database has up to three schemas
  and two shapes, of which only `Created` can be in `own`; `ShapeFacts` and `Halves` say what a DROP finds of each.
  `CommitsCompose`, which says that sessions do not create or drop the same thing, is nothing but PostgreSQL's locks,
  so it is a lemma here and not a property: it keeps the shape of one session through the commit of another. Under the
  refinement, the commands of a CREATE are stutters but for the last, which is `Create`. Of the two commands that drop
  a database, the first is `Drop` if the session has made the database itself, and the second if it was committed; the
  other is a stutter. `Login` and `PgError` are `Abort`.
* **Decimals.** A value in `Goods` is of the right type, and its number is lost or is its magnitude with its scale.
  One lemma for each operation says that it takes `Goods` to `Goods`, and the lemma on `Compare` gives `Ordered`.
* **Variables.** `Bound` and `OnlyItsOwn` speak of the statement reduced last. The end of an IF brings back a text and
  a list that were put aside any number of statements ago, so the invariant has to say of every text that it `Matches`
  its list: of the one being read, of each on the stack, of the last statement. A variable that is read keeps that
  (`VarMatches`: `Place` gives it the place it has or the one behind the list), and after a statement nothing is left
  in `stmt_vars` for the next one, since a list that matches an empty text is empty.
* **Strings.** The comparison looks at the letters of a value and then at its accents, and both leave out what is
  ignored. In values without marks nothing is ignored among the letters, and the order on accents is that of the
  accents letter by letter (`AccentsOrder`, from `KeptBelow` on sequences with parts left out), so that `Holds` comes
  down to `Before` (`UnmarkedHolds`): the lists of letters, and where they are the same, of accents, which have one
  place for each unit. What each function does to units, and so to these lists, is in `WeightsCut`, `WeightsWidened`,
  `WeightsCased` and `WeightsJoined`. `Effect` reduces every action to one of five: it cuts both values at one place
  (`Cuts`), changes case only (`Recases`), puts the same value before or behind both (`Adds`), takes the larger of
  each and a third (`Picks`), or makes them the same (`Forgets`). A cut keeps the order unless only accents are left
  to decide; something in front keeps it always, and something behind if the letters differ before it. The exceptions
  of `OrderKept` are what these lemmas have to assume. `OperatorsCorrect` is about the comparison itself: the
  commutators and negators that the installation scripts declare (`scripts/200_tsql_varchar.sql:28` to 33 and the same
  for the other types) are right, and the operators of the btree classes are one total order.
* **Least elements.** `FirstOf` and `Place` choose the first position with some property. That there is one is a fact
  about well-founded orders (`LeastNat`, from the library's `NatLessThanWellFounded`), so these proofs need no
  induction, and what a client reads off a row is a relation between positions (`Readable`) and not a recursion.
* **Assumptions.** `NoDbAssumption`, `SessionAssumption`, `HandoffAssumption` and `FramingAssumption`: the
  placeholders are none of the real values and the bounds are natural numbers. `CatalogAssumption`: a pattern matches
  the name it is made of. `DecimalAssumption`: digits and places are natural numbers, column parameters fit in a byte.
  `CatalogAssumption` also says that what is installed is among the databases. `WriterAssumption`: a new block has at
  least 8 bytes, what the longest fixed addition takes, a character takes at least a byte in UTF-8, and a value is
  shorter than the four-byte NULL, as PostgreSQL has none of more than 1 GB; no bound on texts or values relates them
  to the block. `StringAssumption`: the bytes of texts are ASCII letters, digits and spaces, or bytes that `Elements`
  says the letter and accent of; `Elements` itself may say anything of any unit beyond ASCII. TLC evaluates all of
  them in every run.

**Only model-checked:** the liveness properties (`RequestsServed`, `WorkerEnds`, `Served`, `Delivered`, `ReaderEnds`,
`BatchEnds`), which are out of the prover's reach. The three violated properties have counterexamples, not proofs.

## 5. Not modelled, and what could follow

Not modelled at all:

* the type catalogue (`language/misc.cc`): `init_types` fills a table once; its mistakes in single columns are listed below;
* the language handlers, which are stubs, and the installation scripts, which run once;
* `language/interface.cc`, which is not built.

Left out of the modelled components:

* **Session and tokens:** values in tokens, among them the row count of a DONE and a REAL; the type byte of a
  response, which is never assigned (`tdspacket_tokenised.cc:4`).
* **Framing and buffer:** short writes, the size of the buffer of `readpacket`, packet lengths below 8, and what
  happens after a byte was written behind the block.
* **Request payloads:** offsets and conversions of login, SQL and RPC requests, and the walk over the parameters of an
  RPC.
* **Statements:** the values of variables, so FETCH's status and what a condition comes to: a condition is true or
  false each time, which includes the `*result` that `exec_bool` leaves as it was (`exec.cc:252`); the text of
  queries, and with it the rewriting of `parse.y` and the placeholder that is searched for in one string and replaced
  in another (`exec.cc:223`).
* **Databases:** names with an underscore in a LIKE pattern; tables, which do not bear on the three statements.
* **Types:** the integer types, whose functions are one C operator each; datetime, a stub of constants with inverted
  equality; the text of decimals; conversions of uniqueidentifier; binary send and receive, which copy.

Mistakes met while reading that need no sequence of steps to show, so that no property is about them:

* `tdstoken_done.cc:17` writes the upper half of the row count as `token_rowcount > 32`; `tdstoken_results.cc:281`
  cuts a REAL to one byte.
* `parse.y:666` rewrites `ORDER BY x DESC` to ASC; `parse.y:686` deletes a column that is read afterwards;
  `program.h:17` declares variables in a table that nothing reads; `stmt_exec.h:18` answers an EXEC of a text that
  does not parse without an error.
* `misc.cc:65` cuts the name of a domain one letter too late, so its type is not found; `stmt_drop_database.h:15` has
  a pattern in which an underscore matches the dot, so that `DROP DATABASE a_d` lists `a.dbo`.
* `tsql_varchar.c:378` (`rtrim`) leaves the last byte unset and copies -1 bytes of a value of spaces; line 392
  (`left`) asks for eight bytes less than it writes; line 412 (`replace`) takes its first argument for all three.
  `tsql_nvarchar.c:370` changes the case of halves of units. `tsql_varbinary_max` is not declared with the calling
  convention it uses.
* The scripts declare `+` of strings its own commutator (`200_tsql_varchar.sql:46`, `202_mssql_nvarchar.sql:49`,
  `204_mssql_varbinary.sql:40`).
* `tsql_decimal.c:397`: `decimal = int` is what `!=` is; line 149: the text of 0.05 has a negative size.
  `tsql_int_ops.t:107`: bigint + int is returned as the narrower type. `tsql_datetime.c:106`: equality is inverted.

What could follow: the responses of `TdsSession` as `ResponseWriter` sends them, with `MessageChannel` in the direction of the
client; the parameters of an RPC, one of an unknown type among them; the interpreter's variables with the lifetimes of the memory
behind them.
