-------------------------- MODULE TdsSessionProofs --------------------------
(***************************************************************************)
(* The safety properties of TdsSession, for every set of databases and     *)
(* every bound, in three parts: facts about the token list of a response;  *)
(* Base, the inductive invariant that all rest on, with types, the         *)
(* transaction bracket, which packet each place in run() serves, and which *)
(* database the unsent tokens will announce; and the responses: their      *)
(* order, that none is left out, and what their streams tell.              *)
(***************************************************************************)
EXTENDS TdsSession, TLAPS

----------------------------------------------------------------------------
(* Token lists *)

\* A list as the executor builds it: nothing is marked yet, and each ERROR
\* token has its DONE behind it.
Unmarked(toks) == \A i \in 1..Len(toks) : ~toks[i].more

ErrorsPaired(toks) ==
    \A i \in 1..Len(toks) : toks[i].kind = "error" =>
        /\ i < Len(toks)
        /\ toks[i + 1].kind = "done"
        /\ toks[i + 1].error

Silent(t) == t.kind # "env_database"

----------------------------------------------------------------------------
\* The tokens the constructors of tds/ make are tokens.
LEMMA TokenTypes ==
    /\ \A k \in Kinds : Plain(k) \in Token
    /\ Done \in Token /\ DoneError \in Token /\ Results \in Token
    /\ \A d \in Databases : EnvDatabase(d) \in Token
BY DEF Plain, Done, DoneError, Results, EnvDatabase, Token, Kinds

\* add_token adds one token at the end.
LEMMA AddTokenFacts ==
    ASSUME NEW toks \in Seq(Token), NEW t \in Token
    PROVE  /\ AddToken(toks, t) \in Seq(Token)
           /\ Len(AddToken(toks, t)) = Len(toks) + 1
           /\ AddToken(toks, t)[Len(toks) + 1] = t
           /\ \A i \in 1..Len(toks) : AddToken(toks, t)[i] = toks[i]
BY DEF AddToken

\* The pairs of tokens the executor adds are lists of tokens.
LEMMA PairTypes ==
    ASSUME NEW toks \in Seq(Token)
    PROVE  /\ AddError(toks) \in Seq(Token)
           /\ AddInfo(toks) \in Seq(Token)
           /\ \A d \in Databases : AddDatabase(toks, d) \in Seq(Token)
<1>1. AddError(toks) \in Seq(Token)
  BY TokenTypes, AddTokenFacts DEF AddError, Kinds
<1>2. AddInfo(toks) \in Seq(Token)
  BY TokenTypes, AddTokenFacts DEF AddInfo, Kinds
<1>3. ASSUME NEW d \in Databases PROVE AddDatabase(toks, d) \in Seq(Token)
  BY TokenTypes, AddTokenFacts DEF AddDatabase, Kinds
<1> QED BY <1>1, <1>2, <1>3

\* Freeing a tuple table and setting more_flag each change one field.
LEMMA FreedFacts ==
    ASSUME NEW t \in Token
    PROVE  /\ Freed(t) \in Token
           /\ Freed(t).kind = t.kind /\ Freed(t).db = t.db
           /\ Freed(t).error = t.error /\ Freed(t).more = t.more
BY DEF Freed, Token

LEMMA MarkedFacts ==
    ASSUME NEW t \in Token
    PROVE  /\ Marked(t) \in Token
           /\ Marked(t).kind = t.kind /\ Marked(t).db = t.db
           /\ Marked(t).error = t.error /\ Marked(t).more
BY DEF Marked, Token

\* Freeing the tuple tables keeps every token at its place.
LEMMA ReleaseFacts ==
    ASSUME NEW toks \in Seq(Token)
    PROVE  /\ ReleaseTables(toks) \in Seq(Token)
           /\ Len(ReleaseTables(toks)) = Len(toks)
           /\ \A i \in 1..Len(toks) :
                 ReleaseTables(toks)[i] = Freed(toks[i])
<1>1. \A i \in 1..Len(toks) : toks[i] \in Token
  OBVIOUS
<1>2. \A i \in 1..Len(toks) : Freed(toks[i]) \in Token
  BY <1>1, FreedFacts
<1> QED BY <1>2 DEF ReleaseTables

\* Marking touches only a DONE with a successor.
LEMMA MarkMoreFacts ==
    ASSUME NEW toks \in Seq(Token)
    PROVE  /\ MarkMore(toks) \in Seq(Token)
           /\ Len(MarkMore(toks)) = Len(toks)
           /\ \A i \in 1..Len(toks) :
                 MarkMore(toks)[i] = IF toks[i].kind = "done" /\ i < Len(toks)
                                     THEN Marked(toks[i])
                                     ELSE toks[i]
<1>1. \A i \in 1..Len(toks) : toks[i] \in Token
  OBVIOUS
<1>2. \A i \in 1..Len(toks) : Marked(toks[i]) \in Token
  BY <1>1, MarkedFacts
<1> QED BY <1>1, <1>2 DEF MarkMore

\* What is written is the list itself, marked, with at most one DONE behind
\* it.
LEMMA SerialiseFacts ==
    ASSUME NEW toks \in Seq(Token)
    PROVE  /\ Serialise(toks) \in Seq(Token)
           /\ \/ /\ EndsWithDone(toks)
                 /\ Serialise(toks) = MarkMore(toks)
              \/ /\ ~EndsWithDone(toks)
                 /\ Serialise(toks) = Append(MarkMore(toks), Done)
BY MarkMoreFacts, TokenTypes DEF Serialise

----------------------------------------------------------------------------
\* Which database a stream announces.

\* A stream announces at most one database.
LEMMA AnnouncesOne ==
    ASSUME NEW toks \in Seq(Token), NEW before, NEW d, NEW e,
           Announces(toks, before, d), Announces(toks, before, e)
    PROVE  d = e
<1>1. CASE \A i \in 1..Len(toks) : toks[i].kind # "env_database"
  BY <1>1 DEF Announces
<1>2. CASE \E i \in 1..Len(toks) : toks[i].kind = "env_database"
  <2>1. PICK i \in 1..Len(toks) :
               /\ toks[i].kind = "env_database" /\ toks[i].db = d
               /\ \A k \in 1..Len(toks) : k > i =>
                     toks[k].kind # "env_database"
    BY <1>2 DEF Announces
  <2>2. PICK j \in 1..Len(toks) :
               /\ toks[j].kind = "env_database" /\ toks[j].db = e
               /\ \A k \in 1..Len(toks) : k > j =>
                     toks[k].kind # "env_database"
    BY <1>2 DEF Announces
  <2>3. i = j
    BY <2>1, <2>2
  <2> QED BY <2>1, <2>2, <2>3
<1> QED BY <1>1, <1>2

\* What it announces is a database, or the one the client had before.
LEMMA AnnouncesType ==
    ASSUME NEW toks \in Seq(Token), NEW before \in Databases \cup {NoDb},
           NEW d, Announces(toks, before, d)
    PROVE  d \in Databases \cup {NoDb}
<1>1. \A t \in Token : t.db \in Databases \cup {NoDb}
  BY DEF Token
<1>2. \A i \in 1..Len(toks) : toks[i] \in Token
  OBVIOUS
<1>3. \A i \in 1..Len(toks) : toks[i].db \in Databases \cup {NoDb}
  BY <1>1, <1>2
<1> QED BY <1>3 DEF Announces

\* A response without tokens announces nothing new.
LEMMA AnnouncesEmpty ==
    ASSUME NEW before
    PROVE  Announces(<< >>, before, before)
BY DEF Announces

\* Two lists that agree on the announcements announce the same.
LEMMA AnnouncesAlike ==
    ASSUME NEW toks \in Seq(Token), NEW alike \in Seq(Token),
           NEW before, NEW d,
           Len(alike) = Len(toks),
           \A i \in 1..Len(toks) : /\ alike[i].kind = toks[i].kind
                                  /\ alike[i].db = toks[i].db,
           Announces(toks, before, d)
    PROVE  Announces(alike, before, d)
BY DEF Announces

\* A token that is no announcement leaves the list's announcement.
LEMMA AnnouncesSilent ==
    ASSUME NEW toks \in Seq(Token), NEW t \in Token, Silent(t),
           NEW before, NEW d, Announces(toks, before, d)
    PROVE  Announces(AddToken(toks, t), before, d)
<1>1. /\ Len(AddToken(toks, t)) = Len(toks) + 1 /\ Len(toks) \in Nat
      /\ AddToken(toks, t)[Len(toks) + 1] = t
      /\ \A i \in 1..Len(toks) : AddToken(toks, t)[i] = toks[i]
  BY DEF AddToken
<1>2. t.kind # "env_database"
  BY DEF Silent
<1> QED BY <1>1, <1>2 DEF Announces

\* An announcement at the end is the one that counts.
LEMMA AnnouncesLast ==
    ASSUME NEW toks \in Seq(Token), NEW before, NEW d \in Databases
    PROVE  Announces(AddToken(toks, EnvDatabase(d)), before, d)
<1>1. EnvDatabase(d).kind = "env_database" /\ EnvDatabase(d).db = d
  BY DEF EnvDatabase, Plain
<1>2. /\ Len(AddToken(toks, EnvDatabase(d))) = Len(toks) + 1
      /\ Len(toks) \in Nat
      /\ AddToken(toks, EnvDatabase(d))[Len(toks) + 1] = EnvDatabase(d)
  BY AddTokenFacts, TokenTypes
<1> QED BY <1>1, <1>2 DEF Announces

\* The tokens of exec.cc that are no announcements.
LEMMA SilentTokens ==
    /\ \A k \in Kinds \ {"env_database"} : Silent(Plain(k))
    /\ Silent(Done) /\ Silent(DoneError) /\ Silent(Results)
BY DEF Silent, Plain, Done, DoneError, Results, Kinds

\* tsql_executor::error and info announce nothing, set_database announces
\* its database.
LEMMA AnnouncesPairs ==
    ASSUME NEW toks \in Seq(Token), NEW before, NEW d
    PROVE  /\ Announces(toks, before, d) =>
                 /\ Announces(AddError(toks), before, d)
                 /\ Announces(AddInfo(toks), before, d)
           /\ d \in Databases => Announces(AddDatabase(toks, d), before, d)
<1>1. /\ Plain("error") \in Token /\ Plain("info") \in Token
      /\ Plain("env_collation") \in Token
      /\ Silent(Plain("error")) /\ Silent(Plain("info"))
      /\ Silent(Plain("env_collation"))
  BY TokenTypes, SilentTokens DEF Kinds
<1>2. ASSUME Announces(toks, before, d)
      PROVE  Announces(AddError(toks), before, d)
  <2>1. /\ AddToken(toks, Plain("error")) \in Seq(Token)
        /\ Announces(AddToken(toks, Plain("error")), before, d)
    BY <1>1, <1>2, AddTokenFacts, AnnouncesSilent
  <2> QED BY <2>1, TokenTypes, SilentTokens, AnnouncesSilent DEF AddError
<1>3. ASSUME Announces(toks, before, d)
      PROVE  Announces(AddInfo(toks), before, d)
  <2>1. /\ AddToken(toks, Plain("info")) \in Seq(Token)
        /\ Announces(AddToken(toks, Plain("info")), before, d)
    BY <1>1, <1>3, AddTokenFacts, AnnouncesSilent
  <2> QED BY <2>1, TokenTypes, SilentTokens, AnnouncesSilent DEF AddInfo
<1>4. ASSUME d \in Databases
      PROVE  Announces(AddDatabase(toks, d), before, d)
  <2>1. /\ AddToken(toks, EnvDatabase(d)) \in Seq(Token)
        /\ Announces(AddToken(toks, EnvDatabase(d)), before, d)
    BY <1>4, TokenTypes, AddTokenFacts, AnnouncesLast
  <2> QED BY <1>1, <2>1, AnnouncesSilent DEF AddDatabase
<1> QED BY <1>2, <1>3, <1>4

\* Freeing tuple tables and serialising keep the announcement.
LEMMA AnnouncesKept ==
    ASSUME NEW toks \in Seq(Token), NEW before, NEW d,
           Announces(toks, before, d)
    PROVE  /\ Announces(ReleaseTables(toks), before, d)
           /\ Announces(Serialise(toks), before, d)
<1>0. \A i \in 1..Len(toks) : toks[i] \in Token
  OBVIOUS
<1>1. Announces(ReleaseTables(toks), before, d)
  <2>1. \A i \in 1..Len(toks) : /\ ReleaseTables(toks)[i].kind = toks[i].kind
                                /\ ReleaseTables(toks)[i].db = toks[i].db
    BY <1>0, ReleaseFacts, FreedFacts
  <2> QED BY <2>1, ReleaseFacts, AnnouncesAlike
<1>2. Announces(MarkMore(toks), before, d)
  <2>1. \A i \in 1..Len(toks) : /\ MarkMore(toks)[i].kind = toks[i].kind
                                /\ MarkMore(toks)[i].db = toks[i].db
    BY <1>0, MarkMoreFacts, MarkedFacts
  <2> QED BY <2>1, MarkMoreFacts, AnnouncesAlike
<1>3. Announces(AddToken(MarkMore(toks), Done), before, d)
  BY <1>2, MarkMoreFacts, TokenTypes, SilentTokens, AnnouncesSilent
<1> QED BY <1>1, <1>2, <1>3, SerialiseFacts DEF AddToken

----------------------------------------------------------------------------
\* What Serialise sends can be followed by a client.

\* set_status_more is only called by writepacket: the lists the executor
\* builds stay unmarked.
LEMMA UnmarkedTokens ==
    /\ \A k \in Kinds : ~Plain(k).more
    /\ ~Done.more /\ ~DoneError.more /\ ~Results.more
    /\ \A d \in Databases : ~EnvDatabase(d).more
BY DEF Plain, Done, DoneError, Results, EnvDatabase, Kinds

LEMMA UnmarkedAdd ==
    ASSUME NEW toks \in Seq(Token), NEW t \in Token, Unmarked(toks), ~t.more
    PROVE  Unmarked(AddToken(toks, t))
<1>1. /\ Len(AddToken(toks, t)) = Len(toks) + 1 /\ Len(toks) \in Nat
      /\ AddToken(toks, t)[Len(toks) + 1] = t
      /\ \A i \in 1..Len(toks) : AddToken(toks, t)[i] = toks[i]
  BY DEF AddToken
<1> QED BY <1>1 DEF Unmarked

\* A token that is no ERROR keeps the ERRORs paired.
LEMMA PairedAdd ==
    ASSUME NEW toks \in Seq(Token), NEW t \in Token,
           ErrorsPaired(toks), t.kind # "error"
    PROVE  ErrorsPaired(AddToken(toks, t))
<1>1. /\ Len(AddToken(toks, t)) = Len(toks) + 1 /\ Len(toks) \in Nat
      /\ AddToken(toks, t)[Len(toks) + 1] = t
      /\ \A i \in 1..Len(toks) : AddToken(toks, t)[i] = toks[i]
  BY DEF AddToken
<1> QED BY <1>1 DEF ErrorsPaired

\* tsql_executor::error adds an ERROR with its DONE, which ends the list.
LEMMA AddErrorFacts ==
    ASSUME NEW toks \in Seq(Token)
    PROVE  /\ Unmarked(toks) => Unmarked(AddError(toks))
           /\ ErrorsPaired(toks) => ErrorsPaired(AddError(toks))
           /\ EndsWithError(AddError(toks))
<1>1. /\ Plain("error") \in Token /\ DoneError \in Token
      /\ ~Plain("error").more /\ ~DoneError.more
  BY TokenTypes, UnmarkedTokens DEF Kinds
<1>2. AddToken(toks, Plain("error")) \in Seq(Token)
  BY <1>1, AddTokenFacts
<1>3. DoneError.kind = "done" /\ DoneError.error
  BY DEF DoneError, Plain
<1>4. /\ Len(AddError(toks)) = Len(toks) + 2 /\ Len(toks) \in Nat
      /\ AddError(toks)[Len(toks) + 2] = DoneError
      /\ AddError(toks)[Len(toks) + 1] = Plain("error")
      /\ \A i \in 1..Len(toks) : AddError(toks)[i] = toks[i]
  BY DEF AddError, AddToken
<1>5. Unmarked(toks) => Unmarked(AddError(toks))
  BY <1>1, <1>2, UnmarkedAdd DEF AddError
<1>6. ErrorsPaired(toks) => ErrorsPaired(AddError(toks))
  BY <1>3, <1>4 DEF ErrorsPaired
<1>7. EndsWithError(AddError(toks))
  BY <1>3, <1>4 DEF EndsWithError, EndsWithDone
<1> QED BY <1>5, <1>6, <1>7

\* The other additions to a list keep it unmarked and its ERRORs paired.
LEMMA PlainAdditions ==
    ASSUME NEW toks \in Seq(Token), Unmarked(toks), ErrorsPaired(toks)
    PROVE  /\ Unmarked(AddInfo(toks)) /\ ErrorsPaired(AddInfo(toks))
           /\ \A d \in Databases : /\ Unmarked(AddDatabase(toks, d))
                                   /\ ErrorsPaired(AddDatabase(toks, d))
<1>1. /\ Plain("info") \in Token /\ Plain("env_collation") \in Token
      /\ ~Plain("info").more /\ ~Plain("env_collation").more
      /\ Done \in Token /\ ~Done.more
      /\ \A d \in Databases : EnvDatabase(d) \in Token /\ ~EnvDatabase(d).more
  BY TokenTypes, UnmarkedTokens DEF Kinds
<1>2. /\ Plain("info").kind # "error" /\ Plain("env_collation").kind # "error"
      /\ Done.kind # "error"
      /\ \A d \in Databases : EnvDatabase(d).kind # "error"
  BY DEF Plain, Done, EnvDatabase
<1>3. Unmarked(AddInfo(toks)) /\ ErrorsPaired(AddInfo(toks))
  <2>1. /\ AddToken(toks, Plain("info")) \in Seq(Token)
        /\ Unmarked(AddToken(toks, Plain("info")))
        /\ ErrorsPaired(AddToken(toks, Plain("info")))
    BY <1>1, <1>2, AddTokenFacts, UnmarkedAdd, PairedAdd
  <2> QED BY <1>1, <1>2, <2>1, UnmarkedAdd, PairedAdd DEF AddInfo
<1>4. ASSUME NEW d \in Databases
      PROVE  Unmarked(AddDatabase(toks, d)) /\ ErrorsPaired(AddDatabase(toks, d))
  <2>1. /\ AddToken(toks, EnvDatabase(d)) \in Seq(Token)
        /\ Unmarked(AddToken(toks, EnvDatabase(d)))
        /\ ErrorsPaired(AddToken(toks, EnvDatabase(d)))
    BY <1>1, <1>2, AddTokenFacts, UnmarkedAdd, PairedAdd
  <2> QED BY <1>1, <1>2, <2>1, UnmarkedAdd, PairedAdd DEF AddDatabase
<1> QED BY <1>3, <1>4

\* Freeing the tuple tables keeps the list unmarked and paired.
LEMMA ReleasedPaired ==
    ASSUME NEW toks \in Seq(Token), Unmarked(toks), ErrorsPaired(toks)
    PROVE  /\ Unmarked(ReleaseTables(toks))
           /\ ErrorsPaired(ReleaseTables(toks))
<1>1. \A i \in 1..Len(toks) :
        /\ ReleaseTables(toks)[i].kind = toks[i].kind
        /\ ReleaseTables(toks)[i].error = toks[i].error
        /\ ReleaseTables(toks)[i].more = toks[i].more
  <2>1. \A i \in 1..Len(toks) : toks[i] \in Token
    OBVIOUS
  <2> QED BY <2>1, ReleaseFacts, FreedFacts
<1>2. Len(ReleaseTables(toks)) = Len(toks) /\ Len(toks) \in Nat
  BY ReleaseFacts
<1> QED BY <1>1, <1>2 DEF Unmarked, ErrorsPaired

\* writepacket: whatever the executor added, the stream that goes out has
\* exactly one DONE without more_flag, its last token, and an error DONE
\* behind each ERROR; one that was built to end in an error still does.
THEOREM SerialiseWellFormed ==
    ASSUME NEW toks \in Seq(Token), Unmarked(toks), ErrorsPaired(toks)
    PROVE  /\ WellFormed(Serialise(toks))
           /\ EndsWithError(toks) => EndsWithError(Serialise(toks))
<1> DEFINE marked == MarkMore(toks)
<1>1. /\ marked \in Seq(Token) /\ Len(marked) = Len(toks) /\ Len(toks) \in Nat
  BY MarkMoreFacts
<1>2. \A i \in 1..Len(toks) :
        /\ marked[i].kind = toks[i].kind
        /\ marked[i].error = toks[i].error
        /\ toks[i].kind = "done" => (marked[i].more <=> i < Len(toks))
  <2>1. \A i \in 1..Len(toks) : toks[i] \in Token
    OBVIOUS
  <2>2. \A i \in 1..Len(toks) :
          toks[i].kind = "done" /\ i < Len(toks) => marked[i] = Marked(toks[i])
    BY MarkMoreFacts
  <2>3. \A i \in 1..Len(toks) :
          ~(toks[i].kind = "done" /\ i < Len(toks)) => marked[i] = toks[i]
    BY MarkMoreFacts
  <2>4. \A i \in 1..Len(toks) : ~toks[i].more
    BY DEF Unmarked
  <2> HIDE DEF marked
  <2> QED BY <2>1, <2>2, <2>3, <2>4, MarkedFacts
<1>3. \A i \in 1..Len(toks) : toks[i].kind = "error" =>
        /\ i < Len(toks) /\ toks[i + 1].kind = "done" /\ toks[i + 1].error
  BY DEF ErrorsPaired
<1> HIDE DEF marked
<1>4. \A i \in 1..Len(toks) : marked[i].kind = "error" =>
        /\ i < Len(toks) /\ marked[i + 1].kind = "done" /\ marked[i + 1].error
  BY <1>1, <1>2, <1>3
<1>5. CASE EndsWithDone(toks)
  <2>1. Serialise(toks) = marked
    BY <1>5, SerialiseFacts DEF marked
  <2>2. toks # << >> /\ toks[Len(toks)].kind = "done"
    BY <1>5 DEF EndsWithDone
  <2>3. EndsWithDone(marked)
    BY <1>1, <1>2, <2>2 DEF EndsWithDone
  <2>4. EndsWithError(toks) => EndsWithError(marked)
    BY <1>1, <1>2, <2>2, <2>3 DEF EndsWithError
  <2> QED BY <1>1, <1>2, <1>4, <2>1, <2>3, <2>4 DEF WellFormed
<1>6. CASE ~EndsWithDone(toks)
  <2> DEFINE out == Append(marked, Done)
  <2>1. Serialise(toks) = out
    BY <1>6, SerialiseFacts DEF marked
  <2>2. /\ Len(out) = Len(toks) + 1 /\ out[Len(toks) + 1] = Done
        /\ \A i \in 1..Len(toks) : out[i] = marked[i]
    BY <1>1
  <2>3. Done.kind = "done" /\ ~Done.more
    BY DEF Done, Plain
  <2>4. Len(toks) > 0 => marked[Len(toks)].kind # "done"
    BY <1>1, <1>2, <1>6 DEF EndsWithDone
  <2> HIDE DEF out
  <2>5. EndsWithDone(out)
    BY <1>1, <2>2, <2>3 DEF EndsWithDone
  <2>6. \A i \in 1..Len(out) : out[i].kind = "done" =>
           (out[i].more <=> i < Len(out))
    BY <1>1, <1>2, <2>2, <2>3, <2>4
  <2>7. \A i \in 1..Len(out) : out[i].kind = "error" =>
           /\ i < Len(out) /\ out[i + 1].kind = "done" /\ out[i + 1].error
    BY <1>1, <1>4, <2>2, <2>3
  <2>8. ~EndsWithError(toks)
    BY <1>6 DEF EndsWithError
  <2> QED BY <2>1, <2>5, <2>6, <2>7, <2>8 DEF WellFormed
<1> QED BY <1>5, <1>6

----------------------------------------------------------------------------
(* Base *)

\* Where the batch of the current packet is not answered yet.
Pending == {"run", "unwind", "write", "catch", "rpcfinish", "rpcwrite"}

InBatch == Pending \cup {"release", "finish"}

\* Each place in run() serves the packet it is meant for, and a new packet
\* finds no tokens, frames or fault of the last one.
Position ==
    /\ pc \in InBatch => /\ state = "CONNECTED"
                         /\ nread > 0
                         /\ Current \in {"sql", "execsql"}
    /\ pc \in {"write", "release", "catch", "finish"} => Current = "sql"
    /\ pc \in {"rpcfinish", "rpcwrite"} => Current = "execsql"
    /\ pc = "login" => /\ nread > 0 /\ database \in Databases
                       /\ Current \in {"login4", "login7"}
    /\ pc \in {"recv", "login"} => /\ tokens = << >> /\ frames = << >>
                                   /\ fault = "none" /\ started = 0

\* The unsent tokens take the client to the executor's database; once they
\* are sent it is there.
Knows ==
    /\ pc \in Pending => Announces(tokens, clientDb, database)
    /\ pc \in {"release", "finish"} => clientDb = database
    /\ ClientKnowsDatabase

Base == TypeOK /\ TransactionBracket /\ Position /\ Knows

----------------------------------------------------------------------------
\* The transaction brackets.

Open(n) == Levels(TRUE, 1, 1, n)

\* Each bracket that is opened once is closed by its counterpart.
LEMMA Brackets ==
    /\ Begin(Idle) = Open(0) /\ End(Open(0)) = Idle
    /\ BeginSub(Open(0)) = Open(1) /\ EndSub(Open(1)) = Open(0)
BY DEF Begin, End, BeginSub, EndSub, Open, Idle, Levels

LEMMA LevelsType ==
    /\ Idle \in [xact : BOOLEAN, spi : Nat, snaps : Nat, subs : Nat]
    /\ \A n \in Nat :
          Open(n) \in [xact : BOOLEAN, spi : Nat, snaps : Nat, subs : Nat]
BY DEF Open, Idle, Levels

\* What is open at each place of run().
LEMMA BracketAt ==
    ASSUME TransactionBracket
    PROVE  /\ pc \in {"recv", "rpcwrite", "spin", "closed", "dead"} => pg = Idle
           /\ pc \in {"write", "release", "catch"} => pg = Open(1)
           /\ pc \in {"login", "finish", "rpcfinish"} => pg = Open(0)
           /\ pc \in {"run", "unwind"} =>
                 pg = Open(IF Current = "sql" THEN 1 ELSE 0)
BY DEF TransactionBracket, InSub, Open

\* What a response does: its request, its outcome, its stream and the
\* database it leaves the client at.
Sends(id, outcome, stream, d) ==
    /\ reply' \in Response
    /\ reply'.id = id /\ reply'.outcome = outcome /\ reply'.stream = stream
    /\ answered' = Append(answered, id) /\ answered' \in Seq(Nat)
    /\ clientDb' = d

\* A response that announces d leaves the client at d.
LEMMA RespondFacts ==
    ASSUME TypeOK,
           NEW id \in Nat, NEW outcome \in Outcomes, NEW stream \in Seq(Token),
           NEW d, Announces(stream, clientDb, d),
           Respond(id, outcome, stream)
    PROVE  Sends(id, outcome, stream, d) /\ d \in Databases \cup {NoDb}
<1>1. clientDb \in Databases \cup {NoDb} /\ answered \in Seq(Nat)
  BY DEF TypeOK
<1>2. d \in Databases \cup {NoDb}
  BY <1>1, AnnouncesType
<1>3. clientDb' = CHOOSE e \in Databases \cup {NoDb} :
                      Announces(stream, clientDb, e)
  BY DEF Respond
<1>4. clientDb' \in Databases \cup {NoDb} /\ Announces(stream, clientDb, clientDb')
  BY <1>2, <1>3
<1>5. clientDb' = d
  BY <1>4, AnnouncesOne
<1>6. /\ reply' \in Response /\ reply'.id = id
      /\ reply'.outcome = outcome /\ reply'.stream = stream
  BY DEF Respond, Response
<1>7. answered' = Append(answered, id) /\ answered' \in Seq(Nat)
  BY <1>1 DEF Respond
<1> QED BY <1>2, <1>5, <1>6, <1>7 DEF Sends

----------------------------------------------------------------------------
\* What the steps of the interpreter have in common.
LEMMA InterpreterSteps ==
    ASSUME Interpreter
    PROVE  /\ pc \in {"run", "unwind"}
           /\ pc' \in {"run", "unwind"} \/ pc' = AfterBatch
           /\ UNCHANGED <<sent, hungup, nread, state, pg, savedPath, kept,
                          reply, answered, clientDb>>
           /\ UNCHANGED <<executed, work>> \/ Change
<1> USE DEF Statement, Control, clientVars, pathVars, workVars, wireVars
<1>1. CASE Select BY <1>1 DEF Select
<1>2. CASE Modify BY <1>2 DEF Modify
<1>3. CASE ModifySilently BY <1>3 DEF ModifySilently
<1>4. CASE PrintStatement BY <1>4 DEF PrintStatement
<1>5. CASE \E d \in Databases : UseDatabase(d) BY <1>5 DEF UseDatabase
<1>6. CASE StatementError BY <1>6 DEF StatementError
<1>7. CASE ExecUnparsable BY <1>7 DEF ExecUnparsable
<1>8. CASE \E kind \in {"program", "while"} : EnterFrame(kind)
  BY <1>8 DEF EnterFrame
<1>9. CASE LeaveFrame BY <1>9 DEF LeaveFrame
<1>10. CASE WhileConditionError BY <1>10 DEF WhileConditionError
<1>11. CASE UnwindWhile BY <1>11 DEF UnwindWhile
<1>12. CASE UnwindProgram BY <1>12 DEF UnwindProgram
<1>13. CASE BatchEnd BY <1>13 DEF BatchEnd
<1> QED BY <1>1, <1>2, <1>3, <1>4, <1>5, <1>6, <1>7, <1>8, <1>9, <1>10,
           <1>11, <1>12, <1>13 DEF Interpreter

----------------------------------------------------------------------------
\* The packet a batch serves stays the current one while it runs.
LEMMA CurrentKept ==
    ASSUME TypeOK, nread > 0, nread' = nread,
           sent' = sent \/ \E type \in RequestTypes : sent' = Append(sent, type)
    PROVE  Current' = Current
<1>1. sent \in Seq(RequestTypes) /\ nread \in 1..Len(sent)
  BY DEF TypeOK
<1>2. sent'[nread] = sent[nread]
  BY <1>1
<1> QED BY <1>2 DEF Current

\* readpacket comes back without a packet, or not at all.
NoInput == RecvEof \/ RecvTorn \/ RecvFails

\* A step of the client changes nothing of the worker's.
LEMMA ClientSteps ==
    ASSUME TypeOK, Client
    PROVE  /\ sent' = sent \/ \E type \in RequestTypes : sent' = Append(sent, type)
           /\ hungup' \in HangUps /\ sent' \in Seq(RequestTypes)
           /\ Len(sent') >= Len(sent)
           /\ \A i \in 1..Len(sent) : sent'[i] = sent[i]
           /\ UNCHANGED <<nread, state, pc, pg, path, savedPath, database,
                          tokens, frames, fault, started, executed, work,
                          kept, reply, answered, clientDb>>
<1> USE DEF pathVars, batchVars, workVars, wireVars
<1>1. CASE \E where \in {"between", "inside"} : ClientClose(where)
  BY <1>1 DEF ClientClose, TypeOK, HangUps
<1>2. ASSUME NEW type \in RequestTypes, ClientSend(type)
      PROVE  /\ sent' = Append(sent, type) /\ UNCHANGED hungup
             /\ UNCHANGED <<nread, state, pc, pg, path, savedPath, database,
                            tokens, frames, fault, started, executed, work,
                            kept, reply, answered, clientDb>>
  BY <1>2 DEF ClientSend
<1>3. CASE \E type \in RequestTypes : ClientSend(type)
  <2>1. PICK type \in RequestTypes : ClientSend(type)
    BY <1>3
  <2>2. sent \in Seq(RequestTypes) /\ hungup \in HangUps
    BY DEF TypeOK
  <2>3. sent' = Append(sent, type) /\ UNCHANGED hungup
    BY <1>2, <2>1
  <2>4. /\ sent' \in Seq(RequestTypes) /\ Len(sent') >= Len(sent)
        /\ \A i \in 1..Len(sent) : sent'[i] = sent[i]
    BY <2>2, <2>3
  <2> QED BY <1>2, <2>1, <2>2, <2>3, <2>4
<1> QED BY <1>1, <1>3 DEF Client

\* The transaction bracket is opened and closed by the same request.
LEMMA BracketStep ==
    ASSUME TypeOK, TransactionBracket, Position, [Next]_vars
    PROVE  TransactionBracket'
<1> USE DEF TransactionBracket, InSub, Open
<1>1. CASE Client
  <2>1. /\ UNCHANGED <<pc, pg>>
        /\ pc \in {"run", "unwind"} => Current' = Current
    BY <1>1, ClientSteps, CurrentKept DEF Position, InBatch, Pending
  <2> QED BY <2>1
<1>2. CASE \/ RecvUnknown \/ NoInput \/ RecvPrelogin \/ RecvOutOfOrder
           \/ RecvIgnored \/ RecvSqlRejected
  <2>1. pc = "recv" /\ pc' \in {"recv", "spin", "closed"} /\ pg' = pg
    BY <1>2 DEF RecvUnknown, NoInput, RecvEof, RecvTorn, RecvFails,
         NoPacket, RecvPrelogin, RecvOutOfOrder,
                RecvIgnored, RecvSqlRejected, Receive
  <2> QED BY <2>1
<1>3. CASE \E given \in Databases \cup {NoDb} : RecvLogin(given)
  <2>1. pc = "recv" /\ pc' = "login" /\ pg' = Begin(pg)
    BY <1>3 DEF RecvLogin, Receive
  <2> QED BY <2>1, Brackets
<1>4. CASE LoginEnd
  <2>1. pc = "login" /\ pc' = "recv" /\ pg' = End(pg)
    BY <1>4 DEF LoginEnd
  <2> QED BY <2>1, Brackets
<1>5. CASE RecvSql
  <2>1. pc = "recv" /\ pc' = "run" /\ pg' = BeginSub(Begin(pg))
    BY <1>5 DEF RecvSql, Receive, StartBatch
  <2>2. Current' = "sql"
    BY <1>5 DEF RecvSql, Receive, Current, clientVars
  <2> QED BY <2>1, <2>2, Brackets
<1>6. CASE RecvExecSql
  <2>1. pc = "recv" /\ pc' = "run" /\ pg' = Begin(pg)
    BY <1>6 DEF RecvExecSql, Receive, StartBatch
  <2>2. Current' = "execsql"
    BY <1>6 DEF RecvExecSql, Receive, Current, clientVars
  <2> QED BY <2>1, <2>2, Brackets
<1>7. CASE Interpreter
  <2>1. /\ pc \in {"run", "unwind"} /\ pg' = pg /\ Current' = Current
        /\ pc' \in {"run", "unwind"} \/ pc' = AfterBatch
    BY <1>7, InterpreterSteps, CurrentKept DEF Position, InBatch, Pending
  <2>2. Current \in {"sql", "execsql"}
    BY <2>1 DEF Position, InBatch, Pending
  <2> QED BY <2>1, <2>2 DEF AfterBatch
<1>8. CASE SqlWrite
  BY <1>8 DEF SqlWrite
<1>9. CASE SqlRelease \/ Catch
  <2>1. pc \in {"release", "catch"} /\ pc' = "finish" /\ pg' = EndSub(pg)
    BY <1>9 DEF SqlRelease, Catch, Rollback
  <2> QED BY <2>1, Brackets
<1>10. CASE SqlFinish \/ RpcFinish
  <2>1. /\ pc \in {"finish", "rpcfinish"} /\ pc' \in {"recv", "rpcwrite"}
        /\ pg' = End(pg)
    BY <1>10 DEF SqlFinish, RpcFinish, Commit, EndBatch
  <2> QED BY <2>1, Brackets
<1>11. CASE RpcWrite
  BY <1>11 DEF RpcWrite, EndBatch
<1>12. CASE PgError
  <2>1. /\ pc \in {"run", "write"} /\ Current = "sql" /\ pc' = "catch"
        /\ pg' = pg
    BY <1>12 DEF PgError, Fails
  <2> QED BY <2>1
<1>13. CASE WorkerDies
  BY <1>13 DEF WorkerDies
<1>14. CASE UNCHANGED vars
  BY <1>14 DEF vars, Current, clientVars
<1> QED BY <1>1, <1>2, <1>3, <1>4, <1>5, <1>6, <1>7, <1>8, <1>9, <1>10,
           <1>11, <1>12, <1>13, <1>14
        DEF Next, NoInput, Worker, PacketLoop, BatchClose

\* Each place in run() keeps serving the packet it is meant for.
LEMMA PositionStep ==
    ASSUME TypeOK, Position, [Next]_vars
    PROVE  Position'
<1> USE DEF Position, InBatch, Pending
<1>1. CASE Client
  <2>1. /\ UNCHANGED <<pc, state, nread, database, tokens, frames, fault,
                       started>>
        /\ nread > 0 => Current' = Current
    BY <1>1, ClientSteps, CurrentKept
  <2> QED BY <2>1
<1>2. CASE RecvUnknown \/ NoInput \/ RecvOutOfOrder
  BY <1>2 DEF RecvUnknown, NoInput, RecvEof, RecvTorn, RecvFails,
         NoPacket, RecvOutOfOrder
<1>3. CASE RecvPrelogin \/ RecvIgnored \/ RecvSqlRejected
  <2>1. pc = "recv" /\ UNCHANGED <<pc, tokens, frames, fault, started>>
    BY <1>3 DEF RecvPrelogin, RecvIgnored, RecvSqlRejected, Receive, batchVars
  <2> QED BY <2>1
<1>4. CASE \E given \in Databases \cup {NoDb} : RecvLogin(given)
  <2>1. PICK given \in Databases \cup {NoDb} : RecvLogin(given)
    BY <1>4
  <2>2. /\ pc = "recv" /\ pc' = "login" /\ nread' = nread + 1 /\ nread \in Nat
        /\ UNCHANGED <<tokens, frames, fault, started>>
    BY <2>1 DEF RecvLogin, Receive, batchVars, TypeOK
  <2>3. database' \in Databases
    BY <2>1, SessionAssumption, NoDbAssumption DEF RecvLogin
  <2>4. Current' \in {"login4", "login7"}
    BY <2>1 DEF RecvLogin, Receive, Current, clientVars
  <2> QED BY <2>2, <2>3, <2>4
<1>5. CASE LoginEnd
  BY <1>5 DEF LoginEnd, batchVars
<1>6. CASE RecvSql \/ RecvExecSql
  <2>1. /\ pc' = "run" /\ state' = "CONNECTED" /\ nread' = nread + 1
        /\ nread \in Nat /\ Current' \in {"sql", "execsql"}
    BY <1>6 DEF RecvSql, RecvExecSql, StartBatch, Receive, Current, clientVars,
                TypeOK
  <2> QED BY <2>1
<1>7. CASE Interpreter
  <2>1. /\ pc \in {"run", "unwind"} /\ nread > 0 /\ Current' = Current
        /\ UNCHANGED <<state, nread>>
        /\ pc' \in {"run", "unwind"} \/ pc' = AfterBatch
    BY <1>7, InterpreterSteps, CurrentKept
  <2> QED BY <2>1 DEF AfterBatch
<1>8. CASE SqlWrite \/ SqlRelease \/ Catch \/ PgError
  <2>1. /\ pc \in InBatch /\ Current = "sql"
        /\ pc' \in {"release", "finish", "catch"}
        /\ UNCHANGED <<state, nread, sent>>
    BY <1>8 DEF SqlWrite, SqlRelease, Catch, PgError, Fails, clientVars
  <2> QED BY <2>1, CurrentKept
<1>9. CASE SqlFinish \/ RpcWrite
  BY <1>9 DEF SqlFinish, RpcWrite, EndBatch
<1>10. CASE RpcFinish
  <2>1. /\ pc = "rpcfinish" /\ pc' = "rpcwrite"
        /\ UNCHANGED <<state, nread, sent>>
    BY <1>10 DEF RpcFinish, Commit, clientVars
  <2> QED BY <2>1, CurrentKept
<1>11. CASE WorkerDies
  BY <1>11 DEF WorkerDies
<1>12. CASE UNCHANGED vars
  BY <1>12 DEF vars, clientVars, batchVars, pathVars, Current
<1> QED BY <1>1, <1>2, <1>3, <1>4, <1>5, <1>6, <1>7, <1>8, <1>9, <1>10,
           <1>11, <1>12
        DEF Next, NoInput, Worker, PacketLoop, BatchClose

----------------------------------------------------------------------------
\* What the interpreter adds to the response.

Additions(toks) ==
    {toks, AddError(toks), AddInfo(toks), AddToken(toks, Done),
     AddToken(AddToken(toks, Results), Done)}

\* A step of the interpreter adds to the end of the token list; only USE
\* changes the executor's database, and it announces it.
LEMMA InterpreterTokens ==
    ASSUME Interpreter
    PROVE  \/ /\ tokens' \in Additions(tokens)
              /\ UNCHANGED <<database, path>>
           \/ \E d \in Databases : /\ tokens' = AddDatabase(tokens, d)
                                   /\ database' = d /\ path' = d
<1> USE DEF Statement, Control, pathVars, Additions
<1>1. CASE Select BY <1>1 DEF Select
<1>2. CASE Modify BY <1>2 DEF Modify
<1>3. CASE ModifySilently BY <1>3 DEF ModifySilently
<1>4. CASE PrintStatement BY <1>4 DEF PrintStatement
<1>5. CASE \E d \in Databases : UseDatabase(d)
  BY <1>5 DEF UseDatabase, SetDatabase
<1>6. CASE StatementError BY <1>6 DEF StatementError
<1>7. CASE ExecUnparsable BY <1>7 DEF ExecUnparsable
<1>8. CASE \E kind \in {"program", "while"} : EnterFrame(kind)
  BY <1>8 DEF EnterFrame
<1>9. CASE LeaveFrame BY <1>9 DEF LeaveFrame
<1>10. CASE WhileConditionError BY <1>10 DEF WhileConditionError
<1>11. CASE UnwindWhile BY <1>11 DEF UnwindWhile
<1>12. CASE UnwindProgram BY <1>12 DEF UnwindProgram
<1>13. CASE BatchEnd BY <1>13 DEF BatchEnd
<1> QED BY <1>1, <1>2, <1>3, <1>4, <1>5, <1>6, <1>7, <1>8, <1>9, <1>10,
           <1>11, <1>12, <1>13 DEF Interpreter

\* A step of the interpreter keeps frames, fault and counters in range.
LEMMA InterpreterTypes ==
    ASSUME TypeOK, Interpreter
    PROVE  /\ frames' \in Seq({"program", "while"})
           /\ fault' \in {"none", "reported", "silent"}
           /\ started' \in Nat /\ executed' \in Nat /\ work' \in Nat
           /\ pc' \in Locations
<1>1. /\ frames \in Seq({"program", "while"})
      /\ fault \in {"none", "reported", "silent"}
      /\ started \in Nat /\ executed \in Nat /\ work \in Nat
      /\ pc \in Locations
  BY DEF TypeOK
<1>2. executed' \in Nat /\ work' \in Nat
  BY <1>1, InterpreterSteps DEF Change
<1>3. pc' \in Locations
  BY InterpreterSteps DEF AfterBatch, Locations
<1> USE <1>1 DEF Statement, Control
<1>4. CASE Select BY <1>2, <1>3, <1>4 DEF Select
<1>5. CASE Modify BY <1>2, <1>3, <1>5 DEF Modify
<1>6. CASE ModifySilently BY <1>2, <1>3, <1>6 DEF ModifySilently
<1>7. CASE PrintStatement BY <1>2, <1>3, <1>7 DEF PrintStatement
<1>8. CASE \E d \in Databases : UseDatabase(d)
  BY <1>2, <1>3, <1>8 DEF UseDatabase
<1>9. CASE StatementError BY <1>2, <1>3, <1>9 DEF StatementError
<1>10. CASE ExecUnparsable BY <1>2, <1>3, <1>10 DEF ExecUnparsable
<1>11. CASE \E kind \in {"program", "while"} : EnterFrame(kind)
  BY <1>2, <1>3, <1>11 DEF EnterFrame
<1>12. CASE LeaveFrame BY <1>2, <1>3, <1>12 DEF LeaveFrame
<1>13. CASE WhileConditionError BY <1>2, <1>3, <1>13 DEF WhileConditionError
<1>14. CASE UnwindWhile BY <1>2, <1>3, <1>14 DEF UnwindWhile
<1>15. CASE UnwindProgram BY <1>2, <1>3, <1>15 DEF UnwindProgram
<1>16. CASE BatchEnd BY <1>2, <1>3, <1>16 DEF BatchEnd
<1> QED BY <1>4, <1>5, <1>6, <1>7, <1>8, <1>9, <1>10, <1>11, <1>12, <1>13,
           <1>14, <1>15, <1>16 DEF Interpreter

\* What is added keeps the list a list of tokens and its announcement in
\* step with the executor's database.
LEMMA AdditionsAnnounce ==
    ASSUME NEW toks \in Seq(Token), NEW more \in Additions(toks),
           NEW before, NEW d
    PROVE  /\ more \in Seq(Token)
           /\ Announces(toks, before, d) => Announces(more, before, d)
<1>1. CASE more = toks
  BY <1>1
<1>2. CASE more = AddError(toks) \/ more = AddInfo(toks)
  BY <1>2, PairTypes, AnnouncesPairs
<1>3. CASE more = AddToken(toks, Done)
  BY <1>3, TokenTypes, AddTokenFacts, SilentTokens, AnnouncesSilent
<1>4. CASE more = AddToken(AddToken(toks, Results), Done)
  <2>1. /\ AddToken(toks, Results) \in Seq(Token)
        /\ Announces(toks, before, d) =>
              Announces(AddToken(toks, Results), before, d)
    BY TokenTypes, AddTokenFacts, SilentTokens, AnnouncesSilent
  <2> QED BY <1>4, <2>1, TokenTypes, AddTokenFacts, SilentTokens,
             AnnouncesSilent
<1> QED BY <1>1, <1>2, <1>3, <1>4 DEF Additions

\* The login announces its database.
LEMMA LoginAnnounces ==
    ASSUME database \in Databases, NEW before
    PROVE  /\ LoginTokens \in Seq(Token)
           /\ Announces(LoginTokens, before, database)
<1> DEFINE ack == <<Plain("loginack")>>
<1>1. ack \in Seq(Token)
  BY TokenTypes DEF Kinds
<1> HIDE DEF ack
<1>2. /\ AddDatabase(ack, database) \in Seq(Token)
      /\ Announces(AddDatabase(ack, database), before, database)
  BY <1>1, PairTypes, AnnouncesPairs
<1>3. LoginTokens = AddToken(AddDatabase(ack, database), Done)
  BY DEF LoginTokens, ack
<1> QED BY <1>2, <1>3, TokenTypes, AddTokenFacts, SilentTokens, AnnouncesSilent

\* Every response is a list of tokens that takes the client to the executor's
\* database.
LEMMA ResponseAnnounces ==
    ASSUME TypeOK, Knows, pc \in Pending
    PROVE  /\ Serialise(tokens) \in Seq(Token)
           /\ Announces(Serialise(tokens), clientDb, database)
           /\ Serialise(CaughtTokens) \in Seq(Token)
           /\ Announces(Serialise(CaughtTokens), clientDb, database)
<1>1. tokens \in Seq(Token) /\ Announces(tokens, clientDb, database)
  BY DEF TypeOK, Knows
<1>2. /\ Serialise(tokens) \in Seq(Token)
      /\ Announces(Serialise(tokens), clientDb, database)
  BY <1>1, SerialiseFacts, AnnouncesKept
<1>3. /\ ReleaseTables(tokens) \in Seq(Token)
      /\ Announces(ReleaseTables(tokens), clientDb, database)
  BY <1>1, ReleaseFacts, AnnouncesKept
<1>4. CaughtTokens \in Seq(Token) /\ Announces(CaughtTokens, clientDb, database)
  BY <1>3, PairTypes, AnnouncesPairs DEF CaughtTokens
<1> QED BY <1>2, <1>4, SerialiseFacts, AnnouncesKept

\* A rejected batch announces nothing.
LEMMA RejectionAnnounces ==
    ASSUME NEW before
    PROVE  /\ Serialise(AddError(<< >>)) \in Seq(Token)
           /\ Announces(Serialise(AddError(<< >>)), before, before)
<1>1. << >> \in Seq(Token)
  OBVIOUS
<1>2. /\ AddError(<< >>) \in Seq(Token)
      /\ Announces(AddError(<< >>), before, before)
  BY <1>1, PairTypes, AnnouncesEmpty, AnnouncesPairs
<1> QED BY <1>2, SerialiseFacts, AnnouncesKept

\* The outcomes of a batch that raised no ERROR.
LEMMA OutcomeFacts ==
    ASSUME TypeOK
    PROVE  /\ Outcome \in {"ok", "failed", "silent"} /\ Outcome \in Outcomes
           /\ Outcome = "failed" <=> fault = "reported"
BY DEF TypeOK, Outcome, Outcomes

\* A packet that needs no response leaves an empty reply.
LEMMA NoReplyType == NoReply \in Response
<1>1. << >> \in Seq(Token)
  OBVIOUS
<1> QED BY <1>1 DEF NoReply, Response, Outcomes

----------------------------------------------------------------------------
\* The responses, for each place that writes one.
LEMMA Responses ==
    ASSUME Base
    PROVE  /\ RecvPrelogin => Sends(nread + 1, "ok", << >>, clientDb)
           /\ LoginEnd => Sends(nread, "ok", Serialise(LoginTokens), database)
           /\ RecvSqlRejected => Sends(nread + 1, "rejected",
                                      Serialise(AddError(<< >>)), clientDb)
           /\ SqlWrite \/ RpcWrite =>
                 Sends(nread, Outcome, Serialise(tokens), database)
           /\ Catch => Sends(nread, "caught", Serialise(CaughtTokens), database)
<1> USE DEF Base
<1>1. nread \in Nat /\ nread + 1 \in Nat
  BY DEF TypeOK
<1>2. << >> \in Seq(Token)
  OBVIOUS
<1>3. {"ok", "rejected", "caught"} \subseteq Outcomes
  BY DEF Outcomes
<1>4. ASSUME RecvPrelogin PROVE Sends(nread + 1, "ok", << >>, clientDb)
  BY <1>1, <1>2, <1>3, <1>4, AnnouncesEmpty, RespondFacts DEF RecvPrelogin
<1>5. ASSUME LoginEnd
      PROVE  Sends(nread, "ok", Serialise(LoginTokens), database)
  <2>1. /\ Serialise(LoginTokens) \in Seq(Token)
        /\ Announces(Serialise(LoginTokens), clientDb, database)
    BY <1>5, LoginAnnounces, SerialiseFacts, AnnouncesKept
       DEF Position, LoginEnd
  <2> QED BY <1>1, <1>3, <1>5, <2>1, RespondFacts DEF LoginEnd
<1>6. ASSUME RecvSqlRejected
      PROVE  Sends(nread + 1, "rejected", Serialise(AddError(<< >>)), clientDb)
  BY <1>1, <1>3, <1>6, RejectionAnnounces, RespondFacts DEF RecvSqlRejected
<1>7. ASSUME SqlWrite \/ RpcWrite
      PROVE  Sends(nread, Outcome, Serialise(tokens), database)
  <2>1. pc \in Pending /\ Respond(nread, Outcome, Serialise(tokens))
    BY <1>7 DEF SqlWrite, RpcWrite, Pending
  <2> QED BY <1>1, <2>1, OutcomeFacts, ResponseAnnounces, RespondFacts
<1>8. ASSUME Catch
      PROVE  Sends(nread, "caught", Serialise(CaughtTokens), database)
  <2>1. pc \in Pending /\ Respond(nread, "caught", Serialise(CaughtTokens))
    BY <1>8 DEF Catch, Pending
  <2> QED BY <1>1, <1>3, <2>1, ResponseAnnounces, RespondFacts
<1> QED BY <1>4, <1>5, <1>6, <1>7, <1>8

\* The unsent tokens keep announcing the executor's database.
LEMMA KnowsStep ==
    ASSUME Base, [Next]_vars
    PROVE  Knows'
<1> USE DEF Base, Knows, ClientKnowsDatabase, Pending
<1>1. CASE Client
  BY <1>1, ClientSteps
<1>2. CASE RecvUnknown \/ NoInput \/ RecvOutOfOrder \/ WorkerDies
  BY <1>2 DEF RecvUnknown, NoInput, RecvEof, RecvTorn, RecvFails,
         NoPacket, RecvOutOfOrder, WorkerDies
<1>3. CASE RecvPrelogin
  BY <1>3 DEF RecvPrelogin, Receive
<1>4. CASE RecvIgnored \/ RecvSqlRejected
  <2>1. /\ pc = "recv" /\ state = "CONNECTED" /\ UNCHANGED <<pc, database>>
        /\ clientDb' = clientDb
    BY <1>4, Responses
       DEF RecvIgnored, RecvSqlRejected, Receive, NoResponse, pathVars, Sends
  <2> QED BY <2>1
<1>5. CASE \E given \in Databases \cup {NoDb} : RecvLogin(given)
  BY <1>5 DEF RecvLogin
<1>6. CASE LoginEnd
  BY <1>6, Responses DEF LoginEnd, pathVars, Sends
<1>7. CASE RecvSql \/ RecvExecSql
  <2>1. /\ pc = "recv" /\ state = "CONNECTED" /\ pc' = "run"
        /\ UNCHANGED <<tokens, clientDb, database>>
    BY <1>7 DEF RecvSql, RecvExecSql, StartBatch, Receive, NoResponse, batchVars
  <2>2. tokens = << >> /\ clientDb = database
    BY <2>1 DEF Position
  <2> QED BY <2>1, <2>2, AnnouncesEmpty
<1>8. CASE Interpreter
  <2>1. /\ pc \in {"run", "unwind"} /\ clientDb' = clientDb
        /\ pc' \in {"run", "unwind", "write", "rpcfinish"}
    BY <1>8, InterpreterSteps DEF AfterBatch
  <2>2. tokens \in Seq(Token) /\ Announces(tokens, clientDb, database)
    BY <2>1 DEF TypeOK
  <2>3. Announces(tokens', clientDb, database')
    BY <1>8, <2>2, InterpreterTokens, AdditionsAnnounce, AnnouncesPairs
  <2> QED BY <2>1, <2>3
<1>9. CASE SqlWrite \/ Catch
  BY <1>9, Responses DEF SqlWrite, Catch, pathVars, Sends
<1>10. CASE RpcWrite
  BY <1>10, Responses DEF RpcWrite, EndBatch, pathVars, Sends
<1>11. CASE SqlRelease
  BY <1>11 DEF SqlRelease, pathVars, wireVars
<1>12. CASE SqlFinish
  BY <1>12 DEF SqlFinish, Commit, EndBatch, pathVars, wireVars
<1>13. CASE RpcFinish
  <2>1. /\ pc' = "rpcwrite" /\ tokens' = ReleaseTables(tokens)
        /\ UNCHANGED <<clientDb, database>>
    BY <1>13 DEF RpcFinish, Commit, pathVars, wireVars
  <2>2. tokens \in Seq(Token) /\ Announces(tokens, clientDb, database)
    BY <1>13 DEF RpcFinish, TypeOK
  <2> QED BY <2>1, <2>2, AnnouncesKept
<1>14. CASE PgError
  BY <1>14 DEF PgError, Fails, pathVars, batchVars, wireVars
<1>15. CASE UNCHANGED vars
  BY <1>15 DEF vars, pathVars, batchVars, wireVars
<1> QED BY <1>1, <1>2, <1>3, <1>4, <1>5, <1>6, <1>7, <1>8, <1>9, <1>10,
           <1>11, <1>12, <1>13, <1>14, <1>15
        DEF Next, NoInput, Worker, PacketLoop, BatchClose

\* Every variable keeps its type.
LEMMA TypeStep ==
    ASSUME Base, [Next]_vars
    PROVE  TypeOK'
<1> USE DEF Base
<1>1. pg' \in [xact : BOOLEAN, spi : Nat, snaps : Nat, subs : Nat]
  <2>1. pg' = Idle \/ pg' = Open(0) \/ pg' = Open(1)
    BY BracketStep DEF TransactionBracket, Open
  <2> QED BY <2>1, LevelsType
<1>2. << >> \in Seq(Token) /\ << >> \in Seq({"program", "while"})
  OBVIOUS
<1> USE DEF TypeOK
<1>3. CASE Client
  <2>1. nread \in 0..Len(sent')
    BY <1>3, ClientSteps
  <2> QED BY <1>1, <1>3, <2>1, ClientSteps
<1>4. CASE RecvUnknown
  BY <1>1, <1>4, NoReplyType
     DEF RecvUnknown, Receive, NoResponse, clientVars, pathVars, batchVars,
         Locations
<1>5. CASE NoInput
  <2>1. NoPacket("closed") \/ NoPacket("spin")
    BY <1>5 DEF NoInput, RecvEof, RecvTorn, RecvFails
  <2> QED BY <1>1, <2>1
             DEF NoPacket, clientVars, pathVars, batchVars, workVars, wireVars,
                 Locations
<1>6. CASE RecvPrelogin
  BY <1>1, <1>6, Responses
     DEF RecvPrelogin, Receive, clientVars, pathVars, batchVars, States, Sends
<1>7. CASE \E given \in Databases \cup {NoDb} : RecvLogin(given)
  BY <1>1, <1>7, NoReplyType, SessionAssumption
     DEF RecvLogin, Receive, NoResponse, clientVars, batchVars, Locations
<1>8. CASE LoginEnd
  BY <1>1, <1>8, Responses
     DEF LoginEnd, clientVars, pathVars, batchVars, workVars, States,
         Locations, Sends
<1>9. CASE RecvOutOfOrder
  BY <1>1, <1>9, NoReplyType
     DEF RecvOutOfOrder, Receive, NoResponse, clientVars, pathVars, batchVars,
         States, Locations
<1>10. CASE RecvIgnored
  BY <1>1, <1>10, NoReplyType
     DEF RecvIgnored, Receive, NoResponse, clientVars, pathVars, batchVars
<1>11. CASE RecvSqlRejected
  BY <1>1, <1>11, Responses
     DEF RecvSqlRejected, Receive, clientVars, pathVars, batchVars, Sends
<1>12. CASE RecvSql \/ RecvExecSql
  <2>1. /\ Receive({"sql"}) \/ Receive({"execsql"})
        /\ StartBatch
        /\ savedPath' \in {path, savedPath}
    BY <1>12 DEF RecvSql, RecvExecSql
  <2>2. /\ sent' = sent /\ hungup' = hungup /\ work' = work
        /\ nread' = nread + 1 /\ nread' <= Len(sent)
        /\ executed' = 0 /\ kept' = 0
    BY <2>1 DEF Receive, clientVars
  <2>3. /\ UNCHANGED <<state, path, database, tokens, frames, fault, started,
                       answered, clientDb>>
        /\ reply' = NoReply /\ pc' = "run"
    BY <2>1 DEF StartBatch, NoResponse, batchVars
  <2> QED BY <1>1, <2>1, <2>2, <2>3, NoReplyType DEF Locations
<1>13. CASE Interpreter
  <2>1. /\ tokens' \in Seq(Token)
        /\ database' \in Databases \cup {NoDb} /\ path' \in Databases \cup {NoDb}
    BY <1>13, InterpreterTokens, AdditionsAnnounce, PairTypes
  <2> QED BY <1>1, <1>13, <2>1, InterpreterSteps, InterpreterTypes
<1>14. CASE SqlWrite
  BY <1>1, <1>14, Responses
     DEF SqlWrite, clientVars, pathVars, batchVars, workVars, Locations, Sends
<1>15. CASE SqlRelease
  BY <1>1, <1>15
     DEF SqlRelease, clientVars, pathVars, batchVars, workVars, wireVars,
         Locations
<1>16. CASE Catch
  BY <1>1, <1>16, Responses
     DEF Catch, Rollback, clientVars, batchVars, Locations, Sends
<1>17. CASE SqlFinish
  BY <1>1, <1>2, <1>17
     DEF SqlFinish, Commit, EndBatch, clientVars, pathVars, wireVars, Locations
<1>18. CASE RpcFinish
  BY <1>1, <1>18, ReleaseFacts
     DEF RpcFinish, Commit, clientVars, pathVars, wireVars, Locations
<1>19. CASE RpcWrite
  BY <1>1, <1>2, <1>19, Responses
     DEF RpcWrite, EndBatch, clientVars, pathVars, workVars, Locations, Sends
<1>20. CASE PgError
  BY <1>1, <1>20
     DEF PgError, Fails, clientVars, pathVars, batchVars, workVars, wireVars,
         Locations
<1>21. CASE WorkerDies
  BY <1>1, <1>21
     DEF WorkerDies, clientVars, pathVars, batchVars, wireVars, Locations
<1>22. CASE UNCHANGED vars
  BY <1>22 DEF vars, clientVars, pathVars, batchVars, workVars, wireVars
<1> QED BY <1>3, <1>4, <1>5, <1>6, <1>7, <1>8, <1>9, <1>10, <1>11, <1>12,
           <1>13, <1>14, <1>15, <1>16, <1>17, <1>18, <1>19, <1>20, <1>21,
           <1>22
        DEF Next, NoInput, Worker, PacketLoop, BatchClose

LEMMA BaseInit == Init => Base
<1> SUFFICES ASSUME Init PROVE Base
  OBVIOUS
<1>1. /\ << >> \in Seq(Token) /\ << >> \in Seq({"program", "while"})
      /\ << >> \in Seq(RequestTypes) /\ << >> \in Seq(Nat)
  OBVIOUS
<1>2. TypeOK
  <2>1. /\ sent \in Seq(RequestTypes) /\ hungup \in HangUps
        /\ tokens \in Seq(Token) /\ frames \in Seq({"program", "while"})
        /\ answered \in Seq(Nat)
    BY <1>1 DEF Init, HangUps
  <2>2. nread \in 0..Len(sent)
    BY DEF Init
  <2>3. /\ pg \in [xact : BOOLEAN, spi : Nat, snaps : Nat, subs : Nat]
        /\ reply \in Response
    BY NoReplyType, LevelsType DEF Init
  <2>4. /\ state \in States /\ pc \in Locations
        /\ path \in Databases \cup {NoDb} /\ savedPath \in Databases \cup {NoDb}
        /\ database \in Databases \cup {NoDb}
        /\ clientDb \in Databases \cup {NoDb}
        /\ fault \in {"none", "reported", "silent"}
        /\ started \in Nat /\ executed \in Nat /\ work \in Nat /\ kept \in Nat
    BY DEF Init, States, Locations
  <2> QED BY <2>1, <2>2, <2>3, <2>4 DEF TypeOK
<1>3. TransactionBracket
  BY DEF Init, TransactionBracket
<1>4. Position /\ Knows
  BY DEF Init, Position, Knows, ClientKnowsDatabase, InBatch, Pending
<1> QED BY <1>2, <1>3, <1>4 DEF Base

LEMMA BaseInvariant == Spec => []Base
<1>1. Base /\ [Next]_vars => Base'
  BY TypeStep, BracketStep, PositionStep, KnowsStep DEF Base
<1> QED BY <1>1, BaseInit, PTL DEF Spec

\* Every variable keeps its type: no level of PostgreSQL's transaction, SPI,
\* snapshot and subtransaction stacks is left more often than it was entered.
THEOREM TypeCorrect == Spec => []TypeOK
BY BaseInvariant, PTL DEF Base

\* Whatever a request does, the transaction bracket around it is open exactly
\* once while it runs and closed when the worker reads the next packet.
THEOREM BracketCorrect == Spec => []TransactionBracket
BY BaseInvariant, PTL DEF Base

\* Between requests the client and the executor agree on the database, also
\* after an ERROR that rolled a USE back.
THEOREM ClientKnowsDatabaseCorrect == Spec => []ClientKnowsDatabase
BY BaseInvariant, PTL DEF Base, Knows

----------------------------------------------------------------------------
(* Responses *)

Answered(n) == \E i \in 1..Len(answered) : answered[i] = n

\* The responses so far are those of earlier packets, and of the current one
\* once it is answered; no batch before it is left out.
Answers ==
    /\ AnsweredOnceInOrder
    /\ pc \in Pending \cup {"login"} =>
          \A i \in 1..Len(answered) : answered[i] < nread
    /\ pc \notin {"closed", "dead"} =>
          \A n \in 1..nread : sent[n] \in {"sql", "execsql"} =>
              Answered(n) \/ (n = nread /\ pc \in Pending)

\* A response to a packet that has none keeps the responses in order.
LEMMA AnswersAppend ==
    ASSUME NEW before \in Seq(Nat), NEW n \in Nat, NEW m \in Nat,
           n > 0, n <= m,
           \A i \in 1..Len(before) : before[i] \in 1..m /\ before[i] < n,
           \A i, j \in 1..Len(before) : i < j => before[i] < before[j]
    PROVE  /\ \A i \in 1..Len(Append(before, n)) : Append(before, n)[i] \in 1..m
           /\ \A i, j \in 1..Len(Append(before, n)) :
                 i < j => Append(before, n)[i] < Append(before, n)[j]
           /\ \E i \in 1..Len(Append(before, n)) : Append(before, n)[i] = n
           /\ \A k : (\E i \in 1..Len(before) : before[i] = k) =>
                 \E i \in 1..Len(Append(before, n)) : Append(before, n)[i] = k
<1> DEFINE after == Append(before, n)
<1>1. /\ Len(after) = Len(before) + 1 /\ Len(before) \in Nat
      /\ after[Len(before) + 1] = n
      /\ \A i \in 1..Len(before) : after[i] = before[i]
  OBVIOUS
<1> HIDE DEF after
<1>2. \A i \in 1..Len(after) : after[i] \in 1..m
  BY <1>1
<1>3. ASSUME NEW i \in 1..Len(after), NEW j \in 1..Len(after), i < j
      PROVE  after[i] < after[j]
  <2>1. i \in 1..Len(before) /\ after[i] = before[i]
    BY <1>1, <1>3
  <2>2. CASE j = Len(before) + 1
    BY <1>1, <2>1, <2>2
  <2>3. CASE j \in 1..Len(before)
    BY <1>1, <1>3, <2>1, <2>3
  <2> QED BY <1>1, <2>2, <2>3
<1>4. \E i \in 1..Len(after) : after[i] = n
  BY <1>1
<1>5. \A k : (\E i \in 1..Len(before) : before[i] = k) =>
                 \E i \in 1..Len(after) : after[i] = k
  BY <1>1
<1> QED BY <1>2, <1>3, <1>4, <1>5 DEF after

LEMMA AnswersStep ==
    ASSUME Base, Base', Answers, [Next]_vars
    PROVE  Answers'
<1> USE DEF Answers, AnsweredOnceInOrder, Answered, Pending
<1>1. /\ nread \in Nat /\ nread' \in Nat /\ answered \in Seq(Nat)
      /\ nread <= Len(sent) /\ sent \in Seq(RequestTypes)
  BY DEF Base, TypeOK
<1>2. CASE Client
  <2>1. /\ UNCHANGED <<pc, nread, answered>>
        /\ \A n \in 1..nread : sent'[n] = sent[n]
    BY <1>1, <1>2, ClientSteps DEF Base
  <2> QED BY <2>1
<1>3. CASE RecvUnknown \/ RecvOutOfOrder
  BY <1>1, <1>3 DEF RecvUnknown, RecvOutOfOrder, Receive, NoResponse
<1>4. CASE NoInput \/ WorkerDies
  BY <1>4 DEF NoInput, RecvEof, RecvTorn, RecvFails,
         NoPacket, WorkerDies, clientVars, wireVars
<1>5. CASE RecvPrelogin \/ RecvSqlRejected
  <2>1. /\ pc = "recv" /\ pc' = pc /\ nread' = nread + 1 /\ sent' = sent
        /\ answered' = Append(answered, nread + 1)
    BY <1>5, Responses
       DEF RecvPrelogin, RecvSqlRejected, Receive, clientVars, Sends
  <2>2. \A i \in 1..Len(answered) :
           answered[i] \in 1..nread + 1 /\ answered[i] < nread + 1
    BY <1>1
  <2> DEFINE n == nread + 1
             after == Append(answered, n)
  <2>3. /\ \A i \in 1..Len(after) : after[i] \in 1..n
        /\ \A i, j \in 1..Len(after) : i < j => after[i] < after[j]
        /\ \E i \in 1..Len(after) : after[i] = n
        /\ \A k : (\E i \in 1..Len(answered) : answered[i] = k) =>
              \E i \in 1..Len(after) : after[i] = k
    <3>1. n \in Nat /\ n > 0 /\ n <= n
      BY <1>1
    <3>2. \A i, j \in 1..Len(answered) : i < j => answered[i] < answered[j]
      OBVIOUS
    <3> QED BY <1>1, <2>2, <3>1, <3>2, AnswersAppend
  <2>4. answered' = after /\ nread' = n
    BY <2>1
  <2> HIDE DEF after
  <2>5. AnsweredOnceInOrder'
    BY <2>3, <2>4
  <2>6. ASSUME NEW k \in 1..n, sent'[k] \in {"sql", "execsql"}
        PROVE  \E i \in 1..Len(after) : after[i] = k
    <3>1. CASE k = n
      BY <2>3, <3>1
    <3>2. CASE k \in 1..nread
      BY <1>1, <2>1, <2>3, <2>6, <3>2
    <3> QED BY <1>1, <2>6, <3>1, <3>2
  <2> QED BY <2>1, <2>4, <2>5, <2>6
<1>6. CASE \/ \E given \in Databases \cup {NoDb} : RecvLogin(given)
           \/ RecvIgnored
  <2>1. /\ pc = "recv" /\ pc' \in {"recv", "login"} /\ nread' = nread + 1
        /\ sent' = sent /\ answered' = answered
        /\ sent[nread + 1] \notin {"sql", "execsql"}
    BY <1>6 DEF RecvLogin, RecvIgnored, Receive, NoResponse, clientVars
  <2> QED BY <1>1, <2>1
<1>7. CASE RecvSql \/ RecvExecSql
  <2>1. /\ pc = "recv" /\ pc' = "run" /\ nread' = nread + 1
        /\ sent' = sent /\ answered' = answered
    BY <1>7 DEF RecvSql, RecvExecSql, StartBatch, Receive, NoResponse,
                clientVars
  <2> QED BY <1>1, <2>1
<1>8. CASE LoginEnd \/ SqlWrite \/ Catch \/ RpcWrite
  <2>1. /\ pc \in Pending \cup {"login"} /\ nread > 0
        /\ pc' \in {"recv", "release", "finish"}
        /\ UNCHANGED <<nread, sent>>
        /\ answered' = Append(answered, nread)
    BY <1>8, Responses
       DEF Base, Position, InBatch, LoginEnd, SqlWrite, Catch, RpcWrite,
           EndBatch, clientVars, Sends
  <2>2. /\ \A i \in 1..Len(answered) :
             answered[i] \in 1..nread /\ answered[i] < nread
    BY <2>1
  <2> QED BY <1>1, <2>1, <2>2, AnswersAppend
<1>9. CASE Interpreter
  <2>1. /\ pc \in {"run", "unwind"}
        /\ pc' \in {"run", "unwind", "write", "rpcfinish"}
        /\ UNCHANGED <<sent, nread, answered>>
    BY <1>9, InterpreterSteps DEF AfterBatch
  <2> QED BY <2>1
<1>10. CASE SqlRelease \/ SqlFinish \/ RpcFinish \/ PgError
  BY <1>10 DEF SqlRelease, SqlFinish, RpcFinish, PgError, Fails, Commit,
               EndBatch, clientVars, wireVars
<1>11. CASE UNCHANGED vars
  BY <1>11 DEF vars, clientVars, wireVars
<1> QED BY <1>2, <1>3, <1>4, <1>5, <1>6, <1>7, <1>8, <1>9, <1>10, <1>11
        DEF Next, NoInput, Worker, PacketLoop, BatchClose

LEMMA AnswersInvariant == Spec => []Answers
<1>1. Init => Answers
  BY DEF Init, Answers, AnsweredOnceInOrder, Pending
<1>2. Base /\ Base' /\ Answers /\ [Next]_vars => Answers'
  BY AnswersStep
<1> QED BY <1>1, <1>2, BaseInvariant, PTL DEF Spec

\* Responses go out in the order of the requests, at most one for each.
THEOREM AnsweredOnceInOrderCorrect == Spec => []AnsweredOnceInOrder
BY AnswersInvariant, PTL DEF Answers

\* A worker that waits for the next packet has answered every batch and every
\* sp_executesql it has read.
THEOREM EveryRequestAnsweredCorrect == Spec => []EveryRequestAnswered
<1>1. Answers => EveryRequestAnswered
  BY DEF Answers, EveryRequestAnswered, Answered, Pending
<1> QED BY <1>1, AnswersInvariant, PTL

----------------------------------------------------------------------------
\* The tokens of a response are built so that it tells a failure: marked
\* nowhere, ERRORs with their DONE, and a reported fault at the end.
Told ==
    /\ Unmarked(tokens) /\ ErrorsPaired(tokens)
    /\ pc = "run" => fault = "none"
    /\ pc \in Pending /\ fault = "reported" => EndsWithError(tokens)
    /\ reply.id <= nread
    /\ FailureTold

\* What the interpreter adds keeps the list that way.
LEMMA AdditionsTold ==
    ASSUME NEW toks \in Seq(Token), NEW more,
           more \in Additions(toks) \/ \E d \in Databases : more = AddDatabase(toks, d),
           Unmarked(toks), ErrorsPaired(toks)
    PROVE  Unmarked(more) /\ ErrorsPaired(more)
<1>1. CASE more \in {toks, AddError(toks), AddInfo(toks)}
  BY <1>1, AddErrorFacts, PlainAdditions
<1>2. CASE \E d \in Databases : more = AddDatabase(toks, d)
  BY <1>2, PlainAdditions
<1>3. /\ Done \in Token /\ ~Done.more /\ Done.kind # "error"
      /\ Results \in Token /\ ~Results.more /\ Results.kind # "error"
  BY TokenTypes, UnmarkedTokens DEF Done, Results, Plain
<1>4. CASE more = AddToken(toks, Done)
  BY <1>3, <1>4, UnmarkedAdd, PairedAdd
<1>5. CASE more = AddToken(AddToken(toks, Results), Done)
  <2>1. /\ AddToken(toks, Results) \in Seq(Token)
        /\ Unmarked(AddToken(toks, Results))
        /\ ErrorsPaired(AddToken(toks, Results))
    BY <1>3, AddTokenFacts, UnmarkedAdd, PairedAdd
  <2> QED BY <1>3, <1>5, <2>1, UnmarkedAdd, PairedAdd
<1> QED BY <1>1, <1>2, <1>4, <1>5 DEF Additions

\* A fault the interpreter reports is the last thing it says, and it goes on
\* only without one.
LEMMA InterpreterFaults ==
    ASSUME Interpreter, Told, pc \in Pending
    PROVE  /\ pc' = "run" => fault' = "none"
           /\ fault' = "reported" => \/ tokens' = AddError(tokens)
                                     \/ fault = "reported" /\ tokens' = tokens
<1> USE DEF Statement, Control, Told
<1>1. CASE Select BY <1>1 DEF Select
<1>2. CASE Modify BY <1>2 DEF Modify
<1>3. CASE ModifySilently BY <1>3 DEF ModifySilently
<1>4. CASE PrintStatement BY <1>4 DEF PrintStatement
<1>5. CASE \E d \in Databases : UseDatabase(d) BY <1>5 DEF UseDatabase
<1>6. CASE StatementError BY <1>6 DEF StatementError
<1>7. CASE ExecUnparsable BY <1>7 DEF ExecUnparsable
<1>8. CASE \E kind \in {"program", "while"} : EnterFrame(kind)
  BY <1>8 DEF EnterFrame
<1>9. CASE LeaveFrame BY <1>9 DEF LeaveFrame
<1>10. CASE WhileConditionError BY <1>10 DEF WhileConditionError
<1>11. CASE UnwindWhile BY <1>11 DEF UnwindWhile
<1>12. CASE UnwindProgram BY <1>12 DEF UnwindProgram
<1>13. CASE BatchEnd BY <1>13 DEF BatchEnd, AfterBatch
<1> QED BY <1>1, <1>2, <1>3, <1>4, <1>5, <1>6, <1>7, <1>8, <1>9, <1>10,
           <1>11, <1>12, <1>13 DEF Interpreter

\* Freed tables do not hide an error at the end.
LEMMA ReleasedEnd ==
    ASSUME NEW toks \in Seq(Token), EndsWithError(toks)
    PROVE  EndsWithError(ReleaseTables(toks))
<1>1. /\ toks # << >> /\ toks[Len(toks)].kind = "done" /\ toks[Len(toks)].error
  BY DEF EndsWithError, EndsWithDone
<1>2. toks[Len(toks)] \in Token /\ Len(toks) \in 1..Len(toks)
  BY <1>1
<1>3. /\ Len(ReleaseTables(toks)) = Len(toks)
      /\ ReleaseTables(toks)[Len(toks)].kind = "done"
      /\ ReleaseTables(toks)[Len(toks)].error
  BY <1>1, <1>2, ReleaseFacts, FreedFacts
<1> QED BY <1>2, <1>3 DEF EndsWithError, EndsWithDone

LEMMA FailureToldKept ==
    ASSUME Base, Told, UNCHANGED reply,
           \A i \in 1..Len(sent) : sent'[i] = sent[i]
    PROVE  FailureTold'
<1>1. reply.id \in Nat /\ nread <= Len(sent) /\ nread \in Nat /\ Len(sent) \in Nat
  BY DEF Base, TypeOK, Response
<1>2. reply.id # 0 => sent'[reply.id] = sent[reply.id]
  BY <1>1 DEF Told
<1>3. UNCHANGED IsStream
  BY <1>2 DEF IsStream
<1> QED BY <1>3 DEF Told, FailureTold

LEMMA ToldStep ==
    ASSUME Base, Told, [Next]_vars
    PROVE  Told'
<1>1. /\ tokens \in Seq(Token) /\ nread \in Nat /\ reply.id \in Nat
      /\ reply.id <= nread
  BY DEF Base, TypeOK, Response, Told
<1>2. << >> \in Seq(Token) /\ Unmarked(<< >>) /\ ErrorsPaired(<< >>)
  BY DEF Unmarked, ErrorsPaired
<1> USE DEF Pending
<1>3. CASE Client
  <2>1. FailureTold'
    BY <1>3, ClientSteps, FailureToldKept DEF Base
  <2> QED BY <1>1, <1>3, <2>1, ClientSteps DEF Told, Base
<1>4. CASE RecvUnknown \/ RecvOutOfOrder \/ RecvIgnored
           \/ \E given \in Databases \cup {NoDb} : RecvLogin(given)
  <2>1. /\ reply' = NoReply /\ UNCHANGED <<tokens, fault>>
        /\ pc' \in {"closed", "recv", "login"} /\ nread' = nread + 1
    BY <1>4 DEF RecvUnknown, RecvOutOfOrder, RecvIgnored, RecvLogin, Receive,
                NoResponse, batchVars
  <2>2. reply'.id = 0 /\ FailureTold'
    BY <2>1 DEF NoReply, FailureTold, IsStream
  <2> QED BY <1>1, <2>1, <2>2 DEF Told
<1>5. CASE RecvSql \/ RecvExecSql
  <2>1. /\ reply' = NoReply /\ UNCHANGED <<tokens, fault>> /\ pc = "recv"
        /\ nread' = nread + 1
    BY <1>5 DEF RecvSql, RecvExecSql, StartBatch, Receive, NoResponse,
                batchVars
  <2>2. reply'.id = 0 /\ FailureTold'
    BY <2>1 DEF NoReply, FailureTold, IsStream
  <2>3. fault = "none"
    BY <2>1 DEF Base, Position
  <2> QED BY <1>1, <2>1, <2>2, <2>3 DEF Told
<1>6. CASE RecvPrelogin
  <2>1. /\ reply'.id = nread + 1 /\ sent'[nread + 1] = "prelogin"
        /\ nread' = nread + 1 /\ pc' = "recv" /\ UNCHANGED <<tokens, fault>>
    BY <1>6, Responses
       DEF RecvPrelogin, Receive, clientVars, batchVars, Sends
  <2>2. FailureTold'
    BY <2>1 DEF FailureTold, IsStream
  <2> QED BY <1>1, <2>1, <2>2 DEF Told
<1>7. CASE RecvSqlRejected
  <2>1. /\ reply'.id = nread + 1 /\ nread' = nread + 1 /\ pc' = "recv"
        /\ reply'.stream = Serialise(AddError(<< >>))
        /\ UNCHANGED <<tokens, fault>>
    BY <1>7, Responses
       DEF RecvSqlRejected, Receive, batchVars, Sends
  <2>2. /\ AddError(<< >>) \in Seq(Token) /\ Unmarked(AddError(<< >>))
        /\ ErrorsPaired(AddError(<< >>)) /\ EndsWithError(AddError(<< >>))
    BY <1>2, AddErrorFacts, PairTypes
  <2>3. FailureTold'
    BY <2>1, <2>2, SerialiseWellFormed DEF FailureTold
  <2> QED BY <1>1, <2>1, <2>3 DEF Told
<1>8. CASE LoginEnd
  <2>1. /\ reply'.id = nread /\ nread' = nread /\ pc' = "recv"
        /\ reply'.outcome = "ok" /\ reply'.stream = Serialise(LoginTokens)
        /\ UNCHANGED <<tokens, fault>>
    BY <1>8, Responses DEF LoginEnd, batchVars, Sends
  <2>2. /\ LoginTokens \in Seq(Token)
        /\ Unmarked(LoginTokens) /\ ErrorsPaired(LoginTokens)
    <3> DEFINE ack == <<Plain("loginack")>>
    <3>1. /\ Plain("loginack").kind # "error" /\ ~Plain("loginack").more
          /\ Done.kind # "error" /\ ~Done.more /\ Done \in Token
      BY TokenTypes DEF Plain, Done
    <3>2. Len(ack) = 1 /\ ack[1] = Plain("loginack") /\ ack \in Seq(Token)
      BY TokenTypes DEF Kinds
    <3> HIDE DEF ack
    <3>3. Unmarked(ack) /\ ErrorsPaired(ack)
      BY <3>1, <3>2 DEF Unmarked, ErrorsPaired
    <3>4. database \in Databases
      BY <1>8 DEF LoginEnd, Base, Position
    <3>5. /\ AddDatabase(ack, database) \in Seq(Token)
          /\ Unmarked(AddDatabase(ack, database))
          /\ ErrorsPaired(AddDatabase(ack, database))
      BY <3>2, <3>3, <3>4, PairTypes, PlainAdditions
    <3>6. LoginTokens = AddToken(AddDatabase(ack, database), Done)
      BY DEF LoginTokens, ack
    <3> QED BY <3>1, <3>5, <3>6, AddTokenFacts, UnmarkedAdd, PairedAdd
  <2>3. FailureTold'
    BY <2>1, <2>2, SerialiseWellFormed DEF FailureTold
  <2> QED BY <1>1, <2>1, <2>3 DEF Told
<1>9. CASE Interpreter
  <2>1. /\ pc \in {"run", "unwind"} /\ UNCHANGED <<nread, sent, reply>>
        /\ pc' \in {"run", "unwind", "write", "rpcfinish"}
    BY <1>9, InterpreterSteps DEF AfterBatch
  <2>2. Unmarked(tokens') /\ ErrorsPaired(tokens')
    BY <1>1, <1>9, InterpreterTokens, AdditionsTold DEF Told
  <2>3. /\ pc' = "run" => fault' = "none"
        /\ fault' = "reported" => EndsWithError(tokens')
    BY <1>1, <1>9, <2>1, InterpreterFaults, AddErrorFacts DEF Told
  <2>4. FailureTold'
    BY <2>1, FailureToldKept
  <2> QED BY <1>1, <2>1, <2>2, <2>3, <2>4 DEF Told
<1>10. CASE SqlWrite \/ RpcWrite
  <2>1. /\ pc \in Pending /\ reply'.id = nread /\ nread' = nread
        /\ reply'.outcome = Outcome /\ reply'.stream = Serialise(tokens)
        /\ \/ pc' = "release" /\ tokens' = tokens
           \/ pc' = "recv" /\ tokens' = << >>
    BY <1>10, Responses DEF SqlWrite, RpcWrite, EndBatch, batchVars, Sends
  <2>2. Outcome \in {"ok", "failed", "silent"}
        /\ (Outcome = "failed" => EndsWithError(tokens))
    BY <2>1, OutcomeFacts DEF Told, Base
  <2>3. FailureTold'
    BY <1>1, <2>1, <2>2, SerialiseWellFormed DEF FailureTold, Told
  <2> QED BY <1>1, <1>2, <2>1, <2>3 DEF Told
<1>11. CASE Catch
  <2>1. /\ reply'.id = nread /\ nread' = nread /\ pc' = "finish"
        /\ reply'.stream = Serialise(CaughtTokens) /\ UNCHANGED tokens
    BY <1>11, Responses DEF Catch, batchVars, Sends
  <2>2. /\ CaughtTokens \in Seq(Token) /\ Unmarked(CaughtTokens)
        /\ ErrorsPaired(CaughtTokens) /\ EndsWithError(CaughtTokens)
    BY <1>1, ReleaseFacts, ReleasedPaired, AddErrorFacts, PairTypes
       DEF CaughtTokens, Told
  <2>3. FailureTold'
    BY <2>1, <2>2, SerialiseWellFormed DEF FailureTold
  <2> QED BY <1>1, <2>1, <2>3 DEF Told
<1>12. CASE RpcFinish
  <2>1. /\ pc = "rpcfinish" /\ pc' = "rpcwrite" /\ UNCHANGED <<nread, sent, reply, fault>>
        /\ tokens' = ReleaseTables(tokens)
    BY <1>12 DEF RpcFinish, Commit, clientVars, wireVars
  <2>2. /\ Unmarked(tokens') /\ ErrorsPaired(tokens')
        /\ fault' = "reported" => EndsWithError(tokens')
    BY <1>1, <2>1, ReleasedPaired, ReleasedEnd DEF Told
  <2>3. FailureTold'
    BY <2>1, FailureToldKept
  <2> QED BY <1>1, <2>1, <2>2, <2>3 DEF Told
<1>13. CASE SqlFinish
  <2>1. /\ tokens' = << >> /\ pc' = "recv" /\ UNCHANGED <<nread, sent, reply>>
    BY <1>13 DEF SqlFinish, Commit, EndBatch, clientVars, wireVars
  <2> QED BY <1>1, <1>2, <2>1, FailureToldKept DEF Told
<1>14. CASE NoInput \/ SqlRelease \/ PgError \/ WorkerDies \/ UNCHANGED vars
  <2>1. /\ UNCHANGED <<nread, sent, reply, tokens, fault>>
        /\ pc' = pc \/ pc' \in {"spin", "closed", "finish", "dead"}
           \/ (pc' = "catch" /\ pc \in Pending)
    BY <1>14 DEF NoInput, RecvEof, RecvTorn, RecvFails,
         NoPacket, SqlRelease, PgError, WorkerDies, Fails, vars,
                 clientVars, batchVars, wireVars
  <2> QED BY <1>1, <2>1, FailureToldKept DEF Told
<1> QED BY <1>3, <1>4, <1>5, <1>6, <1>7, <1>8, <1>9, <1>10, <1>11, <1>12,
           <1>13, <1>14
        DEF Next, NoInput, Worker, PacketLoop, BatchClose

\* A batch that stopped on a reported error, an ERROR of PostgreSQL or the
\* parser is answered with an error DONE at the end, and every stream has
\* exactly one final DONE.
THEOREM FailureToldCorrect == Spec => []FailureTold
<1>1. Init => Told
  BY DEF Init, Told, FailureTold, IsStream, NoReply, Unmarked, ErrorsPaired,
         Pending
<1>2. Base /\ Told /\ [Next]_vars => Told'
  BY ToldStep
<1> QED BY <1>1, <1>2, BaseInvariant, PTL DEF Spec, Told

----------------------------------------------------------------------------
\* Where the changes of the current request are: uncommitted while the batch
\* runs, gone after a rollback, committed behind the bracket.
Worked ==
    /\ pc \in {"recv", "login", "closed"} => work = 0
    /\ pc \in Pending \ {"rpcwrite"} => /\ work = executed /\ kept = 0
                                        /\ reply = NoReply
    /\ pc \in {"release", "finish"} =>
          /\ kept = 0 /\ reply.id = nread
          /\ IF reply.outcome = "caught" THEN work = 0 ELSE work = executed
    /\ pc = "rpcwrite" => kept = executed /\ work = 0 /\ reply = NoReply
    /\ pc = "login" => reply = NoReply
    /\ reply.id <= nread
    /\ RpcAnswerIsDurable /\ WorkMatchesOutcome

LEMMA WorkedStep ==
    ASSUME Base, Worked, [Next]_vars
    PROVE  Worked'
<1> USE DEF Pending
<1>1. /\ nread \in Nat /\ reply.id \in Nat /\ reply.id <= nread
      /\ nread <= Len(sent) /\ NoReply.id = 0 /\ executed \in Nat
  BY DEF Base, TypeOK, Response, Worked, NoReply
<1> USE DEF Worked, RpcAnswerIsDurable, WorkMatchesOutcome, IsStream
<1>2. CASE Client
  <2>1. /\ UNCHANGED <<nread, pc, pg, executed, work, kept, reply>>
        /\ reply.id # 0 => sent'[reply.id] = sent[reply.id]
        /\ nread # 0 => sent'[nread] = sent[nread]
    BY <1>1, <1>2, ClientSteps DEF Base
  <2> QED BY <1>1, <2>1
<1>3. CASE RecvUnknown \/ RecvOutOfOrder \/ RecvIgnored
           \/ \E given \in Databases \cup {NoDb} : RecvLogin(given)
  <2>1. /\ pc = "recv" /\ pc' \in {"closed", "recv", "login"}
        /\ reply' = NoReply /\ work' = work /\ nread' = nread + 1
    BY <1>3 DEF RecvUnknown, RecvOutOfOrder, RecvIgnored, RecvLogin, Receive,
                NoResponse
  <2> QED BY <1>1, <2>1
<1>4. CASE RecvSql \/ RecvExecSql
  <2>1. /\ pc = "recv" /\ pc' = "run" /\ reply' = NoReply /\ work' = work
        /\ executed' = 0 /\ kept' = 0 /\ nread' = nread + 1
    BY <1>4 DEF RecvSql, RecvExecSql, StartBatch, Receive, NoResponse
  <2> QED BY <1>1, <2>1
<1>5. CASE RecvPrelogin \/ RecvSqlRejected
  <2>1. /\ pc = "recv" /\ pc' = "recv" /\ reply'.id = nread + 1
        /\ work' = work /\ nread' = nread + 1 /\ executed' = 0 /\ kept' = 0
        /\ sent' = sent
        /\ \/ sent[nread + 1] = "prelogin"
           \/ sent[nread + 1] = "sql" /\ reply'.outcome = "rejected"
    BY <1>5, Responses
       DEF RecvPrelogin, RecvSqlRejected, Receive, clientVars, Sends
  <2> QED BY <1>1, <2>1
<1>6. CASE LoginEnd
  <2>1. /\ pc = "login" /\ pc' = "recv" /\ reply'.id = nread
        /\ UNCHANGED <<nread, sent, executed, work, kept>>
        /\ reply'.outcome = "ok" /\ sent[nread] \in {"login4", "login7"}
    BY <1>6, Responses
       DEF Base, Position, Current, LoginEnd, clientVars, workVars, Sends
  <2> QED BY <1>1, <2>1
<1>7. CASE Interpreter
  <2>1. /\ pc \in {"run", "unwind"} /\ UNCHANGED <<nread, sent, reply, kept>>
        /\ pc' \in {"run", "unwind", "write", "rpcfinish"}
        /\ UNCHANGED <<executed, work>> \/ Change
    BY <1>7, InterpreterSteps DEF AfterBatch
  <2> QED BY <1>1, <2>1 DEF Change
<1>8. CASE SqlWrite
  <2>1. /\ pc = "write" /\ pc' = "release" /\ reply'.id = nread
        /\ UNCHANGED <<nread, sent, executed, work, kept>>
        /\ reply'.outcome \in {"ok", "failed", "silent"}
        /\ sent[nread] = "sql"
    BY <1>8, Responses, OutcomeFacts
       DEF Base, Position, Current, SqlWrite, clientVars, workVars, Sends
  <2> QED BY <1>1, <2>1
<1>9. CASE Catch
  <2>1. /\ pc = "catch" /\ pc' = "finish" /\ reply'.id = nread
        /\ UNCHANGED <<nread, sent, kept>> /\ work' = 0
        /\ reply'.outcome = "caught" /\ sent[nread] = "sql"
    BY <1>9, Responses
       DEF Base, Position, Current, Catch, Rollback, clientVars, Sends
  <2> QED BY <1>1, <2>1
<1>10. CASE SqlRelease
  <2>1. /\ pc = "release" /\ pc' = "finish" /\ sent[nread] = "sql"
        /\ UNCHANGED <<nread, sent, executed, work, kept, reply>>
    BY <1>10 DEF Base, Position, Current, SqlRelease, clientVars, workVars,
                 wireVars
  <2> QED BY <1>1, <2>1
<1>11. CASE SqlFinish
  <2>1. /\ pc = "finish" /\ pc' = "recv" /\ sent[nread] = "sql"
        /\ UNCHANGED <<nread, sent, executed, reply>>
        /\ kept' = work /\ work' = 0
    BY <1>11 DEF Base, Position, Current, SqlFinish, Commit, EndBatch,
                 clientVars, wireVars
  <2> QED BY <1>1, <2>1
<1>12. CASE RpcFinish
  <2>1. /\ pc = "rpcfinish" /\ pc' = "rpcwrite"
        /\ UNCHANGED <<nread, sent, executed, reply>>
        /\ kept' = work /\ work' = 0
    BY <1>12 DEF RpcFinish, Commit, clientVars, wireVars
  <2> QED BY <1>1, <2>1
<1>13. CASE RpcWrite
  <2>1. /\ pc = "rpcwrite" /\ pc' = "recv" /\ reply'.id = nread
        /\ UNCHANGED <<nread, sent, executed, work, kept, pg>>
        /\ reply'.outcome \in {"ok", "failed", "silent"}
    BY <1>13, Responses, OutcomeFacts
       DEF Base, RpcWrite, EndBatch, clientVars, workVars, Sends
  <2>2. ~pg.xact
    BY <2>1 DEF Base, TransactionBracket, Idle, Levels
  <2> QED BY <1>1, <2>1, <2>2
<1>14. CASE PgError
  <2>1. /\ pc \in {"run", "write"} /\ pc' = "catch"
        /\ UNCHANGED <<nread, sent, executed, work, kept, reply, pg>>
    BY <1>14 DEF PgError, Fails, clientVars, workVars, wireVars
  <2> QED BY <1>1, <2>1
<1>15. CASE WorkerDies
  <2>1. /\ pc' = "dead" /\ pg' = Idle
        /\ UNCHANGED <<nread, sent, executed, kept, reply>>
    BY <1>15 DEF WorkerDies, clientVars, wireVars
  <2>2. ~Idle.xact
    BY DEF Idle, Levels
  <2> QED BY <1>1, <2>1, <2>2
<1>16. CASE NoInput
  <2>1. /\ pc = "recv" /\ pc' \in {"spin", "closed"}
        /\ UNCHANGED <<nread, sent, executed, work, kept, reply, pg>>
    BY <1>16 DEF NoInput, RecvEof, RecvTorn, RecvFails,
         NoPacket, clientVars, workVars, wireVars
  <2> QED BY <1>1, <2>1
<1>17. CASE UNCHANGED vars
  BY <1>17 DEF vars, clientVars, workVars, wireVars
<1> QED BY <1>2, <1>3, <1>4, <1>5, <1>6, <1>7, <1>8, <1>9, <1>10, <1>11,
           <1>12, <1>13, <1>14, <1>15, <1>16, <1>17
        DEF Next, NoInput, Worker, PacketLoop, BatchClose

LEMMA WorkedInvariant == Spec => []Worked
<1>1. Init => Worked
  BY DEF Init, Worked, RpcAnswerIsDurable, WorkMatchesOutcome, IsStream,
         NoReply, Pending
<1>2. Base /\ Worked /\ [Next]_vars => Worked'
  BY WorkedStep
<1> QED BY <1>1, <1>2, BaseInvariant, PTL DEF Spec

\* The transaction keeps nothing of a batch that raised an ERROR and all of
\* one that did not.
THEOREM WorkMatchesOutcomeCorrect == Spec => []WorkMatchesOutcome
BY WorkedInvariant, PTL DEF Worked

\* An sp_executesql is committed before its response is written.
THEOREM RpcAnswerIsDurableCorrect == Spec => []RpcAnswerIsDurable
BY WorkedInvariant, PTL DEF Worked

----------------------------------------------------------------------------
\* Only the rollback of a USE takes the search path away from the executor's
\* database.
THEOREM PathDivergesOnlyByRollbackCorrect == Spec => PathDivergesOnlyByRollback
<1>1. ASSUME [Next]_vars, path = database, pc # "catch"
      PROVE  path' = database'
  <2> USE <1>1 DEF pathVars
  <2>1. CASE Client
    BY <2>1 DEF Client, ClientClose, ClientSend
  <2>2. CASE \E given \in Databases \cup {NoDb} : RecvLogin(given)
    BY <2>2 DEF RecvLogin
  <2>3. CASE \/ RecvUnknown \/ NoInput \/ RecvPrelogin \/ RecvOutOfOrder
             \/ RecvIgnored \/ RecvSqlRejected \/ LoginEnd
    BY <2>3 DEF RecvUnknown, NoInput, RecvEof, RecvTorn, RecvFails,
         NoPacket, RecvPrelogin, RecvOutOfOrder,
                RecvIgnored, RecvSqlRejected, LoginEnd
  <2>4. CASE RecvSql \/ RecvExecSql
    BY <2>4 DEF RecvSql, RecvExecSql, StartBatch
  <2>5. CASE Interpreter
    BY <2>5, InterpreterTokens
  <2>6. CASE SqlWrite \/ SqlRelease \/ Catch \/ SqlFinish \/ RpcFinish
             \/ RpcWrite
    BY <2>6 DEF SqlWrite, SqlRelease, Catch, SqlFinish, RpcFinish, RpcWrite,
                Commit
  <2>7. CASE PgError \/ WorkerDies \/ UNCHANGED vars
    BY <2>7 DEF PgError, Fails, WorkerDies, vars
  <2> QED BY <2>1, <2>2, <2>3, <2>4, <2>5, <2>6, <2>7
             DEF Next, NoInput, Worker, PacketLoop, BatchClose
<1>2. [Next]_vars => [path = database /\ path' # database' => pc = "catch"]_vars
  BY <1>1
<1> QED BY <1>2, PTL DEF Spec, PathDivergesOnlyByRollback

----------------------------------------------------------------------------
\* Every tuple table is allocated until something frees it.
Held ==
    /\ pc \notin {"rpcwrite", "dead"} => AllHeld(tokens)
    /\ reply.id <= nread
    /\ ResultsHeldOnSuccess

LEMMA HeldAdd ==
    ASSUME NEW toks \in Seq(Token), NEW t \in Token, AllHeld(toks),
           t.kind = "results" => t.held
    PROVE  AllHeld(AddToken(toks, t))
<1>1. /\ Len(AddToken(toks, t)) = Len(toks) + 1 /\ Len(toks) \in Nat
      /\ AddToken(toks, t)[Len(toks) + 1] = t
      /\ \A i \in 1..Len(toks) : AddToken(toks, t)[i] = toks[i]
  BY DEF AddToken
<1> QED BY <1>1 DEF AllHeld

\* The interpreter adds result sets with their table and nothing else that
\* has one.
LEMMA AdditionsHeld ==
    ASSUME NEW toks \in Seq(Token), NEW more,
           more \in Additions(toks) \/ \E d \in Databases : more = AddDatabase(toks, d),
           AllHeld(toks)
    PROVE  AllHeld(more)
<1>1. /\ Plain("error") \in Token /\ Plain("info") \in Token
      /\ Plain("env_collation") \in Token /\ Done \in Token
      /\ DoneError \in Token /\ Results \in Token
      /\ \A d \in Databases : EnvDatabase(d) \in Token
  BY TokenTypes DEF Kinds
<1>2. /\ Plain("error").kind # "results" /\ Plain("info").kind # "results"
      /\ Plain("env_collation").kind # "results" /\ Done.kind # "results"
      /\ DoneError.kind # "results" /\ Results.held
      /\ \A d \in Databases : EnvDatabase(d).kind # "results"
  BY DEF Plain, Done, DoneError, Results, EnvDatabase
<1>3. CASE more = AddError(toks)
  <2>1. /\ AddToken(toks, Plain("error")) \in Seq(Token)
        /\ AllHeld(AddToken(toks, Plain("error")))
    BY <1>1, <1>2, AddTokenFacts, HeldAdd
  <2> QED BY <1>1, <1>2, <1>3, <2>1, HeldAdd DEF AddError
<1>4. CASE more = AddInfo(toks)
  <2>1. /\ AddToken(toks, Plain("info")) \in Seq(Token)
        /\ AllHeld(AddToken(toks, Plain("info")))
    BY <1>1, <1>2, AddTokenFacts, HeldAdd
  <2> QED BY <1>1, <1>2, <1>4, <2>1, HeldAdd DEF AddInfo
<1>5. ASSUME NEW d \in Databases, more = AddDatabase(toks, d)
      PROVE  AllHeld(more)
  <2>1. /\ AddToken(toks, EnvDatabase(d)) \in Seq(Token)
        /\ AllHeld(AddToken(toks, EnvDatabase(d)))
    BY <1>1, <1>2, AddTokenFacts, HeldAdd
  <2> QED BY <1>1, <1>2, <1>5, <2>1, HeldAdd DEF AddDatabase
<1>6. CASE more = AddToken(AddToken(toks, Results), Done)
  <2>1. /\ AddToken(toks, Results) \in Seq(Token)
        /\ AllHeld(AddToken(toks, Results))
    BY <1>1, <1>2, AddTokenFacts, HeldAdd
  <2> QED BY <1>1, <1>2, <1>6, <2>1, HeldAdd
<1>7. CASE more = toks \/ more = AddToken(toks, Done)
  BY <1>1, <1>2, <1>7, HeldAdd
<1> QED BY <1>3, <1>4, <1>5, <1>6, <1>7 DEF Additions

\* Serialising keeps the tables.
LEMMA HeldSerialise ==
    ASSUME NEW toks \in Seq(Token), AllHeld(toks)
    PROVE  AllHeld(Serialise(toks))
<1>1. /\ MarkMore(toks) \in Seq(Token) /\ Len(MarkMore(toks)) = Len(toks)
      /\ \A i \in 1..Len(toks) : MarkMore(toks)[i] = toks[i]
                                 \/ MarkMore(toks)[i].kind = "done"
  <2>1. \A i \in 1..Len(toks) : toks[i] \in Token
    OBVIOUS
  <2> QED BY <2>1, MarkMoreFacts, MarkedFacts
<1>2. AllHeld(MarkMore(toks))
  BY <1>1 DEF AllHeld
<1>3. Done \in Token /\ Done.kind # "results"
  BY TokenTypes DEF Done, Plain
<1>4. AllHeld(AddToken(MarkMore(toks), Done))
  BY <1>1, <1>2, <1>3, HeldAdd
<1> QED BY <1>2, <1>4, SerialiseFacts DEF AddToken

LEMMA HeldStep ==
    ASSUME Base, Held, [Next]_vars
    PROVE  Held'
<1>1. /\ tokens \in Seq(Token) /\ nread \in Nat /\ reply.id \in Nat
      /\ reply.id <= nread /\ nread <= Len(sent) /\ Len(sent) \in Nat
  BY DEF Base, TypeOK, Response, Held
<1>2. << >> \in Seq(Token) /\ AllHeld(<< >>)
  BY DEF AllHeld
<1>3. ASSUME UNCHANGED reply, \A i \in 1..Len(sent) : sent'[i] = sent[i]
      PROVE  ResultsHeldOnSuccess'
  <2>1. reply.id # 0 => sent'[reply.id] = sent[reply.id]
    BY <1>1, <1>3
  <2> QED BY <1>3, <2>1 DEF Held, ResultsHeldOnSuccess, IsStream
<1>4. CASE Client
  BY <1>1, <1>3, <1>4, ClientSteps DEF Held, Base
<1>5. CASE \/ RecvUnknown \/ RecvOutOfOrder \/ RecvIgnored
           \/ \E given \in Databases \cup {NoDb} : RecvLogin(given)
           \/ RecvSql \/ RecvExecSql
  <2>1. /\ reply' = NoReply /\ UNCHANGED tokens /\ nread' = nread + 1
        /\ pc = "recv"
    BY <1>5 DEF RecvUnknown, RecvOutOfOrder, RecvIgnored, RecvLogin, RecvSql,
                RecvExecSql, StartBatch, Receive, NoResponse, batchVars
  <2>2. reply'.id = 0 /\ ResultsHeldOnSuccess'
    BY <2>1 DEF NoReply, ResultsHeldOnSuccess, IsStream
  <2> QED BY <1>1, <2>1, <2>2 DEF Held
<1>6. CASE RecvPrelogin
  <2>1. /\ reply'.id = nread + 1 /\ sent'[nread + 1] = "prelogin"
        /\ nread' = nread + 1 /\ UNCHANGED <<pc, tokens>>
    BY <1>6, Responses
       DEF RecvPrelogin, Receive, clientVars, batchVars, Sends
  <2> QED BY <1>1, <2>1 DEF Held, ResultsHeldOnSuccess, IsStream
<1>7. CASE RecvSqlRejected
  <2>1. /\ reply'.id = nread + 1 /\ nread' = nread + 1
        /\ reply'.stream = Serialise(AddError(<< >>))
        /\ UNCHANGED <<pc, tokens>>
    BY <1>7, Responses DEF RecvSqlRejected, Receive, batchVars, Sends
  <2>2. AddError(<< >>) \in Seq(Token) /\ AllHeld(AddError(<< >>))
    BY <1>2, PairTypes, AdditionsHeld DEF Additions
  <2>3. AllHeld(Serialise(AddError(<< >>)))
    BY <2>2, HeldSerialise
  <2> QED BY <1>1, <2>1, <2>3 DEF Held, ResultsHeldOnSuccess
<1>8. CASE LoginEnd
  <2>1. /\ reply'.id = nread /\ UNCHANGED <<nread, sent, tokens>>
        /\ pc = "login" /\ sent[nread] \in {"login4", "login7"}
    BY <1>8, Responses
       DEF Base, Position, Current, LoginEnd, clientVars, batchVars, Sends
  <2> QED BY <1>1, <2>1 DEF Held, ResultsHeldOnSuccess
<1>9. CASE Interpreter
  <2>1. /\ pc \in {"run", "unwind"} /\ UNCHANGED <<nread, sent, reply>>
    BY <1>9, InterpreterSteps
  <2>2. AllHeld(tokens')
    BY <1>1, <1>9, <2>1, InterpreterTokens, AdditionsHeld DEF Held
  <2> QED BY <1>1, <1>3, <2>1, <2>2 DEF Held
<1>10. CASE SqlWrite
  <2>1. /\ pc = "write" /\ reply'.id = nread /\ UNCHANGED <<nread, tokens>>
        /\ reply'.stream = Serialise(tokens)
    BY <1>10, Responses DEF SqlWrite, batchVars, Sends
  <2>2. AllHeld(Serialise(tokens))
    BY <1>1, <2>1, HeldSerialise DEF Held
  <2> QED BY <1>1, <2>1, <2>2 DEF Held, ResultsHeldOnSuccess
<1>11. CASE Catch
  <2>1. /\ pc = "catch" /\ reply'.id = nread /\ UNCHANGED <<nread, tokens>>
        /\ reply'.outcome = "caught"
    BY <1>11, Responses DEF Catch, batchVars, Sends
  <2> QED BY <1>1, <2>1 DEF Held, ResultsHeldOnSuccess
<1>12. CASE SqlFinish
  <2>1. UNCHANGED <<nread, sent, reply>> /\ tokens' = << >>
    BY <1>12 DEF SqlFinish, Commit, EndBatch, clientVars, wireVars
  <2> QED BY <1>1, <1>2, <1>3, <2>1 DEF Held
<1>13. CASE RpcFinish
  <2>1. UNCHANGED <<nread, sent, reply>> /\ pc' = "rpcwrite"
    BY <1>13 DEF RpcFinish, Commit, clientVars, wireVars
  <2> QED BY <1>1, <1>3, <2>1 DEF Held
<1>14. CASE RpcWrite
  <2>1. /\ reply'.id = nread /\ UNCHANGED <<nread, sent>> /\ tokens' = << >>
        /\ sent[nread] = "execsql"
    BY <1>14, Responses
       DEF Base, Position, Current, RpcWrite, EndBatch, clientVars, Sends
  <2> QED BY <1>1, <1>2, <2>1 DEF Held, ResultsHeldOnSuccess
<1>15. CASE NoInput \/ SqlRelease \/ PgError \/ WorkerDies \/ UNCHANGED vars
  <2>1. /\ UNCHANGED <<nread, sent, reply, tokens>>
        /\ pc' = pc \/ pc' = "dead" \/ pc \in {"recv", "release", "run", "write"}
    BY <1>15 DEF NoInput, RecvEof, RecvTorn, RecvFails,
         NoPacket, SqlRelease, PgError, WorkerDies, Fails, vars,
                 clientVars, batchVars, wireVars
  <2> QED BY <1>1, <1>3, <2>1 DEF Held
<1> QED BY <1>4, <1>5, <1>6, <1>7, <1>8, <1>9, <1>10, <1>11, <1>12, <1>13,
           <1>14, <1>15
        DEF Next, NoInput, Worker, PacketLoop, BatchClose

\* A SQL batch that raised no ERROR is answered while the tables of its
\* result sets are allocated.
THEOREM ResultsHeldOnSuccessCorrect == Spec => []ResultsHeldOnSuccess
<1>1. Init => Held
  BY DEF Init, Held, ResultsHeldOnSuccess, IsStream, NoReply, AllHeld
<1>2. Base /\ Held /\ [Next]_vars => Held'
  BY HeldStep
<1> QED BY <1>1, <1>2, BaseInvariant, PTL DEF Spec, Held
=============================================================================
