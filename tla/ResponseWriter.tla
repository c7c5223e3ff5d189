--------------------------- MODULE ResponseWriter ---------------------------
(***************************************************************************)
(* tdspacket::writepacket(sock): a response is built in a buffer, token by *)
(* token, each in a child buffer of its own, and sent in packets of at     *)
(* most PacketBody bytes behind their headers.  `todo' are the additions   *)
(* that the token under construction still has to make.                    *)
(***************************************************************************)
EXTENDS DynBuffer, ResultRows

CONSTANTS PacketBody,  \* bytes of a packet without its header, 4088
          Texts,       \* bound: bytes in UTF-8 and characters of a text
          Sizes,       \* bound: bytes of a string value
          RowTypes,    \* bound: the columns of a result set
          MaxColumns,  \* bound: their number
          MaxTokens,   \* bound: tokens of a response
          MaxRows      \* bound: rows of a result set

NoColumns == << >>

\* A character takes one to three bytes in UTF-8.  A value has less than 2^32
\* bytes: PostgreSQL has none of more than 1 GB.
ASSUME WriterAssumption ==
    /\ InitialSize \in Nat /\ InitialSize >= 8
    /\ PacketBody \in Nat \ {0}
    /\ WordLimit \in Nat /\ WordLimit > 2
    /\ OldLength \in 1..(NullWord - 1)
    /\ \A t \in Texts : t \in [bytes : Nat, chars : Nat] /\ t.chars <= t.bytes
    /\ Sizes \subseteq 0..(LongNull - 1)
    /\ RowTypes \subseteq Columns
    /\ MaxColumns \in Nat /\ MaxTokens \in Nat /\ MaxRows \in Nat

VARIABLES
    late,    \* whether tdsversion is 7.2 or later
    pc,      \* what writepacket is at; "overrun" once it wrote behind the block
    buf,     \* the buffer of the response
    child,   \* the buffer of the token
    todo,    \* the additions to come
    tails,   \* data to be put at the end: its pointer's position and its size
    cols,    \* the columns of the result set under construction
    row,     \* the fields of its last row so far
    filled,  \* the cells in it
    rows,    \* its rows so far
    tokens,  \* the finished tokens: where they lie, what their length says
    last,    \* the kind of the last token
    empties, \* where the counts of empty messages lie, their second byte
    cut,     \* bytes of the response that have been cut into packets
    stream   \* the packets: their length, their first byte, eom_flag

building == <<child, todo, tails, cols, row, filled, rows, tokens, last, empties>>
vars == <<late, pc, buf, building, cut, stream>>

Init ==
    /\ late \in BOOLEAN /\ pc = "idle"
    /\ buf = NewBuffer /\ child = NoChild /\ todo = << >> /\ tails = << >>
    /\ cols = NoColumns /\ row = << >> /\ filled = 0 /\ rows = 0
    /\ tokens = << >> /\ last = "none" /\ empties = {}
    /\ cut = 0 /\ stream = << >>

----------------------------------------------------------------------------
\* The tokens, each as its additions.

NoText == [bytes |-> 0, chars |-> 0]
Short(t) == Text(1, t.bytes, t.chars)
Long(t)  == Text(2, t.bytes, t.chars)

MessageToken(t) ==
    <<Data(1), LengthWord, Data(4), Data(1), Data(1), Long(t),
      Short(NoText), Short(NoText), Data(IF late THEN 4 ELSE 2)>>

LoginAckToken(t) ==
    <<Data(1), LengthWord, Data(1), Data(4), Short(t),
      Data(1), Data(1), Data(1), Data(1)>>

DatabaseToken(new, old) ==
    <<Data(1), LengthWord, Data(1), Short(new), Short(old)>>

CollationToken ==
    <<Data(1), LengthWord, Data(1), Data(1), Data(2), Data(2), Data(1), Data(1)>>

DoneToken ==
    IF late THEN <<Data(1), Data(2), Data(2), Data(4), Data(4)>>
    ELSE <<Data(1), Data(2), Data(2), Data(4)>>

\* The options a prelogin response has: version, encryption, instance,
\* threadid and mars.
Prelogin ==
    <<Data(1), Pointer(6), Data(2), Data(1), Pointer(1), Data(2),
      Data(1), Pointer(1), Data(2), Data(1), Pointer(0), Data(2),
      Data(1), Pointer(1), Data(2), Data(1)>>

----------------------------------------------------------------------------
Fresh ==
    /\ buf' = NewBuffer /\ tails' = << >>
    /\ tokens' = << >> /\ last' = "none"
    /\ empties' = {} /\ cut' = 0 /\ stream' = << >>

StartPrelogin ==
    /\ pc = "idle" /\ pc' = "prelogin"
    /\ todo' = Prelogin
    /\ Fresh
    /\ UNCHANGED <<late, child, cols, row, filled, rows>>

StartTokens ==
    /\ pc = "idle" /\ pc' = "tokens"
    /\ Fresh
    /\ UNCHANGED <<late, child, todo, cols, row, filled, rows>>

\* A token begins in a child buffer of its own.
Begin(kind, fields, columns) ==
    /\ pc = "tokens" /\ ~child.open
    /\ Len(tokens) < MaxTokens /\ (Len(tokens) = MaxTokens - 1 => kind = "done")
    /\ child' = NewChild
    /\ todo' = fields
    /\ last' = kind
    /\ cols' = columns
    /\ UNCHANGED <<late, pc, buf, tails, row, filled, rows, tokens, empties, cut,
                   stream>>

BeginMessage == \E t \in Texts : Begin("message", MessageToken(t), NoColumns)

BeginLoginAck == \E t \in Texts : Begin("loginack", LoginAckToken(t), NoColumns)

BeginDatabase ==
    \E new, old \in Texts : Begin("envchange", DatabaseToken(new, old), NoColumns)

BeginCollation == Begin("envchange", CollationToken, NoColumns)

BeginDone == Begin("done", DoneToken, NoColumns)

BeginResults == Begin("results", <<Data(1), Data(2)>>, NoColumns)

\* A result set: its columns one by one, then its rows, each a byte and a
\* cell for every column.
Column ==
    /\ pc = "tokens" /\ last = "results" /\ child.open /\ todo = << >>
    /\ rows = 0 /\ Len(cols) < MaxColumns
    /\ \E col \in RowTypes, name \in Texts :
          /\ cols' = Append(cols, col)
          /\ todo' = Append(Describe(late, col), Short(name))
    /\ UNCHANGED <<late, pc, buf, child, tails, row, filled, rows, tokens, last,
                   empties, cut, stream>>

RowDone == rows = 0 \/ filled = Len(cols)

Row ==
    /\ pc = "tokens" /\ last = "results" /\ child.open /\ todo = << >>
    /\ RowDone /\ rows < MaxRows
    /\ rows' = rows + 1 /\ filled' = 0 /\ row' = << >>
    /\ todo' = <<Data(1)>>
    /\ UNCHANGED <<late, pc, buf, child, tails, cols, tokens, last, empties,
                   cut, stream>>

NextCell ==
    /\ pc = "tokens" /\ child.open /\ todo = << >> /\ ~RowDone
    /\ \E isnull \in BOOLEAN, n \in Sizes :
          /\ todo' = Cell(late, cols[filled + 1], isnull, n)
          /\ row' = row \o todo'
    /\ filled' = filled + 1
    /\ UNCHANGED <<late, pc, buf, child, tails, cols, rows, tokens, last,
                   empties, cut, stream>>

----------------------------------------------------------------------------
\* One addition to the buffer.

Here == At(buf, child)

\* The buffer after an addition of n bytes.
Advance(b, n) ==
    IF child.open THEN buf' = b /\ child' = [child EXCEPT !.pos = @ + n]
    ELSE buf' = [b EXCEPT !.pos = @ + n] /\ UNCHANGED child

\* The bytes that an addition takes, and whether they lie within the block.
Extent(f) ==
    CASE f.kind = "bytes" -> f.size
      [] f.kind = "text" -> f.wide + 2 * f.chars
      [] f.kind \in {"length", "pointer"} -> 2

AdditionFits(f) ==
    IF f.kind = "text" THEN TextFits(buf, Here, f.wide, f.bytes, f.chars)
    ELSE Fits(buf, Here, Extent(f))

Added == /\ todo # << >> /\ todo' = Tail(todo)
         /\ pc # "overrun" /\ AdditionFits(Head(todo))
         /\ UNCHANGED <<late, pc, cols, row, filled, rows, tokens, last, cut,
                        stream>>

Add ==
    /\ Added /\ Head(todo).kind = "bytes"
    /\ LET n == Head(todo).size IN Advance(AddBytes(buf, Here, n), n)
    /\ UNCHANGED <<tails, empties>>

\* add_length_hu16 in a token.
AddLength ==
    /\ Added /\ Head(todo).kind = "length"
    /\ buf' = AddBytes(buf, Here, 2)
    /\ child' = [child EXCEPT !.pos = @ + 2, !.length = child.pos]
    /\ UNCHANGED <<tails, empties>>

\* The second byte of the count of an empty message is not reserved.
AddCounted ==
    /\ Added /\ Head(todo).kind = "text"
    /\ LET f == Head(todo)
       IN /\ Advance(AddText(buf, Here, f.wide, f.bytes, f.chars),
                     f.wide + 2 * f.chars)
          /\ empties' = IF f.wide = 2 /\ f.bytes = 0
                        THEN empties \cup {Here + 1} ELSE empties
    /\ UNCHANGED tails

\* add_bytes with a pointer: two bytes now, the data in finalise.
AddPointer ==
    /\ Added /\ Head(todo).kind = "pointer"
    /\ Advance(AddBytes(buf, Here, 2), 2)
    /\ tails' = Append(tails, [at |-> Here, size |-> Head(todo).size])
    /\ UNCHANGED empties

\* An addition that is written behind the block.  What the process does after
\* that is not defined, and the behaviour ends.
Overrun ==
    /\ pc # "overrun" /\ todo # << >> /\ ~AdditionFits(Head(todo))
    /\ pc' = "overrun"
    /\ UNCHANGED <<late, buf, building, cut, stream>>

----------------------------------------------------------------------------
\* finalise.

\* The length of a token, in a word, does not count the three bytes up to it.
\* Slip: it counts itself.
Told_Itself(c) == IF c.length = NoLength THEN NoLength
                  ELSE (c.pos - 1) % WordLimit

Told(c) == IF c.length = NoLength THEN NoLength ELSE (c.pos - 3) % WordLimit

\* The child buffer is finalised and the parent moves behind it.
EndToken ==
    /\ pc = "tokens" /\ child.open /\ todo = << >> /\ RowDone
    /\ buf' = [IF child.length = NoLength THEN buf
               ELSE Store(buf, buf.pos + child.length, 2)
               EXCEPT !.pos = @ + child.pos]
    /\ tokens' = Append(tokens, [start |-> buf.pos, size |-> child.pos,
                                 told |-> Told(child)])
    /\ child' = NoChild
    /\ cols' = NoColumns /\ row' = << >> /\ filled' = 0 /\ rows' = 0
    /\ UNCHANGED <<late, pc, todo, tails, last, empties, cut, stream>>

\* Data for a pointer; they are short enough for any block.
PutTail ==
    /\ pc = "prelogin" /\ todo = << >> /\ tails # << >>
    /\ LET t == Head(tails)
           roomy == MakeRoom(buf, buf.pos, t.size)
       IN buf' = [Store(Store(roomy, t.at, 2), buf.pos, t.size)
                  EXCEPT !.pos = @ + t.size]
    /\ tails' = Tail(tails)
    /\ UNCHANGED <<late, pc, child, todo, cols, row, filled, rows, tokens, last,
                   empties, cut, stream>>

\* The response is complete; a list of tokens ends with a DONE (TokenStream).
Finish ==
    /\ \/ pc = "prelogin" /\ tails = << >>
       \/ pc = "tokens" /\ ~child.open /\ last = "done"
    /\ todo = << >>
    /\ pc' = "cut"
    /\ UNCHANGED <<late, buf, building, cut, stream>>

----------------------------------------------------------------------------
\* The loop of writepacket.  What send and write return is not looked at.

Remaining == buf.pos - cut

\* Slips: a packet that is just full is not the last; every packet is full.
WritePacket_Full ==
    /\ pc = "cut" /\ Remaining > 0
    /\ LET full == Remaining >= PacketBody
           size == IF full THEN PacketBody ELSE Remaining
       IN /\ stream' = Append(stream, [first |-> cut, size |-> size, eom |-> ~full])
          /\ cut' = cut + size
    /\ UNCHANGED <<late, pc, buf, building>>

WritePacket_Padded ==
    /\ pc = "cut" /\ Remaining > 0
    /\ stream' = Append(stream, [first |-> cut, size |-> PacketBody,
                                 eom |-> Remaining <= PacketBody])
    /\ cut' = cut + PacketBody
    /\ UNCHANGED <<late, pc, buf, building>>

WritePacket ==
    /\ pc = "cut" /\ Remaining > 0
    /\ LET full == Remaining > PacketBody
           size == IF full THEN PacketBody ELSE Remaining
       IN /\ stream' = Append(stream, [first |-> cut, size |-> size, eom |-> ~full])
          /\ cut' = cut + size
    /\ UNCHANGED <<late, pc, buf, building>>

Return ==
    /\ pc = "cut" /\ Remaining = 0
    /\ pc' = "idle"
    /\ UNCHANGED <<late, buf, building, cut, stream>>

----------------------------------------------------------------------------
Token == \/ BeginMessage \/ BeginLoginAck \/ BeginDatabase \/ BeginCollation
         \/ BeginDone \/ BeginResults \/ Column \/ Row \/ NextCell

Addition == Add \/ AddLength \/ AddCounted \/ AddPointer \/ Overrun

Next == \/ StartPrelogin \/ StartTokens \/ Token \/ Addition
        \/ EndToken \/ PutTail \/ Finish \/ WritePacket \/ Return

Spec == Init /\ [][Next]_vars
----------------------------------------------------------------------------
(* Properties *)

Bytes  == [kind : {"bytes"}, size : Nat, value : Nat]
Counts == {f \in [kind : {"text"}, wide : {1, 2}, bytes : Nat, chars : Nat] :
              f.chars <= f.bytes}
Pointers == [kind : {"pointer"}, size : 0..InitialSize]

Fields == Bytes \cup Counts \cup Pointers \cup {LengthWord}

\* Every variable keeps its type.
TypeOK ==
    /\ late \in BOOLEAN
    /\ pc \in {"idle", "prelogin", "tokens", "cut", "overrun"}
    /\ buf \in [size : Nat, pos : Nat, held : SUBSET Nat]
    /\ child \in [open : BOOLEAN, pos : Nat, length : Nat \cup {NoLength}]
    /\ todo \in Seq(Fields)
    /\ tails \in Seq([at : Nat, size : 0..InitialSize])
    /\ cols \in Seq(Columns) /\ row \in Seq(Bytes)
    /\ filled \in 0..Len(cols) /\ rows \in 0..MaxRows
    /\ tokens \in Seq([start : Nat, size : Nat, told : Nat \cup {NoLength}])
    /\ last \in {"none", "message", "loginack", "envchange", "done", "results"}
    /\ empties \subseteq Nat
    /\ cut \in 0..buf.pos
    /\ stream \in Seq([first : Nat, size : Nat, eom : BOOLEAN])

\* However often the block is replaced while a token is under construction,
\* every byte of the response holds what was put there, but for the second
\* byte of the count of an empty message, which make_room is not asked for.
Whole == \A p \in 0..(Here - 1) : p \in buf.held \/ p \in empties

\* A client that goes by the lengths of tokens comes from each to the next
\* and to the end, unless a token is longer than its length can say.
Navigable ==
    /\ \A i \in 1..Len(tokens) :
          /\ tokens[i].start = IF i = 1 THEN 0
                               ELSE tokens[i - 1].start + tokens[i - 1].size
          /\ tokens[i].told # NoLength /\ tokens[i].size < WordLimit =>
                tokens[i].told + 3 = tokens[i].size
    /\ pc = "cut" /\ tokens # << >> =>
          tokens[Len(tokens)].start + tokens[Len(tokens)].size = buf.pos

\* A client that goes by the column descriptions reads the cells of a row to
\* the last and finds each where it ends the one before.  The code is wrong for
\* four kinds of columns and values: a column of a type that is not sent, an
\* empty value in chunks, a value longer than its word can say, and a column
\* announced to come in chunks that does not.
RowsReadable ==
    \/ \E k \in 1..filled : \/ cols[k].type \in Unsent
                            \/ Misannounced(late, cols[k])
    \/ EmptyInChunks(row) \/ LongInWord(row)
    \/ Readable(late, cols, row, filled)

\* The same without the last exception: a column that is announced with a
\* length of 0xFFFF comes in chunks, as docs/versions says of varchar(max).
MaxReadable ==
    \/ \E k \in 1..filled : cols[k].type \in Unsent
    \/ EmptyInChunks(row) \/ LongInWord(row)
    \/ Readable(late, cols, row, filled)

\* make_room makes room enough, wherever in a token it is asked, but for an
\* addition that is longer than the block itself.
OverrunOnlyByLong ==
    [][pc # "overrun" /\ pc' = "overrun" => Extent(Head(todo)) > buf.size]_vars

\* The packets cover the response, each byte once and in order; all are full
\* but the last, and the last alone has eom_flag.
PacketsTile ==
    \A i \in 1..Len(stream) :
        /\ stream[i].first = (i - 1) * PacketBody
        /\ stream[i].size \in 1..PacketBody
        /\ stream[i].eom <=> stream[i].first + stream[i].size = buf.pos
        /\ pc = "idle" /\ i = Len(stream) => stream[i].eom
=============================================================================
