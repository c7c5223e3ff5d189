----------------------- MODULE ResponseWriterProofs -----------------------
(***************************************************************************)
(* Proofs about ResponseWriter: the response that is sent is whole, its    *)
(* tokens can be followed by their lengths, and the packets cover it.      *)
(***************************************************************************)
EXTENDS ResponseWriter, TLAPS

Buffers == [size : Nat, pos : Nat, held : SUBSET Nat]

\* Everything before `at' holds what was put there, but for the positions in
\* `e'.  An addition may have ended one byte behind the block, and that byte
\* is one of them.
Fit(b, at, e) ==
    /\ at <= b.size + 1
    /\ at = b.size + 1 => b.size \in e
    /\ \A p \in 0..(at - 1) : p \in b.held \/ p \in e

----------------------------------------------------------------------------
(* The operators of DynBuffer. *)

\* Nothing is lost when room is made, be it enough or not.
LEMMA MakeRoomKeeps ==
    ASSUME NEW b \in Buffers, NEW at \in Nat, NEW n \in Nat, NEW e,
           Fit(b, at, e), b.size >= 1
    PROVE  /\ MakeRoom(b, at, n) \in Buffers
           /\ MakeRoom(b, at, n).pos = b.pos
           /\ MakeRoom(b, at, n).size >= b.size
           /\ Fit(MakeRoom(b, at, n), at, e)
<1>1. CASE at + n <= b.size
  BY <1>1 DEF MakeRoom, Buffers
<1>2. CASE at + n > b.size
  <2>1. MakeRoom(b, at, n) = Grown(b)
    BY <1>2 DEF MakeRoom, Buffers
  <2>2. /\ Grown(b) \in Buffers /\ Grown(b).pos = b.pos
        /\ Grown(b).size = 2 * b.size
        /\ Grown(b).held = {p \in b.held : p < b.size}
    BY DEF Grown, Buffers
  <2>3. at <= 2 * b.size
    BY DEF Fit, Buffers
  <2>4. ASSUME NEW p \in 0..(at - 1), p \notin e
        PROVE  p \in Grown(b).held
    <3>1. p \in b.held /\ p <= b.size
      BY <2>4 DEF Fit, Buffers
    <3>2. p # b.size
      BY <2>4 DEF Fit, Buffers
    <3> QED BY <3>1, <3>2, <2>2 DEF Buffers
  <2>5. Fit(Grown(b), at, e)
    BY <2>2, <2>3, <2>4 DEF Fit, Buffers
  <2> QED BY <2>1, <2>2, <2>5 DEF Buffers
<1> QED BY <1>1, <1>2 DEF Buffers

\* One doubling makes room for what is no longer than the block.
LEMMA MakeRoomFits ==
    ASSUME NEW b \in Buffers, NEW at \in Nat, NEW n \in Nat,
           \/ at <= b.size /\ n <= b.size
           \/ at <= b.size + 1 /\ n < b.size
    PROVE  Fits(b, at, n)
BY DEF Fits, MakeRoom, Grown, Buffers

\* Bytes stored within the block hold, as do those before them.
LEMMA StoreHolds ==
    ASSUME NEW b \in Buffers, NEW at \in Nat, NEW n \in Nat, NEW e,
           at + n <= b.size, Fit(b, at, e)
    PROVE  /\ Store(b, at, n) \in Buffers
           /\ Store(b, at, n).pos = b.pos /\ Store(b, at, n).size = b.size
           /\ Fit(Store(b, at, n), at + n, e)
<1>1. /\ Store(b, at, n) \in Buffers
      /\ Store(b, at, n).pos = b.pos /\ Store(b, at, n).size = b.size
      /\ Store(b, at, n).held =
            b.held \cup {p \in at..(at + n - 1) : p < b.size}
  BY DEF Store, Buffers
<1>2. ASSUME NEW p \in 0..(at + n - 1), p \notin e
      PROVE  p \in Store(b, at, n).held
  <2>1. CASE p < at
    BY <2>1, <1>1, <1>2 DEF Fit
  <2>2. CASE p >= at
    BY <2>2, <1>1 DEF Buffers
  <2> QED BY <2>1, <2>2
<1> QED BY <1>1, <1>2 DEF Fit, Buffers

\* Storing over positions that came before takes nothing away, and fills them.
LEMMA StoreFills ==
    ASSUME NEW b \in Buffers, NEW at \in Nat, NEW n \in Nat, NEW to \in Nat,
           NEW e, NEW f, at + n <= b.size, Fit(b, to, e),
           b.size \in e => b.size \in f,
           \A p \in Nat : p \in e => p \in f \/ p \in at..(at + n - 1)
    PROVE  /\ Store(b, at, n) \in Buffers
           /\ Store(b, at, n).pos = b.pos /\ Store(b, at, n).size = b.size
           /\ Fit(Store(b, at, n), to, f)
<1>1. /\ Store(b, at, n) \in Buffers
      /\ Store(b, at, n).pos = b.pos /\ Store(b, at, n).size = b.size
      /\ Store(b, at, n).held =
            b.held \cup {p \in at..(at + n - 1) : p < b.size}
  BY DEF Store, Buffers
<1>2. ASSUME NEW p \in 0..(to - 1), p \notin f
      PROVE  p \in Store(b, at, n).held
  <2>1. CASE p \in e
    BY <2>1, <1>1, <1>2 DEF Buffers
  <2>2. CASE p \notin e
    BY <2>2, <1>1 DEF Fit
  <2> QED BY <2>1, <2>2
<1> QED BY <1>1, <1>2 DEF Fit, Buffers

\* Bytes that make_room was asked for are kept, and all before them.
LEMMA AddBytesFits ==
    ASSUME NEW b \in Buffers, NEW at \in Nat, NEW n \in Nat, NEW e,
           Fit(b, at, e), b.size >= 1, Fits(b, at, n)
    PROVE  /\ AddBytes(b, at, n) \in Buffers
           /\ AddBytes(b, at, n).pos = b.pos
           /\ AddBytes(b, at, n).size >= b.size
           /\ AddBytes(b, at, n).size >= at + n
           /\ Fit(AddBytes(b, at, n), at + n, e)
<1> DEFINE roomy == MakeRoom(b, at, n)
<1>1. /\ roomy \in Buffers /\ roomy.pos = b.pos
      /\ roomy.size >= b.size /\ roomy.size >= at + n /\ Fit(roomy, at, e)
  BY MakeRoomKeeps DEF Fits, Buffers
<1> HIDE DEF roomy
<1>2. AddBytes(b, at, n) = Store(roomy, at, n)
  BY DEF AddBytes, roomy
<1> QED BY <1>1, <1>2, StoreHolds

\* A text leaves the parent's count alone and never shrinks the block.
LEMMA AddTextMoves ==
    ASSUME NEW b \in Buffers, NEW at \in Nat, NEW wide \in Nat,
           NEW bytes \in Nat, NEW chars \in Nat
    PROVE  LET after == AddText(b, at, wide, bytes, chars)
           IN after \in Buffers /\ after.pos = b.pos /\ after.size >= b.size
<1>1. ASSUME NEW c \in Buffers, NEW a \in Nat, NEW n \in Nat
      PROVE  /\ MakeRoom(c, a, n) \in Buffers /\ MakeRoom(c, a, n).pos = c.pos
             /\ MakeRoom(c, a, n).size >= c.size
  BY DEF MakeRoom, Grown, Buffers
<1>2. ASSUME NEW c \in Buffers, NEW a \in Nat, NEW n \in Nat
      PROVE  /\ Store(c, a, n) \in Buffers /\ Store(c, a, n).pos = c.pos
             /\ Store(c, a, n).size = c.size
  BY DEF Store, Buffers
<1> DEFINE counted == MakeRoom(b, at, 1)
           roomy   == MakeRoom(counted, at + wide, 2 * bytes)
           filling == Store(roomy, at + wide, 2 * chars)
<1>3. /\ counted \in Buffers /\ counted.pos = b.pos /\ counted.size >= b.size
      /\ roomy \in Buffers /\ roomy.pos = b.pos /\ roomy.size >= b.size
      /\ filling \in Buffers /\ filling.pos = b.pos /\ filling.size >= b.size
  <2>1. counted \in Buffers /\ counted.pos = b.pos /\ counted.size >= b.size
    BY <1>1
  <2> HIDE DEF counted
  <2>2. /\ roomy \in Buffers /\ roomy.pos = b.pos /\ roomy.size >= counted.size
        /\ at + wide \in Nat /\ 2 * bytes \in Nat /\ 2 * chars \in Nat
    BY <1>1, <2>1
  <2> HIDE DEF roomy
  <2>3. filling \in Buffers /\ filling.pos = b.pos /\ filling.size = roomy.size
    BY <1>2, <2>2
  <2> HIDE DEF filling
  <2>4. b.size \in Nat /\ counted.size \in Nat /\ roomy.size \in Nat
    BY <2>1, <2>2 DEF Buffers
  <2>5. roomy.size >= b.size
    BY <2>1, <2>2, <2>4
  <2> QED BY <2>1, <2>2, <2>3, <2>5
<1>4. AddText(b, at, wide, bytes, chars) =
         Store(IF bytes = 0 THEN counted ELSE filling, at, wide)
  BY DEF AddText
<1> HIDE DEF counted, roomy, filling
<1>5. ASSUME NEW c \in Buffers, c.pos = b.pos, c.size >= b.size
      PROVE  LET after == Store(c, at, wide)
             IN after \in Buffers /\ after.pos = b.pos /\ after.size >= b.size
  <2>1. /\ Store(c, at, wide) \in Buffers /\ Store(c, at, wide).pos = c.pos
        /\ Store(c, at, wide).size = c.size
    BY <1>2
  <2> QED BY <1>5, <2>1
<1>6. CASE bytes = 0
  BY <1>3, <1>4, <1>5, <1>6
<1>7. CASE bytes # 0
  BY <1>3, <1>4, <1>5, <1>7
<1> QED BY <1>6, <1>7

\* A text: only the second byte of a wide count may fail to hold, and only
\* when the text is empty.
LEMMA AddTextFits ==
    ASSUME NEW b \in Buffers, NEW at \in Nat,
           NEW wide \in Nat, wide \in {1, 2},
           NEW bytes \in Nat, NEW chars \in Nat, NEW e \in SUBSET Nat,
           b.size >= 8, chars <= bytes, TextFits(b, at, wide, bytes, chars),
           Fit(b, at, e), wide = 1 \/ at <= b.size,
           NEW to \in Nat, to = at + wide + 2 * chars,
           NEW g, g = IF wide = 2 /\ bytes = 0 THEN e \cup {at + 1} ELSE e
    PROVE  LET after == AddText(b, at, wide, bytes, chars)
           IN /\ Fit(after, to, g)
              /\ ~(wide = 2 /\ bytes = 0) => to <= after.size
<1> DEFINE counted == MakeRoom(b, at, 1)
           gap     == at..(at + wide - 1)
<1>1. /\ counted \in Buffers /\ counted.pos = b.pos
      /\ counted.size >= b.size /\ counted.size >= at + 1
      /\ Fit(counted, at, e)
  <2>1. Fits(b, at, 1)
    BY MakeRoomFits DEF Fit, Buffers
  <2> QED BY <2>1, MakeRoomKeeps DEF Fits, Buffers
<1> HIDE DEF counted
<1>2. Fit(counted, at + wide, e \cup gap)
  BY <1>1 DEF Fit, Buffers
<1>3. CASE bytes = 0
  <2>1. chars = 0 /\ AddText(b, at, wide, bytes, chars) = Store(counted, at, wide)
    BY <1>3 DEF AddText, counted
  <2>2. CASE wide = 1
    BY <1>1, <2>1, <2>2, StoreHolds
  <2>3. CASE wide = 2
    <3> DEFINE f == e \cup {at + 1}
    <3>1. /\ Store(counted, at, 2) \in Buffers
          /\ Store(counted, at, 2).pos = b.pos
          /\ Store(counted, at, 2).size = counted.size
          /\ Store(counted, at, 2).held =
                counted.held \cup {p \in at..(at + 1) : p < counted.size}
      BY <1>1 DEF Store, Buffers
    <3>2. Fit(Store(counted, at, 2), at + 2, f)
      BY <1>1, <3>1 DEF Fit, Buffers
    <3> QED BY <1>1, <1>3, <2>1, <2>3, <3>1, <3>2 DEF Buffers
  <2> QED BY <2>2, <2>3
<1>4. CASE bytes > 0
  <2> DEFINE roomy   == MakeRoom(counted, at + wide, 2 * bytes)
             written == Store(roomy, at + wide, 2 * chars)
  <2>1. /\ roomy \in Buffers /\ roomy.pos = b.pos
        /\ roomy.size >= counted.size
        /\ roomy.size >= at + wide + 2 * chars
        /\ Fit(roomy, at + wide, e \cup gap)
    <3>1. 2 * bytes \in Nat /\ at + wide \in Nat /\ counted.size >= 1
      BY <1>1 DEF Buffers
    <3>2. /\ roomy \in Buffers /\ roomy.pos = counted.pos
          /\ roomy.size >= counted.size
          /\ Fit(roomy, at + wide, e \cup gap)
      BY <1>1, <1>2, <3>1, MakeRoomKeeps
    <3>3. at + wide + 2 * chars <= roomy.size
      BY <1>4 DEF TextFits, counted
    <3> HIDE DEF roomy
    <3> QED BY <1>1, <3>2, <3>3 DEF Buffers
  <2> HIDE DEF roomy
  <2>2. /\ written \in Buffers /\ written.pos = b.pos
        /\ written.size = roomy.size
        /\ Fit(written, at + wide + 2 * chars, e \cup gap)
    <3>1. /\ 2 * chars \in Nat /\ at + wide \in Nat
          /\ at + wide + 2 * chars <= roomy.size
      BY <2>1 DEF Buffers
    <3> QED BY <2>1, <3>1, StoreHolds
  <2>3. AddText(b, at, wide, bytes, chars) = Store(written, at, wide)
    BY <1>4 DEF AddText, counted, roomy
  <2> HIDE DEF written
  <2>4. /\ at + wide <= written.size /\ at + wide + 2 * chars \in Nat
        /\ at + wide + 2 * chars <= written.size
        /\ wide \in Nat /\ written.size \in Nat
    BY <2>1, <2>2 DEF Buffers
  <2>5. \A p \in Nat : p \in e \cup gap => p \in e \/ p \in at..(at + wide - 1)
    OBVIOUS
  <2>6. written.size \in e \cup gap => written.size \in e
    BY <2>4
  <2>7. /\ Store(written, at, wide) \in Buffers
        /\ Store(written, at, wide).pos = written.pos
        /\ Store(written, at, wide).size = written.size
        /\ Fit(Store(written, at, wide), at + wide + 2 * chars, e)
    BY <2>2, <2>4, <2>5, <2>6, StoreFills, ZenonT(30)
  <2> QED BY <1>1, <1>4, <2>1, <2>2, <2>3, <2>4, <2>7 DEF Buffers
<1> QED BY <1>3, <1>4

----------------------------------------------------------------------------
(* The inductive invariant. *)

\* The block holds what was added, and an addition that ended behind it is
\* followed by one that makes room.
Built ==
    /\ Fit(buf, Here, empties) /\ buf.size >= InitialSize
    /\ Here = buf.size + 1 => todo # << >> /\ Head(todo) = Short(NoText)

\* What the additions q to come are like in child buffer c at place w.
QueueOK(q, c, w) ==
    /\ \A i \in 1..Len(q) :
          /\ q[i].kind = "text" /\ q[i].wide = 2 =>
                i < Len(q) /\ q[i + 1] = Short(NoText)
          /\ q[i].kind = "length" => c.open /\ c.pos + i >= 2
          /\ q[i].kind = "pointer" => w = "prelogin"
    /\ c.open /\ c.pos = 0 => q # << >> /\ q[1] = Data(1)

Queue == QueueOK(todo, child, pc)

\* The places of pointers lie before `pos'.
Placed(q, pos) == \A i \in 1..Len(q) : q[i].at + 2 <= pos

Places ==
    /\ ~child.open => /\ child = NoChild /\ filled = 0
                      /\ todo # << >> => pc = "prelogin"
    /\ child.open => pc = "tokens"
    /\ child.length # NoLength =>
          child.length >= 1 /\ child.length + 2 <= child.pos
    /\ Placed(tails, buf.pos)

\* The tokens lie one behind the other.
Listed ==
    /\ Navigable
    /\ pc = "prelogin" => tokens = << >>
    /\ pc = "tokens" =>
          buf.pos = IF tokens = << >> THEN 0
                    ELSE tokens[Len(tokens)].start + tokens[Len(tokens)].size

\* As many bytes have been cut off as the packets hold.
Sent ==
    /\ PacketsTile
    /\ pc \in {"prelogin", "tokens"} => stream = << >>
    /\ pc = "idle" => cut = buf.pos
    /\ cut = IF stream = << >> THEN 0
             ELSE stream[Len(stream)].first + stream[Len(stream)].size
    /\ cut < buf.pos => cut = Len(stream) * PacketBody

IInv == TypeOK /\ Built /\ Queue /\ Places /\ Listed /\ Sent

----------------------------------------------------------------------------
(* The queues of additions. *)

USE DEF NoLength

\* The fields that tokens are made of have their types.
LEMMA DataType == \A n \in 0..8 : Data(n) \in Bytes
BY WriterAssumption DEF Data, Field, Bytes

\* The texts of tokens are counts.
LEMMA TextType ==
    /\ Short(NoText) \in Counts
    /\ \A t \in Texts : Short(t) \in Counts /\ Long(t) \in Counts
BY WriterAssumption DEF Short, Long, NoText, Text, Counts

\* A field is of one kind.
LEMMA Kinds ==
    ASSUME NEW f \in Fields
    PROVE  /\ f.kind = "bytes" => f \in Bytes
           /\ f.kind = "text" => f \in Counts
           /\ f.kind = "pointer" => f \in Pointers
           /\ f.kind = "length" => f = LengthWord
BY DEF Fields, Bytes, Counts, Pointers, LengthWord

\* The kinds of fields differ.
LEMMA KindOfData ==
    /\ \A f \in Bytes : f.kind = "bytes"
    /\ \A n : Data(n).kind = "bytes"
    /\ LengthWord.kind = "length"
    /\ \A n : Pointer(n).kind = "pointer"
    /\ \A t : /\ Short(t).kind = "text" /\ Short(t).wide = 1
              /\ Long(t).kind = "text" /\ Long(t).wide = 2
BY DEF Bytes, Data, Field, LengthWord, Pointer, Short, Long, Text

\* Queues of plain bytes.
LEMMA BytesQueue ==
    ASSUME NEW q \in Seq(Bytes), NEW c, NEW w, c.open => c.pos # 0
    PROVE  q \in Seq(Fields) /\ QueueOK(q, c, w)
<1>1. \A i \in 1..Len(q) : q[i] \in Bytes
  OBVIOUS
<1>2. \A i \in 1..Len(q) : q[i].kind = "bytes"
  BY <1>1, KindOfData
<1>3. q \in Seq(Fields)
  BY DEF Fields
<1> QED BY <1>2, <1>3 DEF QueueOK

\* The queue of a new token.
LEMMA TokenQueue ==
    ASSUME NEW q \in Seq(Fields), q # << >>, q[1] = Data(1),
           \A i \in 1..Len(q) :
              /\ q[i].kind = "text" /\ q[i].wide = 2 =>
                    i < Len(q) /\ q[i + 1] = Short(NoText)
              /\ q[i].kind = "length" => i = 2
              /\ q[i].kind # "pointer"
    PROVE  QueueOK(q, NewChild, "tokens")
<1>1. NewChild.open /\ NewChild.pos = 0
  BY DEF NewChild
<1> QED BY <1>1 DEF QueueOK

\* INFO and ERROR: after the long text a short one asks for room.
LEMMA MessageQueue ==
    ASSUME NEW t \in Texts
    PROVE  /\ MessageToken(t) \in Seq(Fields)
           /\ QueueOK(MessageToken(t), NewChild, "tokens")
<1> DEFINE q == MessageToken(t)
<1>1. /\ Len(q) = 9 /\ q[1] = Data(1) /\ q[2] = LengthWord /\ q[3] = Data(4)
      /\ q[4] = Data(1) /\ q[5] = Data(1) /\ q[6] = Long(t)
      /\ q[7] = Short(NoText) /\ q[8] = Short(NoText)
      /\ q[9] \in {Data(2), Data(4)}
  BY DEF MessageToken
<1>2. q \in Seq(Fields)
  BY DataType, TextType DEF MessageToken, Fields
<1> HIDE DEF q
<1>3. ASSUME NEW i \in 1..Len(q)
      PROVE  /\ q[i].kind = "text" /\ q[i].wide = 2 =>
                   i < Len(q) /\ q[i + 1] = Short(NoText)
             /\ q[i].kind = "length" => i = 2
             /\ q[i].kind # "pointer"
  <2>1. i \in {1, 2, 3, 4, 5, 6, 7, 8, 9}
    BY <1>1
  <2> QED BY <2>1, <1>1, KindOfData
<1>4. q # << >>
  BY <1>1
<1>5. QueueOK(q, NewChild, "tokens")
  BY <1>1, <1>2, <1>3, <1>4, TokenQueue
<1> QED BY <1>2, <1>5 DEF q

\* LOGINACK.
LEMMA LoginAckQueue ==
    ASSUME NEW t \in Texts
    PROVE  /\ LoginAckToken(t) \in Seq(Fields)
           /\ QueueOK(LoginAckToken(t), NewChild, "tokens")
<1> DEFINE q == LoginAckToken(t)
<1>1. /\ Len(q) = 9 /\ q[1] = Data(1) /\ q[2] = LengthWord /\ q[3] = Data(1)
      /\ q[4] = Data(4) /\ q[5] = Short(t) /\ q[6] = Data(1)
      /\ q[7] = Data(1) /\ q[8] = Data(1) /\ q[9] = Data(1)
  BY DEF LoginAckToken
<1>2. q \in Seq(Fields)
  BY DataType, TextType DEF LoginAckToken, Fields
<1> HIDE DEF q
<1>3. ASSUME NEW i \in 1..Len(q)
      PROVE  /\ q[i].kind = "text" /\ q[i].wide = 2 =>
                   i < Len(q) /\ q[i + 1] = Short(NoText)
             /\ q[i].kind = "length" => i = 2
             /\ q[i].kind # "pointer"
  <2>1. i \in {1, 2, 3, 4, 5, 6, 7, 8, 9}
    BY <1>1
  <2> QED BY <2>1, <1>1, KindOfData
<1>4. q # << >>
  BY <1>1
<1>5. QueueOK(q, NewChild, "tokens")
  BY <1>1, <1>2, <1>3, <1>4, TokenQueue
<1> QED BY <1>2, <1>5 DEF q

\* ENVCHANGE of the database.
LEMMA DatabaseQueue ==
    ASSUME NEW new \in Texts, NEW old \in Texts
    PROVE  /\ DatabaseToken(new, old) \in Seq(Fields)
           /\ QueueOK(DatabaseToken(new, old), NewChild, "tokens")
<1> DEFINE q == DatabaseToken(new, old)
<1>1. /\ Len(q) = 5 /\ q[1] = Data(1) /\ q[2] = LengthWord /\ q[3] = Data(1)
      /\ q[4] = Short(new) /\ q[5] = Short(old)
  BY DEF DatabaseToken
<1>2. q \in Seq(Fields)
  BY DataType, TextType DEF DatabaseToken, Fields
<1> HIDE DEF q
<1>3. ASSUME NEW i \in 1..Len(q)
      PROVE  /\ q[i].kind = "text" /\ q[i].wide = 2 =>
                   i < Len(q) /\ q[i + 1] = Short(NoText)
             /\ q[i].kind = "length" => i = 2
             /\ q[i].kind # "pointer"
  <2>1. i \in {1, 2, 3, 4, 5}
    BY <1>1
  <2> QED BY <2>1, <1>1, KindOfData
<1>4. q # << >>
  BY <1>1
<1>5. QueueOK(q, NewChild, "tokens")
  BY <1>1, <1>2, <1>3, <1>4, TokenQueue
<1> QED BY <1>2, <1>5 DEF q

\* ENVCHANGE of the collation.
LEMMA CollationQueue ==
    /\ CollationToken \in Seq(Fields)
    /\ QueueOK(CollationToken, NewChild, "tokens")
<1> DEFINE q == CollationToken
<1>1. /\ Len(q) = 8 /\ q[1] = Data(1) /\ q[2] = LengthWord /\ q[3] = Data(1)
      /\ q[4] = Data(1) /\ q[5] = Data(2) /\ q[6] = Data(2)
      /\ q[7] = Data(1) /\ q[8] = Data(1)
  BY DEF CollationToken
<1>2. q \in Seq(Fields)
  BY DataType DEF CollationToken, Fields
<1> HIDE DEF q
<1>3. ASSUME NEW i \in 1..Len(q)
      PROVE  /\ q[i].kind = "text" /\ q[i].wide = 2 =>
                   i < Len(q) /\ q[i + 1] = Short(NoText)
             /\ q[i].kind = "length" => i = 2
             /\ q[i].kind # "pointer"
  <2>1. i \in {1, 2, 3, 4, 5, 6, 7, 8}
    BY <1>1
  <2> QED BY <2>1, <1>1, KindOfData
<1>4. q # << >>
  BY <1>1
<1>5. QueueOK(q, NewChild, "tokens")
  BY <1>1, <1>2, <1>3, <1>4, TokenQueue
<1> QED BY <1>2, <1>5 DEF q

\* DONE.
LEMMA DoneQueue ==
    /\ DoneToken \in Seq(Fields)
    /\ QueueOK(DoneToken, NewChild, "tokens")
<1>1. /\ DoneToken \in Seq(Bytes) /\ DoneToken \in Seq(Fields)
      /\ DoneToken # << >> /\ DoneToken[1] = Data(1)
  <2>1. CASE late
    BY <2>1, DataType DEF DoneToken, Fields
  <2>2. CASE ~late
    BY <2>2, DataType DEF DoneToken, Fields
  <2> QED BY <2>1, <2>2
<1>2. \A i \in 1..Len(DoneToken) : DoneToken[i].kind = "bytes"
  BY <1>1, KindOfData
<1> QED BY <1>1, <1>2, TokenQueue

\* The begin of a result set.
LEMMA ResultsQueue ==
    /\ <<Data(1), Data(2)>> \in Seq(Fields)
    /\ QueueOK(<<Data(1), Data(2)>>, NewChild, "tokens")
<1> DEFINE q == <<Data(1), Data(2)>>
<1>1. q \in Seq(Bytes) /\ q # << >> /\ q[1] = Data(1)
  BY DataType
<1>2. q \in Seq(Fields)
  BY DataType DEF Fields
<1> HIDE DEF q
<1>3. \A i \in 1..Len(q) : q[i].kind = "bytes"
  BY <1>1, KindOfData
<1>4. QueueOK(q, NewChild, "tokens")
  BY <1>1, <1>2, <1>3, TokenQueue
<1> QED BY <1>2, <1>4 DEF q

\* The options of a prelogin response.
LEMMA PreloginQueue ==
    /\ Prelogin \in Seq(Fields)
    /\ QueueOK(Prelogin, NoChild, "prelogin")
<1>1. /\ Pointer(0) \in Pointers /\ Pointer(1) \in Pointers
      /\ Pointer(6) \in Pointers
  BY WriterAssumption DEF Pointer, Pointers
<1>2. Prelogin \in Seq(Bytes \cup Pointers)
  BY <1>1, DataType DEF Prelogin
<1>3. Prelogin \in Seq(Fields)
  BY <1>1, DataType DEF Prelogin, Fields
<1>4. \A i \in 1..Len(Prelogin) : Prelogin[i] \in Bytes \cup Pointers
  BY <1>2
<1>5. \A i \in 1..Len(Prelogin) : Prelogin[i].kind \in {"bytes", "pointer"}
  BY <1>4, KindOfData DEF Pointers
<1>6. ~NoChild.open
  BY DEF NoChild
<1> QED BY <1>3, <1>5, <1>6 DEF QueueOK

\* The types of fixed size.
LEMMA FixedTypes ==
    /\ DOMAIN FixedSize = {"bit", "tinyint", "smallint", "int", "bigint",
                           "real", "float", "datetime"}
    /\ \A t \in DOMAIN FixedSize : FixedSize[t] \in 0..8
<1>1. DOMAIN FixedSize = {"bit", "tinyint", "smallint", "int", "bigint",
                          "real", "float", "datetime"}
  BY DEF FixedSize
<1>2. /\ FixedSize["bit"] = 1 /\ FixedSize["tinyint"] = 1
      /\ FixedSize["smallint"] = 2 /\ FixedSize["int"] = 4
      /\ FixedSize["bigint"] = 8 /\ FixedSize["real"] = 4
      /\ FixedSize["float"] = 8 /\ FixedSize["datetime"] = 8
  BY DEF FixedSize
<1> QED BY <1>1, <1>2

\* What cells are made of.
LEMMA CellFields ==
    ASSUME NEW n \in Nat, NEW w \in {1, 2, 4}
    PROVE  /\ Data(n) \in Bytes /\ Data(n).size = n
           /\ \A v \in Nat : /\ Field(w, v) \in Bytes
                             /\ Field(w, v).size = w /\ Field(w, v).value = v
BY DEF Data, Field, Bytes

\* The words for NULL and the lengths that columns are announced with.
LEMMA Lengths ==
    /\ NullWord \in Nat /\ NullWord > 1 /\ NullWord = WordLimit - 1
    /\ WordLimit \in Nat \ {0} /\ LongNull \in Nat
    /\ Sizes \subseteq Nat /\ LongNull \notin Sizes
    /\ OldLength \in Nat /\ OldLength # NullWord
    /\ \A n \in Nat : n % WordLimit \in Nat
    /\ \A n \in Nat : n < NullWord => n % WordLimit = n
    /\ \A wide \in BOOLEAN, col \in Columns :
          /\ Announced(wide, col) \in Nat
          /\ col.typmod = -1 => Announced(wide, col) = IF wide THEN NullWord
                                                       ELSE OldLength
<1>1. /\ WordLimit \in Nat /\ WordLimit > 2
      /\ NullWord = WordLimit - 1 /\ NullWord \in Nat /\ NullWord > 1
      /\ OldLength \in Nat /\ OldLength # NullWord
  BY WriterAssumption DEF NullWord
<1>2. LongNull \in Nat
  <2>1. WordLimit * WordLimit \in Nat /\ WordLimit * WordLimit >= 1
    BY <1>1
  <2> QED BY <2>1 DEF LongNull
<1>3. Sizes \subseteq Nat /\ LongNull \notin Sizes
  BY <1>2, WriterAssumption
<1>4. \A n \in Int : n % WordLimit \in Nat
  BY <1>1
<1>5. \A n \in Nat : n < NullWord => n % WordLimit = n
  BY <1>1
<1>6. ASSUME NEW wide \in BOOLEAN, NEW col \in Columns
      PROVE  /\ Announced(wide, col) \in Nat
             /\ col.typmod = -1 => Announced(wide, col) = IF wide THEN NullWord
                                                          ELSE OldLength
  <2>1. col.typmod \in Int
    BY DEF Columns
  <2> QED BY <1>1, <1>4, <2>1 DEF Announced
<1> QED BY <1>1, <1>2, <1>3, <1>4, <1>5, <1>6

\* The description of a column.
LEMMA ColumnQueue ==
    ASSUME late \in BOOLEAN, NEW col \in Columns, NEW name \in Texts,
           NEW c, NEW w, c.open => c.pos # 0
    PROVE  /\ Append(Describe(late, col), Short(name)) \in Seq(Fields)
           /\ QueueOK(Append(Describe(late, col), Short(name)), c, w)
<1> DEFINE d == Describe(late, col)
           q == Append(d, Short(name))
<1>1. d \in Seq(Bytes)
  <2>1. Data(IF late THEN 4 ELSE 2) \in Bytes
    BY DataType
  <2>0. Field(2, Announced(late, col)) \in Bytes
    BY Lengths, CellFields
  <2>2. CASE col.type \in {"varchar", "nvarchar", "char"}
    <3>1. d = <<Data(IF late THEN 4 ELSE 2), Data(2), Data(1),
                Field(2, Announced(late, col)), Data(2), Data(2), Data(1)>>
      BY <2>2, FixedTypes DEF Describe
    <3> QED BY <2>0, <2>1, <3>1, DataType
  <2>3. CASE col.type = "varbinary"
    BY <2>0, <2>1, <2>3, DataType DEF Describe, FixedSize
  <2>4. CASE col.type \in DOMAIN FixedSize
    <3>1. d = <<Data(IF late THEN 4 ELSE 2), Data(2), Data(1),
                Field(1, FixedSize[col.type])>>
      BY <2>4 DEF Describe, FixedSize
    <3>2. Field(1, FixedSize[col.type]) \in Bytes
      BY <2>4, FixedTypes, CellFields
    <3> QED BY <2>1, <3>1, <3>2, DataType
  <2>5. CASE col.type = "decimal"
    BY <2>1, <2>5, DataType DEF Describe, FixedSize
  <2>6. CASE col.type = "unknown"
    BY <2>1, <2>6, DataType DEF Describe, FixedSize
  <2>7. col.type \in ColumnTypes
    BY DEF Columns
  <2> QED BY <2>2, <2>3, <2>4, <2>5, <2>6, <2>7
           DEF ColumnTypes, StringTypes, Unsent
<1> HIDE DEF d
<1>2. q \in Seq(Fields) /\ Len(q) = Len(d) + 1
  BY <1>1, TextType DEF Fields
<1>3. \A i \in 1..Len(q) : q[i] \in Bytes \/ q[i] = Short(name)
  BY <1>1
<1>4. ASSUME NEW i \in 1..Len(q)
      PROVE  /\ ~(q[i].kind = "text" /\ q[i].wide = 2)
             /\ q[i].kind # "length" /\ q[i].kind # "pointer"
  BY <1>3, KindOfData
<1>5. QueueOK(q, c, w)
  BY <1>4 DEF QueueOK
<1> QED BY <1>2, <1>5 DEF d

\* The cells of strings, field by field.
LEMMA StringCells ==
    ASSUME NEW wide \in BOOLEAN, NEW col \in Columns, NEW n \in Nat
    PROVE  LET c == StringCell(wide, col, n) IN
           /\ c \in Seq(Bytes)
           /\ Chunked(wide, col) =>
                 /\ c[1] = Field(4, n) /\ c[2] = Field(4, 0) /\ c[3] = Field(4, n)
                 /\ n = 0 => Len(c) = 4 /\ c[4] = Field(4, 0)
                 /\ n # 0 => Len(c) = 5 /\ c[4] = Data(n) /\ c[5] = Field(4, 0)
           /\ ~Chunked(wide, col) =>
                 /\ c[1] = Field(2, n % WordLimit)
                 /\ n = 0 => Len(c) = 1
                 /\ n # 0 => Len(c) = 2 /\ c[2] = Data(n)
<1>1. /\ n \in Nat /\ Data(n) \in Bytes
      /\ Field(4, n) \in Bytes /\ Field(4, 0) \in Bytes
      /\ Field(2, n % WordLimit) \in Bytes
  BY CellFields, Lengths
<1>2. CASE n = 0
  BY <1>1, <1>2 DEF StringCell, Value
<1>3. CASE n # 0
  BY <1>1, <1>3 DEF StringCell, Value
<1> QED BY <1>2, <1>3

\* The cell of a column.
LEMMA CellQueue ==
    ASSUME late \in BOOLEAN, NEW col \in Columns, NEW isnull \in BOOLEAN,
           NEW n \in Sizes
    PROVE  Cell(late, col, isnull, n) \in Seq(Bytes)
<1> DEFINE q == Cell(late, col, isnull, n)
<1>1. /\ n \in Nat /\ Data(n) \in Bytes
      /\ \A v \in Nat : Field(1, v) \in Bytes /\ Field(2, v) \in Bytes
                        /\ Field(4, v) \in Bytes
  BY Lengths DEF Data, Field, Bytes
<1>2. CASE col.type \in StringTypes
  <2>1. q = IF isnull THEN StringNull(late, col) ELSE StringCell(late, col, n)
    BY <1>2, FixedTypes DEF Cell, StringTypes, Unsent
  <2>2. StringNull(late, col) \in Seq(Bytes)
    BY <1>1, Lengths DEF StringNull
  <2>3. StringCell(late, col, n) \in Seq(Bytes)
    BY <1>1, StringCells
  <2> QED BY <2>1, <2>2, <2>3
<1>3. CASE col.type \in DOMAIN FixedSize
  <2>1. q = IF isnull THEN <<Field(1, 0)>>
            ELSE <<Field(1, FixedSize[col.type]), Data(FixedSize[col.type])>>
    BY <1>3, FixedTypes DEF Cell, StringTypes, Unsent
  <2>2. FixedSize[col.type] \in 0..8
    BY <1>3, FixedTypes
  <2> QED BY <1>1, <2>1, <2>2, DataType
<1>4. CASE col.type \in Unsent
  BY <1>4, FixedTypes DEF Cell, Unsent, StringTypes
<1>5. col.type \in ColumnTypes
  BY DEF Columns
<1> QED BY <1>2, <1>3, <1>4, <1>5 DEF ColumnTypes

----------------------------------------------------------------------------
(* What a client reads. *)

\* The row that a cell is added to keeps its fields, and the cell's follow.
LEMMA RowGrows ==
    ASSUME NEW r \in Seq(Bytes), NEW c \in Seq(Bytes)
    PROVE  LET s == r \o c IN
           /\ s \in Seq(Bytes) /\ Len(s) = Len(r) + Len(c)
           /\ Len(r) \in Nat /\ Len(c) \in Nat
           /\ \A i \in 1..Len(r) : i \in DOMAIN s /\ s[i] = r[i]
           /\ \A i \in 1..Len(c) : Len(r) + i \in DOMAIN s /\ s[Len(r) + i] = c[i]
OBVIOUS

\* What follows in a row changes nothing of what has been read.
LEMMA ReadsStill ==
    ASSUME NEW wide, NEW col, NEW r \in Seq(Bytes), NEW c \in Seq(Bytes),
           NEW i \in Nat, NEW j \in Nat, ReadsAs(wide, col, r, i, j)
    PROVE  ReadsAs(wide, col, r \o c, i, j)
<1> DEFINE s == r \o c
<1>1. /\ \A k \in DOMAIN r : k \in DOMAIN s /\ s[k] = r[k]
      /\ Len(r) <= Len(s) /\ Len(s) \in Nat /\ Len(r) \in Nat
  BY RowGrows
<1> HIDE DEF s
<1>2. \A k, n : Sized(r, k, n) => Sized(s, k, n) /\ s[k] = r[k]
  BY <1>1 DEF Sized
<1>3. ASSUME NEW length, ReadsFixed(length, r, i, j)
      PROVE  ReadsFixed(length, s, i, j)
  <2>1. Sized(r, i, 1) /\ Sized(s, i, 1) /\ s[i] = r[i]
    BY <1>2, <1>3 DEF ReadsFixed
  <2>2. Sized(r, i + 1, length) => Sized(s, i + 1, length)
    BY <1>2
  <2> QED BY <1>3, <2>1, <2>2 DEF ReadsFixed
<1>4. ReadsLimited(r, i, j) => ReadsLimited(s, i, j)
  <2> SUFFICES ASSUME ReadsLimited(r, i, j) PROVE ReadsLimited(s, i, j)
    OBVIOUS
  <2>1. Sized(r, i, 2) /\ Sized(s, i, 2) /\ s[i] = r[i]
    BY <1>2 DEF ReadsLimited
  <2>2. Sized(r, i + 1, r[i].value) => Sized(s, i + 1, s[i].value)
    BY <1>2, <2>1
  <2> QED BY <2>1, <2>2 DEF ReadsLimited
<1>5. ReadsChunks(r, i + 2, j) => ReadsChunks(s, i + 2, j)
  <2> SUFFICES ASSUME ReadsChunks(r, i + 2, j) PROVE ReadsChunks(s, i + 2, j)
    OBVIOUS
  <2>1. PICK n \in 0..Len(r) :
           /\ \A k \in 0..(n - 1) : LET h == i + 2 + 2 * k IN
                 /\ Sized(r, h, 4) /\ r[h].value # 0
                 /\ Sized(r, h + 1, r[h].value)
           /\ j = i + 2 + 2 * n + 1
           /\ Sized(r, j - 1, 4) /\ r[j - 1].value = 0
    BY DEF ReadsChunks
  <2>2. n \in 0..Len(s)
    BY <1>1
  <2>3. ASSUME NEW k \in 0..(n - 1)
        PROVE  LET h == i + 2 + 2 * k IN
               /\ Sized(s, h, 4) /\ s[h].value # 0
               /\ Sized(s, h + 1, s[h].value)
    BY <1>2, <2>1
  <2>4. Sized(s, j - 1, 4) /\ s[j - 1].value = 0
    BY <1>2, <2>1
  <2> QED BY <2>1, <2>2, <2>3, <2>4 DEF ReadsChunks
<1>6. ReadsUnlimited(r, i, j) => ReadsUnlimited(s, i, j)
  <2> SUFFICES ASSUME ReadsUnlimited(r, i, j) PROVE ReadsUnlimited(s, i, j)
    OBVIOUS
  <2>1. /\ Sized(r, i, 4) /\ Sized(s, i, 4) /\ s[i] = r[i]
        /\ Sized(s, i + 1, 4)
    BY <1>2 DEF ReadsUnlimited
  <2> QED BY <1>5, <2>1 DEF ReadsUnlimited
<1> QED BY <1>3, <1>4, <1>6 DEF ReadsAs, Reads, s

\* The length in the description of a column that is sent.
LEMMA DescribedLength ==
    ASSUME NEW wide, NEW col, col.type \notin Unsent, col.type \in ColumnTypes
    PROVE  Describe(wide, col)[4].value = IF col.type \in StringTypes
                                          THEN Announced(wide, col)
                                          ELSE FixedSize[col.type]
<1> DEFINE user == Data(IF wide THEN 4 ELSE 2)
           word == Field(2, Announced(wide, col))
<1>1. CASE col.type \in {"varchar", "nvarchar"}
  <2>1. Describe(wide, col) =
           <<user, Data(2), Data(1), word, Data(2), Data(2), Data(1)>>
    BY <1>1, FixedTypes DEF Describe
  <2>2. Describe(wide, col)[4] = word
    BY <2>1
  <2> QED BY <1>1, <2>2 DEF Field, StringTypes
<1>2. CASE col.type = "varbinary"
  <2>1. Describe(wide, col) = <<user, Data(2), Data(1), word>>
    BY <1>2, FixedTypes DEF Describe
  <2>2. Describe(wide, col)[4] = word
    BY <2>1
  <2> QED BY <1>2, <2>2 DEF Field, StringTypes
<1>3. CASE col.type \in DOMAIN FixedSize
  <2>1. Describe(wide, col) =
           <<user, Data(2), Data(1), Field(1, FixedSize[col.type])>>
    BY <1>3, FixedTypes DEF Describe
  <2>2. Describe(wide, col)[4] = Field(1, FixedSize[col.type])
    BY <2>1
  <2>3. col.type \notin StringTypes
    BY <1>3, FixedTypes DEF StringTypes
  <2> QED BY <2>2, <2>3 DEF Field
<1> QED BY <1>1, <1>2, <1>3 DEF ColumnTypes, StringTypes

\* A client reads a cell as its column's description says, but an empty value
\* in chunks, a value too long for its word and a column misannounced.
LEMMA ReadsCell ==
    ASSUME NEW wide \in BOOLEAN, NEW col \in Columns, col.type \notin Unsent,
           ~Misannounced(wide, col),
           NEW isnull \in BOOLEAN, NEW n \in Sizes, NEW r \in Seq(Bytes),
           NEW c \in Seq(Bytes), c = Cell(wide, col, isnull, n),
           ~(col.type \in StringTypes /\ Chunked(wide, col) /\ ~isnull /\ n = 0),
           ~(col.type \in StringTypes /\ ~Chunked(wide, col) /\ ~isnull
             /\ n >= NullWord)
    PROVE  ReadsAs(wide, col, r \o c, Len(r) + 1, Len(r) + Len(c) + 1)
<1> DEFINE s == r \o c
           i == Len(r) + 1
<1>1. /\ \A k \in 1..Len(c) : Len(r) + k \in DOMAIN s /\ s[Len(r) + k] = c[k]
      /\ Len(s) = Len(r) + Len(c) /\ Len(r) \in Nat /\ Len(c) \in Nat
  BY RowGrows
<1> HIDE DEF s
<1>2. /\ 1 <= Len(c) => i \in DOMAIN s /\ s[i] = c[1]
      /\ 2 <= Len(c) => i + 1 \in DOMAIN s /\ s[i + 1] = c[2]
      /\ 3 <= Len(c) => i + 2 \in DOMAIN s /\ s[i + 2] = c[3]
      /\ 4 <= Len(c) => i + 3 \in DOMAIN s /\ s[i + 3] = c[4]
      /\ 5 <= Len(c) => i + 4 \in DOMAIN s /\ s[i + 4] = c[5]
  BY <1>1
<1>3. /\ n \in Nat /\ NullWord \in Nat /\ LongNull \in Nat /\ n # LongNull
      /\ n < NullWord => n % WordLimit = n
      /\ Data(n).size = n
      /\ \A w \in {1, 2, 4}, v \in Nat : Field(w, v).size = w /\ Field(w, v).value = v
  BY Lengths, CellFields
<1> DEFINE length == Describe(wide, col)[4].value
<1>10. /\ col.type \in StringTypes => length = Announced(wide, col)
       /\ col.type \in DOMAIN FixedSize => length = FixedSize[col.type]
  BY DescribedLength, FixedTypes DEF Columns, StringTypes
<1>11. ReadsAs(wide, col, s, i, Len(r) + Len(c) + 1) <=>
          Reads(wide, col.type, length, s, i, Len(r) + Len(c) + 1)
  BY DEF ReadsAs
<1>12. col.type \in StringTypes =>
          (Chunked(wide, col) <=> wide /\ length = NullWord)
  BY <1>10, Lengths DEF Chunked, Misannounced
<1> HIDE DEF length
<1>4. CASE col.type \in DOMAIN FixedSize
  <2> DEFINE f == FixedSize[col.type]
  <2>1. f \in 1..8 /\ Data(f).size = f
    BY <1>4 DEF FixedSize, Data, Field
  <2>2. c = IF isnull THEN <<Field(1, 0)>> ELSE <<Field(1, f), Data(f)>>
    BY <1>4, FixedTypes DEF Cell, StringTypes, Unsent
  <2> HIDE DEF f
  <2>3. CASE isnull
    <3>1. Len(c) = 1 /\ c[1] = Field(1, 0)
      BY <2>2, <2>3
    <3>2. Sized(s, i, 1) /\ s[i].value = 0
      BY <1>2, <1>3, <3>1 DEF Sized
    <3>3. ReadsFixed(length, s, i, i + 1)
      BY <3>2 DEF ReadsFixed
    <3> QED BY <1>1, <1>4, <1>11, <3>1, <3>3 DEF Reads, s
  <2>4. CASE ~isnull
    <3>1. Len(c) = 2 /\ c[1] = Field(1, f) /\ c[2] = Data(f)
      BY <2>2, <2>4
    <3>2. Sized(s, i, 1) /\ s[i].value = f /\ Sized(s, i + 1, f)
      BY <1>2, <1>3, <2>1, <3>1 DEF Sized
    <3>3. ReadsFixed(length, s, i, i + 2)
      BY <1>4, <1>10, <2>1, <3>2 DEF ReadsFixed, f
    <3> QED BY <1>1, <1>4, <1>11, <3>1, <3>3 DEF Reads, s
  <2> QED BY <2>3, <2>4
<1>5. CASE col.type \in StringTypes
  <2>1. /\ col.type \notin DOMAIN FixedSize
        /\ c = IF isnull THEN StringNull(wide, col) ELSE StringCell(wide, col, n)
    BY <1>5, FixedTypes DEF Cell, StringTypes, Unsent
  <2>2. CASE isnull /\ Chunked(wide, col)
    <3>1. Len(c) = 2 /\ c[1] = Field(4, LongNull) /\ c[2] = Field(4, LongNull)
      BY <2>1, <2>2 DEF StringNull
    <3>2. Sized(s, i, 4) /\ Sized(s, i + 1, 4) /\ s[i].value = LongNull
      BY <1>2, <1>3, <3>1 DEF Sized
    <3>3. ReadsUnlimited(s, i, i + 2)
      BY <3>2 DEF ReadsUnlimited
    <3>4. Len(r) + Len(c) + 1 = i + 2
      BY <1>1, <3>1
    <3> QED BY <1>5, <1>11, <1>12, <2>1, <2>2, <3>3, <3>4 DEF Reads, s
  <2>3. CASE isnull /\ ~Chunked(wide, col)
    <3>1. Len(c) = 1 /\ c[1] = Field(2, NullWord)
      BY <2>1, <2>3 DEF StringNull
    <3>2. Sized(s, i, 2) /\ s[i].value = NullWord
      BY <1>2, <1>3, <3>1 DEF Sized
    <3>3. ReadsLimited(s, i, i + 1)
      BY <3>2 DEF ReadsLimited
    <3> QED BY <1>1, <1>5, <1>11, <1>12, <2>1, <2>3, <3>1, <3>3 DEF Reads, s
  <2>4. CASE ~isnull /\ Chunked(wide, col)
    <3>1. n # 0
      BY <1>5, <2>4
    <3>2. /\ Len(c) = 5 /\ c[1] = Field(4, n) /\ c[2] = Field(4, 0)
          /\ c[3] = Field(4, n) /\ c[4] = Data(n) /\ c[5] = Field(4, 0)
      <4>1. c = StringCell(wide, col, n) /\ n \in Nat
        BY <1>3, <2>1, <2>4
      <4> QED BY <2>4, <3>1, <4>1, StringCells
    <3>3. /\ Sized(s, i, 4) /\ Sized(s, i + 1, 4) /\ s[i].value = n
          /\ Sized(s, i + 2, 4) /\ s[i + 2].value = n /\ Sized(s, i + 3, n)
          /\ Sized(s, i + 4, 4) /\ s[i + 4].value = 0
      BY <1>2, <1>3, <3>2 DEF Sized
    <3>4. ReadsChunks(s, i + 2, i + 5)
      <4>1. /\ i \in Nat /\ 1 \in 0..Len(s)
            /\ i + 5 = i + 2 + 2 * 1 + 1 /\ i + 5 - 1 = i + 4
        BY <1>1, <3>2
      <4>2. ASSUME NEW k \in 0..(1 - 1)
            PROVE  LET h == i + 2 + 2 * k IN
                   /\ Sized(s, h, 4) /\ s[h].value # 0
                   /\ Sized(s, h + 1, s[h].value)
        <5>1. k = 0 /\ i + 2 + 2 * k = i + 2 /\ i + 2 + 1 = i + 3
          BY <4>1
        <5> QED BY <3>1, <3>3, <5>1
      <4> QED BY <3>3, <4>1, <4>2 DEF ReadsChunks
    <3>5. ReadsUnlimited(s, i, i + 5)
      BY <1>3, <3>3, <3>4 DEF ReadsUnlimited
    <3>6. Len(r) + Len(c) + 1 = i + 5
      BY <1>1, <3>2
    <3> QED BY <1>5, <1>11, <1>12, <2>1, <2>4, <3>5, <3>6 DEF Reads, s
  <2>5. CASE ~isnull /\ ~Chunked(wide, col)
    <3>0. n < NullWord /\ n % WordLimit = n /\ n # NullWord
      BY <1>3, <1>5, <2>5
    <3>1. /\ c[1] = Field(2, n)
          /\ n = 0 => Len(c) = 1
          /\ n # 0 => Len(c) = 2 /\ c[2] = Data(n)
      <4>1. c = StringCell(wide, col, n) /\ n \in Nat
        BY <1>3, <2>1, <2>5
      <4>2. Field(2, n % WordLimit) = Field(2, n)
        BY <3>0
      <4>3. /\ StringCell(wide, col, n)[1] = Field(2, n % WordLimit)
            /\ n = 0 => Len(StringCell(wide, col, n)) = 1
            /\ n # 0 => /\ Len(StringCell(wide, col, n)) = 2
                        /\ StringCell(wide, col, n)[2] = Data(n)
        BY <2>5, <4>1, StringCells
      <4> QED BY <4>1, <4>2, <4>3
    <3>2. /\ Sized(s, i, 2) /\ s[i].value = n
          /\ n # 0 => Sized(s, i + 1, n)
      BY <1>2, <1>3, <3>1 DEF Sized
    <3>3. ReadsLimited(s, i, i + Len(c))
      BY <1>3, <3>0, <3>1, <3>2 DEF ReadsLimited
    <3> QED BY <1>1, <1>5, <1>11, <1>12, <2>1, <2>5, <3>3 DEF Reads, s
  <2> QED BY <2>2, <2>3, <2>4, <2>5
<1> QED BY <1>4, <1>5 DEF Columns, ColumnTypes

----------------------------------------------------------------------------
(* The steps. *)

\* Nothing is built at first.
LEMMA InitInvariant == Init => IInv
<1> SUFFICES ASSUME Init PROVE IInv
  OBVIOUS
<1>1. /\ NewBuffer \in Buffers /\ NewBuffer.size = InitialSize
      /\ NewBuffer.pos = 0 /\ NewBuffer.held = {}
  BY WriterAssumption DEF NewBuffer, Buffers
<1>2. /\ NoChild \in [open : BOOLEAN, pos : Nat, length : Nat \cup {NoLength}]
      /\ ~NoChild.open /\ NoChild.pos = 0 /\ NoChild.length = NoLength
  BY DEF NoChild
<1>3. TypeOK
  BY <1>1, <1>2, WriterAssumption DEF Init, TypeOK, NoColumns, Buffers
<1>4. Here = 0
  BY <1>1, <1>2 DEF Init, Here, At
<1>5. Built
  BY <1>1, <1>4, WriterAssumption DEF Init, Built, Fit
<1>6. Queue /\ Places
  BY <1>2 DEF Init, Queue, QueueOK, Places, Placed
<1>7. Listed
  BY DEF Init, Listed, Navigable
<1>8. Sent
  BY <1>1 DEF Init, Sent, PacketsTile
<1> QED BY <1>3, <1>5, <1>6, <1>7, <1>8 DEF IInv

\* A response is begun.
LEMMA StartStep ==
    ASSUME IInv, StartPrelogin \/ StartTokens
    PROVE  IInv'
<1>1. /\ NewBuffer \in Buffers /\ NewBuffer.size = InitialSize
      /\ NewBuffer.pos = 0 /\ NewBuffer.held = {}
  BY WriterAssumption DEF NewBuffer, Buffers
<1>2. pc = "idle" /\ ~child.open /\ child = NoChild /\ todo = << >> /\ filled = 0
  BY DEF IInv, Places, StartPrelogin, StartTokens
<1>3. /\ ~NoChild.open /\ NoChild.pos = 0 /\ NoChild.length = NoLength
  BY DEF NoChild
<1>4. /\ Fresh /\ UNCHANGED <<late, child, cols, row, filled, rows>>
      /\ \/ pc' = "prelogin" /\ todo' = Prelogin
         \/ pc' = "tokens" /\ todo' = << >>
  BY <1>2 DEF StartPrelogin, StartTokens
<1>5. todo' \in Seq(Fields) /\ QueueOK(todo', NoChild, pc')
  <2>1. CASE todo' = << >>
    BY <2>1, <1>3 DEF QueueOK
  <2>2. CASE pc' = "prelogin" /\ todo' = Prelogin
    BY <2>2, PreloginQueue
  <2> QED BY <1>4, <2>1, <2>2
<1>6. TypeOK'
  BY <1>1, <1>4, <1>5 DEF IInv, TypeOK, Fresh, Buffers
<1>7. Here' = 0
  BY <1>1, <1>2, <1>3, <1>4 DEF Here, At, Fresh
<1>8. Built'
  BY <1>1, <1>4, <1>7, WriterAssumption DEF Built, Fit, Fresh
<1>9. Queue' /\ Places'
  BY <1>2, <1>3, <1>4, <1>5 DEF Queue, Places, Placed, Fresh
<1>10. Listed'
  BY <1>1, <1>4 DEF Listed, Navigable, Fresh
<1>11. Sent'
  BY <1>1, <1>4 DEF Sent, PacketsTile, Fresh
<1> QED BY <1>6, <1>8, <1>9, <1>10, <1>11 DEF IInv

\* Additions are queued: for a new token, or for a column or a cell of a
\* result set.
LEMMA QueueStep ==
    ASSUME IInv, pc = "tokens", todo = << >>,
           UNCHANGED <<late, pc, buf, tails, tokens, empties, cut, stream>>,
           todo' \in Seq(Fields), QueueOK(todo', child', pc),
           \/ child' = child /\ child.open
           \/ child' = NewChild /\ ~child.open,
           TypeOK'
    PROVE  IInv'
<1>1. /\ NewChild.open /\ NewChild.pos = 0 /\ NewChild.length = NoLength
      /\ NoChild.pos = 0
  BY DEF NewChild, NoChild
<1>2. child'.pos = child.pos /\ child'.open
  BY <1>1 DEF IInv, Places
<1>3. Here' = Here /\ Here # buf.size + 1
  BY <1>2 DEF IInv, Built, Here, At
<1>4. Built'
  BY <1>3 DEF IInv, Built
<1>5. Queue'
  BY DEF Queue
<1>6. Places'
  BY <1>1, <1>2 DEF IInv, Places
<1>7. Listed' /\ Sent'
  BY DEF IInv, Listed, Navigable, Sent, PacketsTile
<1> QED BY <1>4, <1>5, <1>6, <1>7 DEF IInv

\* A token is begun.
LEMMA BeginStep ==
    ASSUME IInv, NEW kind \in {"message", "loginack", "envchange", "done", "results"},
           NEW q \in Seq(Fields), QueueOK(q, NewChild, "tokens"),
           Begin(kind, q, NoColumns)
    PROVE  IInv'
<1>1. /\ pc = "tokens" /\ ~child.open /\ todo = << >> /\ filled = 0
      /\ child' = NewChild /\ todo' = q /\ last' = kind /\ cols' = << >>
      /\ UNCHANGED <<late, pc, buf, tails, row, filled, rows, tokens, empties,
                     cut, stream>>
  BY DEF Begin, IInv, Places, NoColumns
<1>2. NewChild \in [open : BOOLEAN, pos : Nat, length : Nat \cup {NoLength}]
  BY DEF NewChild
<1>3. TypeOK'
  BY <1>1, <1>2 DEF IInv, TypeOK
<1> QED BY <1>1, <1>3, QueueStep

\* A column, a row or a cell is queued.
LEMMA ResultStep ==
    ASSUME IInv, Column \/ Row \/ NextCell
    PROVE  IInv'
<1>1. /\ child.open /\ child.pos # 0 /\ pc = "tokens" /\ todo = << >>
      /\ UNCHANGED <<late, pc, buf, child, tails, tokens, last, empties, cut, stream>>
  BY DEF IInv, Places, Queue, QueueOK, Column, Row, NextCell
<1>2. CASE Column
  <2>1. PICK col \in RowTypes, name \in Texts :
           /\ cols' = Append(cols, col)
           /\ todo' = Append(Describe(late, col), Short(name))
           /\ UNCHANGED <<row, filled, rows>>
    BY <1>2 DEF Column
  <2>2. col \in Columns /\ late \in BOOLEAN
    BY WriterAssumption DEF IInv, TypeOK
  <2>3. todo' \in Seq(Fields) /\ QueueOK(todo', child, pc)
    BY <1>1, <2>1, <2>2, ColumnQueue
  <2>4. TypeOK'
    BY <1>1, <2>1, <2>2, <2>3, SMTT(30) DEF IInv, TypeOK
  <2> QED BY <1>1, <2>3, <2>4, QueueStep
<1>3. CASE Row
  <2>1. /\ todo' = <<Data(1)>> /\ rows' = rows + 1 /\ rows < MaxRows
        /\ filled' = 0 /\ row' = << >> /\ cols' = cols
    BY <1>3 DEF Row
  <2>2. todo' \in Seq(Bytes)
    BY <2>1, DataType
  <2>3. todo' \in Seq(Fields) /\ QueueOK(todo', child, pc)
    BY <1>1, <2>2, BytesQueue
  <2>4. rows' \in 0..MaxRows
    BY <2>1, WriterAssumption DEF IInv, TypeOK
  <2>5. TypeOK'
    BY <1>1, <2>1, <2>3, <2>4 DEF IInv, TypeOK
  <2> QED BY <1>1, <2>3, <2>5, QueueStep
<1>4. CASE NextCell
  <2>1. PICK isnull \in BOOLEAN, n \in Sizes :
           /\ todo' = Cell(late, cols[filled + 1], isnull, n)
           /\ row' = row \o todo'
           /\ filled' = filled + 1 /\ UNCHANGED <<cols, rows>>
    BY <1>4 DEF NextCell
  <2>2. /\ filled + 1 \in 1..Len(cols) /\ cols[filled + 1] \in Columns
        /\ late \in BOOLEAN
    BY <1>4 DEF NextCell, RowDone, IInv, TypeOK
  <2>3. todo' \in Seq(Bytes)
    BY <2>1, <2>2, CellQueue
  <2>4. todo' \in Seq(Fields) /\ QueueOK(todo', child, pc)
    BY <1>1, <2>3, BytesQueue
  <2>5. row' \in Seq(Bytes)
    BY <2>1, <2>3 DEF IInv, TypeOK
  <2>6. TypeOK'
    BY <1>1, <2>1, <2>2, <2>4, <2>5, SMTT(30) DEF IInv, TypeOK
  <2> QED BY <1>1, <2>4, <2>6, QueueStep
<1> QED BY <1>2, <1>3, <1>4

\* What is left of a queue after an addition.
LEMMA TailQueue ==
    ASSUME NEW q \in Seq(Fields), q # << >>, NEW c, NEW d, NEW w,
           QueueOK(q, c, w), d.open = c.open,
           d.open => d.pos \in Nat /\ d.pos >= 1
    PROVE  Tail(q) \in Seq(Fields) /\ QueueOK(Tail(q), d, w)
<1>1. /\ Tail(q) \in Seq(Fields) /\ Len(Tail(q)) = Len(q) - 1
      /\ \A i \in 1..Len(Tail(q)) : i + 1 \in 1..Len(q) /\ Tail(q)[i] = q[i + 1]
  OBVIOUS
<1>2. ASSUME NEW i \in 1..Len(Tail(q))
      PROVE  /\ Tail(q)[i].kind = "text" /\ Tail(q)[i].wide = 2 =>
                   i < Len(Tail(q)) /\ Tail(q)[i + 1] = Short(NoText)
             /\ Tail(q)[i].kind = "length" => d.open /\ d.pos + i >= 2
             /\ Tail(q)[i].kind = "pointer" => w = "prelogin"
  <2> DEFINE j == i + 1
  <2>1. j \in 1..Len(q) /\ Tail(q)[i] = q[j]
    BY <1>1
  <2>2. /\ q[j].kind = "text" /\ q[j].wide = 2 =>
              j < Len(q) /\ q[j + 1] = Short(NoText)
        /\ q[j].kind = "length" => c.open
        /\ q[j].kind = "pointer" => w = "prelogin"
    BY <2>1 DEF QueueOK
  <2>3. j < Len(q) => i < Len(Tail(q)) /\ i + 1 \in 1..Len(Tail(q))
    BY <1>1
  <2>4. j < Len(q) => Tail(q)[i + 1] = q[j + 1]
    BY <1>1, <2>3
  <2> QED BY <2>1, <2>2, <2>3, <2>4
<1> QED BY <1>1, <1>2 DEF QueueOK

\* What an addition of n bytes does to the two buffers.
LEMMA Moves ==
    ASSUME buf \in Buffers,
           child \in [open : BOOLEAN, pos : Nat, length : Nat \cup {NoLength}],
           child.length # NoLength =>
              child.length >= 1 /\ child.length + 2 <= child.pos,
           NEW b \in Buffers, NEW n \in Nat, b.pos = buf.pos,
           \/ Advance(b, n)
           \/ /\ child.open /\ buf' = b
              /\ child' = [child EXCEPT !.pos = @ + n, !.length = child.pos]
              /\ child.pos >= 1 /\ n >= 2
    PROVE  /\ child' \in [open : BOOLEAN, pos : Nat, length : Nat \cup {NoLength}]
           /\ child'.open = child.open
           /\ child.open => child'.pos = child.pos + n /\ buf'.pos = buf.pos
           /\ ~child.open => child' = child /\ buf'.pos = buf.pos + n
           /\ buf' \in Buffers /\ buf'.size = b.size /\ buf'.held = b.held
           /\ child'.length # NoLength =>
                 child'.length >= 1 /\ child'.length + 2 <= child'.pos
<1>1. CASE child.open /\ Advance(b, n)
  <2>1. buf' = b /\ child' = [child EXCEPT !.pos = @ + n]
    BY <1>1 DEF Advance
  <2>2. /\ child' \in [open : BOOLEAN, pos : Nat, length : Nat \cup {NoLength}]
        /\ child'.open = child.open /\ child'.length = child.length
        /\ child'.pos = child.pos + n /\ child.pos \in Nat
        /\ child.length \in Nat \cup {NoLength}
    BY <2>1
  <2>3. child.length + 2 <= child.pos => child.length + 2 <= child.pos + n
    BY <2>2
  <2>4. child'.length # NoLength =>
           child'.length >= 1 /\ child'.length + 2 <= child'.pos
    BY <2>2, <2>3
  <2>5. buf' \in Buffers /\ buf'.size = b.size /\ buf'.held = b.held
        /\ buf'.pos = buf.pos
    BY <2>1
  <2> QED BY <1>1, <2>2, <2>4, <2>5
<1>2. CASE ~child.open /\ Advance(b, n)
  <2>1. buf' = [b EXCEPT !.pos = @ + n] /\ child' = child
    BY <1>2 DEF Advance
  <2>2. /\ buf' \in Buffers /\ buf'.size = b.size /\ buf'.held = b.held
        /\ buf'.pos = buf.pos + n
    BY <2>1 DEF Buffers
  <2> QED BY <1>2, <2>1, <2>2
<1>3. CASE /\ child.open /\ buf' = b
           /\ child' = [child EXCEPT !.pos = @ + n, !.length = child.pos]
           /\ child.pos >= 1 /\ n >= 2
  <2>1. /\ child' \in [open : BOOLEAN, pos : Nat, length : Nat \cup {NoLength}]
        /\ child'.open = child.open /\ child'.length = child.pos
        /\ child'.pos = child.pos + n /\ child.pos \in Nat
    <3>1. child.pos \in Nat /\ child.open \in BOOLEAN /\ child.pos + n \in Nat
      OBVIOUS
    <3>2. child' = [open |-> child.open, pos |-> child.pos + n,
                    length |-> child.pos]
      BY <1>3
    <3>3. child'.open = child.open /\ child'.length = child.pos
          /\ child'.pos = child.pos + n
      BY <3>2
    <3>4. child' \in [open : BOOLEAN, pos : Nat, length : Nat \cup {NoLength}]
      BY <3>1, <3>2
    <3> QED BY <3>1, <3>3, <3>4
  <2>2. child'.length >= 1 /\ child'.length + 2 <= child'.pos
    BY <1>3, <2>1
  <2>3. buf' \in Buffers /\ buf'.size = b.size /\ buf'.held = b.held
        /\ buf'.pos = buf.pos
    BY <1>3
  <2> QED BY <1>3, <2>1, <2>2, <2>3
<1> QED BY <1>1, <1>2, <1>3

\* Data put at the end have a place and a size.
LEMMA TailPlace ==
    ASSUME NEW q \in Seq([at : Nat, size : 0..InitialSize]), NEW i \in 1..Len(q)
    PROVE  /\ q[i] \in [at : Nat, size : 0..InitialSize]
           /\ q[i].at \in Nat /\ q[i].size \in Nat /\ q[i].size <= InitialSize
<1> DEFINE S == [at : Nat, size : 0..InitialSize]
<1>1. q \in Seq(S)
  OBVIOUS
<1> HIDE DEF S
<1>2. q[i] \in S
  BY <1>1
<1> USE DEF S
<1>3. q[i].at \in Nat /\ q[i].size \in 0..InitialSize
  BY <1>2
<1> QED BY <1>2, <1>3, WriterAssumption

\* Places before a position are before every later one.
LEMMA PlacedOn ==
    ASSUME NEW q \in Seq([at : Nat, size : 0..InitialSize]),
           NEW p \in Nat, NEW r \in Nat, p <= r, Placed(q, p)
    PROVE  Placed(q, r)
<1> SUFFICES ASSUME NEW i \in 1..Len(q) PROVE q[i].at + 2 <= r
  BY DEF Placed
<1>1. q[i].at \in Nat /\ q[i].at + 2 <= p
  BY TailPlace DEF Placed
<1> QED BY <1>1

\* An addition of n bytes that leaves the block b.
LEMMA AdditionStep ==
    ASSUME IInv, Added, NEW b \in Buffers, NEW n \in Nat,
           b.pos = buf.pos, b.size >= buf.size,
           \/ Advance(b, n)
           \/ /\ child.open /\ buf' = b
              /\ child' = [child EXCEPT !.pos = @ + n, !.length = child.pos]
              /\ child.pos >= 1 /\ n >= 2,
           Fit(b, Here + n, empties'), empties' \in SUBSET Nat,
           Here + n = b.size + 1 =>
              Tail(todo) # << >> /\ Head(Tail(todo)) = Short(NoText),
           child.open /\ child.pos = 0 => n >= 1,
           tails' \in Seq([at : Nat, size : 0..InitialSize]),
           \/ Placed(tails', buf.pos)
           \/ ~child.open /\ Placed(tails', buf.pos + n)
    PROVE  IInv'
<1>0.  /\ buf \in Buffers /\ empties \in SUBSET Nat /\ Here = buf.pos + child.pos
       /\ child \in [open : BOOLEAN, pos : Nat, length : Nat \cup {NoLength}]
       /\ child.length # NoLength =>
            child.length >= 1 /\ child.length + 2 <= child.pos
  BY DEF IInv, TypeOK, Buffers, Here, At, Places
<1>1. /\ todo # << >> /\ todo' = Tail(todo)
      /\ UNCHANGED <<late, pc, cols, row, filled, rows, tokens, last, cut, stream>>
      /\ pc # "overrun"
  BY DEF Added
<1>2. /\ pc \in {"prelogin", "tokens"} /\ (~child.open => pc = "prelogin")
      /\ child.pos \in Nat /\ buf.pos \in Nat
      /\ child.length \in Nat \cup {NoLength}
      /\ ~child.open => child.pos = 0
  BY <1>1, SMTT(30) DEF IInv, Places, TypeOK, NoChild
<1>3. /\ child' \in [open : BOOLEAN, pos : Nat, length : Nat \cup {NoLength}]
      /\ child'.open = child.open
      /\ child.open => child'.pos = child.pos + n /\ buf'.pos = buf.pos
      /\ ~child.open => child' = child /\ buf'.pos = buf.pos + n
      /\ buf' \in Buffers /\ buf'.size = b.size /\ buf'.held = b.held
      /\ child'.length # NoLength =>
            child'.length >= 1 /\ child'.length + 2 <= child'.pos
  BY <1>2, <1>0, Moves
<1>4. Here' = Here + n
  BY <1>2, <1>3, SMTT(30) DEF Here, At
<1>5. todo' \in Seq(Fields) /\ QueueOK(todo', child', pc)
  <2>1. todo \in Seq(Fields) /\ QueueOK(todo, child, pc)
    BY DEF IInv, TypeOK, Queue
  <2>2. child'.open => child'.pos \in Nat /\ child'.pos >= 1
    BY <1>2, <1>3
  <2> QED BY <1>1, <1>3, <2>1, <2>2, TailQueue
<1>6. stream = << >> /\ cut = 0
  BY <1>2 DEF IInv, Sent
<1>7. TypeOK'
  <2>1. buf' \in [size : Nat, pos : Nat, held : SUBSET Nat] /\ 0 \in 0..buf'.pos
    BY <1>3 DEF Buffers
  <2> QED BY <1>1, <1>3, <1>5, <1>6, <2>1 DEF IInv, TypeOK
<1>8. Built'
  <2>1. Fit(buf', Here', empties')
    BY <1>3, <1>4 DEF Fit
  <2>2. buf'.size >= InitialSize
    <3>1. buf.size >= InitialSize /\ buf.size \in Nat /\ b.size \in Nat
      BY <1>0 DEF IInv, Built, Buffers
    <3> QED BY <1>3, <3>1, WriterAssumption
  <2> QED BY <1>1, <1>3, <1>4, <2>1, <2>2 DEF Built
<1>9. Queue'
  BY <1>1, <1>5 DEF Queue
<1>10. Places'
  <2>1. /\ Placed(tails', buf'.pos)
        /\ buf.pos \in Nat /\ buf.pos + n \in Nat /\ buf.pos <= buf.pos + n
    <3>1. buf.pos \in Nat /\ buf.pos + n \in Nat /\ buf.pos <= buf.pos + n
      BY <1>2
    <3>2. Placed(tails', buf.pos) => Placed(tails', buf.pos + n)
      BY <3>1, PlacedOn
    <3> QED BY <1>3, <3>1, <3>2
  <2> QED BY <1>1, <1>2, <1>3, <2>1 DEF IInv, Places
<1>11. Listed'
  BY <1>1, <1>2, <1>3 DEF IInv, Listed, Navigable
<1>12. Sent'
  <2>1. /\ stream' = << >> /\ cut' = 0 /\ pc' # "idle" /\ PacketBody \in Nat
        /\ Len(stream') * PacketBody = 0
    BY <1>1, <1>2, <1>6, WriterAssumption
  <2> QED BY <2>1 DEF Sent, PacketsTile
<1> QED BY <1>7, <1>8, <1>9, <1>10, <1>11, <1>12 DEF IInv

\* The first two fields of a queue.
LEMMA FirstTwo ==
    ASSUME NEW q \in Seq(Fields), q # << >>
    PROVE  /\ Head(q) = q[1] /\ 1 \in 1..Len(q) /\ Head(q) \in Fields
           /\ 1 < Len(q) => Tail(q) # << >> /\ Head(Tail(q)) = q[2]
<1>1. Head(q) = q[1] /\ 1 \in 1..Len(q) /\ q[1] \in Fields
  OBVIOUS
<1>2. ASSUME 1 < Len(q)
      PROVE  Tail(q) # << >> /\ Head(Tail(q)) = q[2]
  <2>1. Tail(q) \in Seq(Fields) /\ Len(Tail(q)) = Len(q) - 1 /\ Len(q) \in Nat
    OBVIOUS
  <2>2. \A i \in 1..Len(Tail(q)) : i + 1 \in 1..Len(q) /\ Tail(q)[i] = q[i + 1]
    OBVIOUS
  <2>3. 1 \in 1..Len(Tail(q)) /\ 1 + 1 = 2
    BY <1>2, <2>1
  <2>4. Tail(q)[1] = q[2]
    BY <2>2, <2>3
  <2>5. Tail(q) # << >>
    <3>1. Len(Tail(q)) # 0
      BY <2>1, <2>3
    <3>2. Len(<< >>) = 0
      OBVIOUS
    <3> QED BY <3>1, <3>2, Zenon
  <2> QED BY <2>1, <2>4, <2>5
<1> QED BY <1>1, <1>2

\* What is known when an addition is due.
LEMMA Due ==
    ASSUME IInv, todo # << >>
    PROVE  /\ buf \in Buffers /\ empties \in SUBSET Nat /\ Here \in Nat
           /\ Fit(buf, Here, empties) /\ buf.size >= InitialSize
           /\ buf.size \in Nat
           /\ Head(todo) \in Fields
           /\ Head(todo) # Short(NoText) => Here <= buf.size
           /\ child.open /\ child.pos = 0 => Head(todo) = Data(1)
           /\ Head(todo).kind = "length" => child.open /\ child.pos >= 1
           /\ Head(todo).kind = "pointer" => ~child.open /\ Here = buf.pos
           /\ Head(todo).kind = "text" /\ Head(todo).wide = 2 =>
                 Tail(todo) # << >> /\ Head(Tail(todo)) = Short(NoText)
<1>1. /\ buf \in Buffers /\ empties \in SUBSET Nat /\ Here \in Nat
      /\ buf.size \in Nat /\ child.pos \in Nat /\ buf.pos \in Nat
      /\ Here = buf.pos + child.pos
  BY DEF IInv, TypeOK, Buffers, Here, At
<1>2. /\ todo \in Seq(Fields) /\ Head(todo) = todo[1] /\ 1 \in 1..Len(todo)
      /\ Head(todo) \in Fields
      /\ 1 < Len(todo) => Tail(todo) # << >> /\ Head(Tail(todo)) = todo[2]
  <2>1. todo \in Seq(Fields)
    BY DEF IInv, TypeOK
  <2> QED BY <2>1, FirstTwo
<1>3. Fit(buf, Here, empties) /\ buf.size >= InitialSize
  BY DEF IInv, Built
<1>4. Head(todo) # Short(NoText) => Here <= buf.size
  BY <1>1, <1>3 DEF IInv, Built, Fit
<1>5. QueueOK(todo, child, pc)
  BY DEF IInv, Queue
<1>6. /\ todo[1].kind = "text" /\ todo[1].wide = 2 =>
            1 < Len(todo) /\ todo[2] = Short(NoText)
      /\ todo[1].kind = "length" => child.open /\ child.pos + 1 >= 2
      /\ todo[1].kind = "pointer" => pc = "prelogin"
      /\ child.open /\ child.pos = 0 => todo[1] = Data(1)
  BY <1>2, <1>5 DEF QueueOK
<1>7. pc = "prelogin" => ~child.open /\ child.pos = 0
  BY DEF IInv, Places, NoChild
<1> QED BY <1>1, <1>2, <1>3, <1>4, <1>6, <1>7

\* add_bytes and its like.
LEMMA AddStep == IInv /\ Add => IInv'
<1> SUFFICES ASSUME IInv, Add PROVE IInv'
  OBVIOUS
<1> DEFINE n == Head(todo).size
           b == AddBytes(buf, Here, n)
<1>1. /\ todo # << >> /\ Added /\ Head(todo).kind = "bytes" /\ Advance(b, n)
      /\ UNCHANGED <<tails, empties>>
  BY DEF Add, Added
<1>2. Head(todo) \in Fields /\ Head(todo) # Short(NoText)
  BY <1>1, Due, KindOfData
<1>3. Head(todo) \in Bytes
  BY <1>1, <1>2, Kinds
<1>4. n \in Nat /\ Fits(buf, Here, n) /\ buf.size >= 1
  <2>1. AdditionFits(Head(todo)) /\ Extent(Head(todo)) = n
    BY <1>1 DEF Added, Extent
  <2>2. buf.size >= 1
    BY <1>1, Due, WriterAssumption
  <2> QED BY <1>1, <1>3, <2>1, <2>2 DEF Bytes, AdditionFits
<1>5. /\ b \in Buffers /\ b.pos = buf.pos /\ b.size >= buf.size
      /\ b.size >= Here + n /\ Fit(b, Here + n, empties)
  BY <1>1, <1>2, <1>4, Due, AddBytesFits
<1>6. child.open /\ child.pos = 0 => n >= 1
  BY <1>1, Due DEF Data, Field
<1>7. Here + n # b.size + 1
  BY <1>1, <1>4, <1>5, Due DEF Buffers
<1>8. /\ tails' \in Seq([at : Nat, size : 0..InitialSize])
      /\ Placed(tails', buf.pos)
  BY <1>1 DEF IInv, TypeOK, Places
<1>9. Fit(b, Here + n, empties') /\ empties' \in SUBSET Nat
  BY <1>1, <1>5, Due
<1> HIDE DEF n, b
<1> QED BY <1>1, <1>4, <1>5, <1>6, <1>7, <1>8, <1>9, AdditionStep

\* add_length_hu16.
LEMMA AddLengthStep == IInv /\ AddLength => IInv'
<1> SUFFICES ASSUME IInv, AddLength PROVE IInv'
  OBVIOUS
<1> DEFINE b == AddBytes(buf, Here, 2)
<1>1. /\ todo # << >> /\ Added /\ Head(todo).kind = "length" /\ buf' = b
      /\ child' = [child EXCEPT !.pos = @ + 2, !.length = child.pos]
      /\ UNCHANGED <<tails, empties>>
  BY DEF AddLength, Added
<1>2. Head(todo) # Short(NoText)
  BY <1>1, KindOfData
<1>3. Fits(buf, Here, 2) /\ buf.size >= 1
  <2>1. AdditionFits(Head(todo)) /\ Extent(Head(todo)) = 2
    BY <1>1 DEF Added, Extent
  <2>2. buf.size >= 1
    BY <1>1, Due, WriterAssumption
  <2> QED BY <1>1, <2>1, <2>2 DEF AdditionFits
<1>4. /\ b \in Buffers /\ b.pos = buf.pos /\ b.size >= buf.size
      /\ b.size >= Here + 2 /\ Fit(b, Here + 2, empties)
  BY <1>1, <1>2, <1>3, Due, AddBytesFits
<1>5. child.open /\ child.pos >= 1
  BY <1>1, Due
<1>6. Here + 2 # b.size + 1
  BY <1>1, <1>4, Due DEF Buffers
<1>7. /\ tails' \in Seq([at : Nat, size : 0..InitialSize])
      /\ Placed(tails', buf.pos)
  BY <1>1 DEF IInv, TypeOK, Places
<1>8. Fit(b, Here + 2, empties') /\ empties' \in SUBSET Nat
  BY <1>1, <1>4, Due
<1>9. /\ child.open /\ buf' = b
      /\ child' = [child EXCEPT !.pos = @ + 2, !.length = child.pos]
      /\ child.pos >= 1 /\ 2 >= 2 /\ 2 \in Nat
  BY <1>1, <1>5
<1>10. /\ Added
       /\ Here + 2 = b.size + 1 => Tail(todo) # << >> /\ Head(Tail(todo)) = Short(NoText)
       /\ child.open /\ child.pos = 0 => 2 >= 1
  BY <1>1, <1>6
<1> HIDE DEF b
<1> QED BY <1>4, <1>7, <1>8, <1>9, <1>10, AdditionStep

\* add_cc1_ucs2 and add_cch2_ucs2.
LEMMA AddCountedStep == IInv /\ AddCounted => IInv'
<1> SUFFICES ASSUME IInv, AddCounted PROVE IInv'
  OBVIOUS
<1> DEFINE f == Head(todo)
           n == f.wide + 2 * f.chars
           b == AddText(buf, Here, f.wide, f.bytes, f.chars)
           next == Tail(todo) # << >> /\ Head(Tail(todo)) = Short(NoText)
<1>1. /\ todo # << >> /\ Added /\ f.kind = "text" /\ Advance(b, n)
      /\ empties' = IF f.wide = 2 /\ f.bytes = 0
                    THEN empties \cup {Here + 1} ELSE empties
      /\ tails' = tails /\ AdditionFits(f)
  BY DEF AddCounted, Added
<1>0.  /\ buf \in Buffers /\ empties \in SUBSET Nat /\ Here \in Nat
       /\ Fit(buf, Here, empties) /\ buf.size >= InitialSize /\ buf.size \in Nat
       /\ f \in Fields /\ (f # Short(NoText) => Here <= buf.size)
       /\ f.wide = 2 => next
  BY <1>1, Due
<1> HIDE DEF f, next
<1>2. f \in Counts
  BY <1>1, <1>0, Kinds
<1>3. /\ f.wide \in {1, 2} /\ f.bytes \in Nat /\ f.chars \in Nat
      /\ f.chars <= f.bytes
  BY <1>2 DEF Counts
<1>4. f.wide = 2 => Here <= buf.size
  BY <1>0, KindOfData
<1>5. f.wide = 1 \/ Here <= buf.size
  BY <1>3, <1>4
<1>6. /\ buf.size >= 8 /\ TextFits(buf, Here, f.wide, f.bytes, f.chars)
  BY <1>1, <1>0, WriterAssumption DEF AdditionFits
<1>7. /\ b \in Buffers /\ b.pos = buf.pos /\ b.size >= buf.size
      /\ Fit(b, Here + f.wide + 2 * f.chars, empties')
      /\ ~(f.wide = 2 /\ f.bytes = 0) => Here + f.wide + 2 * f.chars <= b.size
  <2> DEFINE w == f.wide c == f.chars y == f.bytes e == empties
  <2>1. /\ w \in Nat /\ w \in {1, 2} /\ c \in Nat /\ y \in Nat /\ c <= y
        /\ TextFits(buf, Here, w, y, c) /\ (w = 1 \/ Here <= buf.size)
        /\ buf \in Buffers /\ buf.size >= 8 /\ Here \in Nat
        /\ Fit(buf, Here, e) /\ e \in SUBSET Nat
    BY <1>3, <1>5, <1>6, <1>0
  <2> HIDE DEF w, c, y, e
  <2> DEFINE g == IF w = 2 /\ y = 0 THEN e \cup {Here + 1} ELSE e
  <2>3. g = IF w = 2 /\ y = 0 THEN e \cup {Here + 1} ELSE e
    OBVIOUS
  <2> DEFINE to == Here + w + 2 * c
  <2>4. to \in Nat /\ to = Here + w + 2 * c
    BY <2>1
  <2> HIDE DEF g, to
  <2>2. LET after == AddText(buf, Here, w, y, c)
        IN /\ Fit(after, to, g)
           /\ ~(w = 2 /\ y = 0) => to <= after.size
    BY <2>1, <2>3, <2>4, AddTextFits
  <2>5. LET after == AddText(buf, Here, w, y, c)
        IN after \in Buffers /\ after.pos = buf.pos /\ after.size >= buf.size
    BY <2>1, AddTextMoves
  <2> QED BY <1>1, <2>2, <2>3, <2>4, <2>5 DEF w, c, y, e
<1>8. n \in Nat /\ n >= 1 /\ Here + f.wide + 2 * f.chars = Here + n
  BY <1>3, <1>0
<1>9. Here + n = b.size + 1 => Tail(todo) # << >> /\ Head(Tail(todo)) = Short(NoText)
  BY <1>7, <1>8, <1>0 DEF Buffers, next
<1>10. /\ tails' \in Seq([at : Nat, size : 0..InitialSize])
       /\ Placed(tails', buf.pos)
  BY <1>1 DEF IInv, TypeOK, Places
<1>11. Fit(b, Here + n, empties') /\ empties' \in SUBSET Nat
  BY <1>1, <1>7, <1>8, <1>0
<1> HIDE DEF n, b
<1> QED BY <1>1, <1>7, <1>8, <1>9, <1>10, <1>11, AdditionStep

\* add_bytes with a pointer.
LEMMA AddPointerStep == IInv /\ AddPointer => IInv'
<1> SUFFICES ASSUME IInv, AddPointer PROVE IInv'
  OBVIOUS
<1> DEFINE b == AddBytes(buf, Here, 2)
<1>1. /\ todo # << >> /\ Added /\ Head(todo).kind = "pointer" /\ Advance(b, 2)
      /\ tails' = Append(tails, [at |-> Here, size |-> Head(todo).size])
      /\ empties' = empties
  BY DEF AddPointer, Added
<1>2. Head(todo) # Short(NoText)
  BY <1>1, KindOfData
<1>3. Fits(buf, Here, 2) /\ buf.size >= 1
  <2>1. AdditionFits(Head(todo)) /\ Extent(Head(todo)) = 2
    BY <1>1 DEF Added, Extent
  <2>2. buf.size >= 1
    BY <1>1, Due, WriterAssumption
  <2> QED BY <1>1, <2>1, <2>2 DEF AdditionFits
<1>4. /\ b \in Buffers /\ b.pos = buf.pos /\ b.size >= buf.size
      /\ b.size >= Here + 2 /\ Fit(b, Here + 2, empties)
  BY <1>1, <1>2, <1>3, Due, AddBytesFits
<1>5. ~child.open /\ Here = buf.pos
  BY <1>1, Due
<1>6. Here + 2 # b.size + 1
  BY <1>1, <1>4, Due DEF Buffers
<1>7. [at |-> Here, size |-> Head(todo).size] \in [at : Nat, size : 0..InitialSize]
  BY <1>1, Due, Kinds DEF Pointers
<1>8. tails \in Seq([at : Nat, size : 0..InitialSize])
  BY DEF IInv, TypeOK
<1>9. tails' \in Seq([at : Nat, size : 0..InitialSize])
  BY <1>1, <1>7, <1>8
<1>10. Placed(tails', buf.pos + 2)
  <2> SUFFICES ASSUME NEW i \in 1..Len(tails') PROVE tails'[i].at + 2 <= buf.pos + 2
    BY DEF Placed
  <2>1. CASE i \in 1..Len(tails)
    <3>1. tails'[i] = tails[i]
      BY <1>1, <1>8, <2>1
    <3>2. tails[i].at \in Nat /\ tails[i].at + 2 <= buf.pos
      BY <1>8, <2>1, TailPlace DEF IInv, Places, Placed
    <3> QED BY <3>1, <3>2, <1>1, Due DEF Buffers
  <2>2. CASE i = Len(tails) + 1
    BY <1>1, <1>5, <1>8, <2>2, Due
  <2>3. Len(tails') = Len(tails) + 1 /\ Len(tails) \in Nat
    BY <1>1, <1>8
  <2> QED BY <2>1, <2>2, <2>3
<1>11. Fit(b, Here + 2, empties') /\ empties' \in SUBSET Nat
  BY <1>1, <1>4, Due
<1> HIDE DEF b
<1> QED BY <1>1, <1>4, <1>5, <1>6, <1>9, <1>10, <1>11, AdditionStep

\* A sequence with one more element.
LEMMA Appended ==
    ASSUME NEW S, NEW q \in Seq(S), NEW x \in S
    PROVE  /\ Append(q, x) \in Seq(S) /\ Append(q, x) # << >>
           /\ Len(Append(q, x)) = Len(q) + 1 /\ Len(q) \in Nat
           /\ Append(q, x)[Len(Append(q, x))] = x
           /\ \A i \in 1..Len(q) : Append(q, x)[i] = q[i]
OBVIOUS

\* A sequence without its head.
LEMMA Shortened ==
    ASSUME NEW S, NEW q \in Seq(S), q # << >>
    PROVE  /\ Head(q) = q[1] /\ 1 \in 1..Len(q) /\ Tail(q) \in Seq(S)
           /\ \A i \in 1..Len(Tail(q)) : i + 1 \in 1..Len(q) /\ Tail(q)[i] = q[i + 1]
OBVIOUS

\* The length word says the length of a token that it has the values for.
LEMMA TellLength ==
    ASSUME NEW n \in Nat, n >= 3
    PROVE  /\ (n - 3) % WordLimit \in Nat
           /\ n < WordLimit => ((n - 3) % WordLimit) + 3 = n
<1>1. n - 3 \in Nat /\ WordLimit \in Nat \ {0}
  BY WriterAssumption
<1> QED BY <1>1

\* What a finished token leaves.
LEMMA EndBuffer ==
    ASSUME NEW b \in Buffers, NEW at \in Nat, NEW n \in Nat,
           NEW e, NEW len \in Nat \cup {NoLength},
           at = b.pos + n, Fit(b, at, e), at <= b.size,
           len # NoLength => len + 2 <= n
    PROVE  LET c == IF len = NoLength THEN b ELSE Store(b, b.pos + len, 2)
               a == [c EXCEPT !.pos = @ + n]
           IN /\ a \in Buffers /\ a.pos = at /\ a.size = b.size
              /\ Fit(a, at, e)
<1> DEFINE c == IF len = NoLength THEN b ELSE Store(b, b.pos + len, 2)
           a == [c EXCEPT !.pos = @ + n]
<1>1. c \in Buffers /\ c.pos = b.pos /\ c.size = b.size /\ Fit(c, at, e)
  <2>1. CASE len = NoLength
    BY <2>1
  <2>2. CASE len # NoLength
    <3>1. /\ len \in Nat /\ b.pos + len \in Nat /\ b.pos + len + 2 <= b.size
          /\ b.pos \in Nat /\ b.size \in Nat /\ 2 \in Nat
      BY <2>2 DEF Buffers
    <3>2. \A p \in Nat : p \in e => p \in e \/ p \in (b.pos + len)..(b.pos + len + 2 - 1)
      OBVIOUS
    <3>3. b.size \in e => b.size \in e
      OBVIOUS
    <3>4. LET d == Store(b, b.pos + len, 2)
          IN d \in Buffers /\ d.pos = b.pos /\ d.size = b.size /\ Fit(d, at, e)
      BY <3>1, <3>2, <3>3, StoreFills, ZenonT(30)
    <3> QED BY <2>2, <3>4
  <2> QED BY <2>1, <2>2
<1> HIDE DEF c
<1>2. a \in Buffers /\ a.pos = at /\ a.size = b.size /\ a.held = c.held
  BY <1>1 DEF Buffers
<1>3. Fit(a, at, e)
  BY <1>1, <1>2 DEF Fit
<1> QED BY <1>2, <1>3 DEF c

\* The child buffer is finalised.
LEMMA EndTokenStep == IInv /\ EndToken => IInv'
<1> SUFFICES ASSUME IInv, EndToken PROVE IInv'
  OBVIOUS
<1> DEFINE told == Told(child)
           new  == [start |-> buf.pos, size |-> child.pos, told |-> told]
<1>1. /\ pc = "tokens" /\ child.open /\ todo = << >>
      /\ buf' = [IF child.length = NoLength THEN buf
                 ELSE Store(buf, buf.pos + child.length, 2)
                 EXCEPT !.pos = @ + child.pos]
      /\ tokens' = Append(tokens, new)
      /\ child' = NoChild
      /\ cols' = << >> /\ row' = << >> /\ filled' = 0 /\ rows' = 0
      /\ UNCHANGED <<late, pc, todo, tails, last, empties, cut, stream>>
  BY DEF EndToken, NoColumns
<1>2. /\ buf \in Buffers /\ child.pos \in Nat /\ child.pos # 0
      /\ child.length \in Nat \cup {NoLength}
      /\ Here = buf.pos + child.pos /\ Here \in Nat /\ Here # buf.size + 1
      /\ Fit(buf, Here, empties) /\ buf.size >= InitialSize
      /\ buf.pos \in Nat /\ buf.size \in Nat
      /\ child.length # NoLength =>
            child.length + 2 <= child.pos /\ child.pos >= 3
  <2>1. /\ buf \in Buffers /\ child.pos \in Nat
        /\ child.length \in Nat \cup {NoLength}
    BY DEF IInv, TypeOK, Buffers
  <2>2. /\ buf.pos \in Nat /\ buf.size \in Nat
        /\ Here = buf.pos + child.pos /\ Here \in Nat
    BY <2>1 DEF Buffers, Here, At
  <2>3. child.pos # 0
    BY <1>1 DEF IInv, Queue, QueueOK
  <2>4. /\ Fit(buf, Here, empties) /\ buf.size >= InitialSize
        /\ Here # buf.size + 1
    BY <1>1 DEF IInv, Built
  <2>5. child.length # NoLength =>
           child.length >= 1 /\ child.length + 2 <= child.pos
    BY DEF IInv, Places
  <2>6. child.length # NoLength => child.pos >= 3
    BY <2>1, <2>5
  <2> QED BY <2>1, <2>2, <2>3, <2>4, <2>5, <2>6
<1>3. Here <= buf.size
  BY <1>2 DEF Fit
<1>4. /\ buf' \in Buffers /\ buf'.pos = Here /\ buf'.size = buf.size
      /\ Fit(buf', Here, empties)
  <2> DEFINE len == child.length
             n == child.pos
             c == IF len = NoLength THEN buf ELSE Store(buf, buf.pos + len, 2)
             a == [c EXCEPT !.pos = @ + n]
  <2>1. /\ buf' = a /\ n \in Nat /\ len \in Nat \cup {NoLength}
        /\ len # NoLength => len + 2 <= n
        /\ Here = buf.pos + n
    BY <1>1, <1>2
  <2> HIDE DEF len, n
  <2>2. a \in Buffers /\ a.pos = Here /\ a.size = buf.size /\ Fit(a, Here, empties)
    BY <1>2, <1>3, <2>1, EndBuffer
  <2> QED BY <2>1, <2>2
<1>5. /\ NoChild \in [open : BOOLEAN, pos : Nat, length : Nat \cup {NoLength}]
      /\ ~NoChild.open /\ NoChild.pos = 0 /\ NoChild.length = NoLength
  BY DEF NoChild
<1>6. Here' = Here
  BY <1>1, <1>2, <1>4, <1>5 DEF Here, At
<1>7. /\ told \in Nat \cup {NoLength}
      /\ told # NoLength /\ child.pos < WordLimit => told + 3 = child.pos
  BY <1>2, TellLength DEF Told
<1> HIDE DEF told
<1>8. new \in [start : Nat, size : Nat, told : Nat \cup {NoLength}]
  BY <1>2, <1>7
<1>9. stream = << >> /\ cut = 0
  BY <1>1 DEF IInv, Sent
<1>10. TypeOK'
  <2>1. tokens' \in Seq([start : Nat, size : Nat, told : Nat \cup {NoLength}])
    BY <1>1, <1>8 DEF IInv, TypeOK
  <2>2. buf' \in [size : Nat, pos : Nat, held : SUBSET Nat] /\ cut' \in 0..buf'.pos
    BY <1>1, <1>2, <1>4, <1>9, SMTT(30) DEF Buffers
  <2>3. /\ cols' \in Seq(Columns) /\ row' \in Seq(Bytes)
        /\ filled' \in 0..Len(cols') /\ rows' \in 0..MaxRows
    BY <1>1, WriterAssumption
  <2> HIDE DEF new
  <2> QED BY <1>1, <1>5, <2>1, <2>2, <2>3 DEF IInv, TypeOK
<1>11. Built'
  BY <1>1, <1>2, <1>3, <1>4, <1>6 DEF Built
<1>12. Queue'
  BY <1>1, <1>5 DEF Queue, QueueOK
<1>13. Places'
  <2>1. Placed(tails, buf.pos) /\ tails \in Seq([at : Nat, size : 0..InitialSize])
    BY DEF IInv, Places, TypeOK
  <2>2. buf.pos <= Here
    BY <1>2
  <2>3. Placed(tails, Here)
    BY <1>2, <2>1, <2>2, PlacedOn
  <2>4. Placed(tails', buf'.pos)
    BY <1>1, <1>4, <2>3
  <2> QED BY <1>1, <1>5, <2>4 DEF Places
<1>14. Listed'
  <2> HIDE DEF new
  <2>1. /\ tokens \in Seq([start : Nat, size : Nat, told : Nat \cup {NoLength}])
        /\ Len(tokens') = Len(tokens) + 1 /\ Len(tokens) \in Nat
        /\ tokens' # << >> /\ tokens'[Len(tokens')] = new
        /\ \A i \in 1..Len(tokens) : tokens'[i] = tokens[i]
    <3>1. tokens \in Seq([start : Nat, size : Nat, told : Nat \cup {NoLength}])
      BY DEF IInv, TypeOK
    <3> QED BY <1>1, <1>8, <3>1, Appended
  <2>2. new.start = buf.pos /\ new.size = child.pos /\ new.told = told
    BY DEF new
  <2>3. buf.pos = IF tokens = << >> THEN 0
                  ELSE tokens[Len(tokens)].start + tokens[Len(tokens)].size
    BY <1>1 DEF IInv, Listed
  <2>4. ASSUME NEW i \in 1..Len(tokens')
        PROVE  /\ tokens'[i].start = IF i = 1 THEN 0
                      ELSE tokens'[i - 1].start + tokens'[i - 1].size
               /\ tokens'[i].told # NoLength /\ tokens'[i].size < WordLimit =>
                      tokens'[i].told + 3 = tokens'[i].size
    <3>1. CASE i \in 1..Len(tokens)
      <4>1. i = 1 \/ i - 1 \in 1..Len(tokens)
        BY <2>1, <3>1
      <4> QED BY <2>1, <3>1, <4>1, ZenonT(30) DEF IInv, Listed, Navigable
    <3>2. CASE i = Len(tokens) + 1
      <4>1. tokens'[i] = new
        BY <2>1, <3>2
      <4>2. i = 1 <=> tokens = << >>
        BY <2>1, <3>2
      <4>3. i # 1 => i - 1 = Len(tokens) /\ tokens'[i - 1] = tokens[Len(tokens)]
        BY <2>1, <3>2
      <4> QED BY <1>7, <2>2, <2>3, <4>1, <4>2, <4>3
    <3> QED BY <2>1, <3>1, <3>2
  <2>5. buf'.pos = tokens'[Len(tokens')].start + tokens'[Len(tokens')].size
    BY <1>2, <1>4, <2>1, <2>2
  <2> QED BY <1>1, <2>1, <2>4, <2>5 DEF Listed, Navigable
<1>15. Sent'
  <2>1. /\ stream' = << >> /\ cut' = 0 /\ pc' = "tokens"
        /\ Len(stream') * PacketBody = 0
    BY <1>1, <1>9, WriterAssumption
  <2> QED BY <2>1 DEF Sent, PacketsTile
<1> QED BY <1>10, <1>11, <1>12, <1>13, <1>14, <1>15 DEF IInv

\* Data of a pointer are put at the end.
LEMMA PutTailStep == IInv /\ PutTail => IInv'
<1> SUFFICES ASSUME IInv, PutTail PROVE IInv'
  OBVIOUS
<1> DEFINE t     == Head(tails)
           roomy == MakeRoom(buf, buf.pos, t.size)
           put   == Store(roomy, t.at, 2)
           both  == Store(put, buf.pos, t.size)
<1>1. /\ pc = "prelogin" /\ todo = << >> /\ tails # << >>
      /\ buf' = [both EXCEPT !.pos = @ + t.size]
      /\ tails' = Tail(tails)
      /\ UNCHANGED <<late, pc, child, todo, cols, row, filled, rows, tokens, last,
                     empties, cut, stream>>
  BY DEF PutTail
<1>2. /\ tails \in Seq([at : Nat, size : 0..InitialSize])
      /\ 1 \in 1..Len(tails) /\ t = tails[1]
      /\ tails' \in Seq([at : Nat, size : 0..InitialSize])
      /\ \A i \in 1..Len(tails') : i + 1 \in 1..Len(tails) /\ tails'[i] = tails[i + 1]
  <2>1. tails \in Seq([at : Nat, size : 0..InitialSize])
    BY DEF IInv, TypeOK
  <2> QED BY <1>1, <2>1, Shortened
<1>3. /\ t.at \in Nat /\ t.size \in Nat /\ t.size <= InitialSize
      /\ t.at + 2 <= buf.pos
  BY <1>2, TailPlace DEF IInv, Places, Placed
<1> HIDE DEF t
<1>4. ~child.open /\ child = NoChild /\ child.pos = 0
  BY <1>1 DEF IInv, Places, NoChild
<1>5. /\ buf \in Buffers /\ empties \in SUBSET Nat /\ Here = buf.pos
      /\ buf.pos \in Nat /\ buf.size \in Nat
  BY <1>4 DEF IInv, TypeOK, Buffers, Here, At
<1>6. Fit(buf, buf.pos, empties) /\ buf.size >= InitialSize /\ buf.pos # buf.size + 1
  BY <1>1, <1>5 DEF IInv, Built
<1>7. buf.pos <= buf.size /\ t.size <= buf.size
  BY <1>3, <1>5, <1>6, WriterAssumption DEF Fit
<1>8. /\ roomy \in Buffers /\ roomy.pos = buf.pos /\ roomy.size >= buf.size
      /\ roomy.size >= buf.pos + t.size /\ Fit(roomy, buf.pos, empties)
  <2>1. Fits(buf, buf.pos, t.size) /\ buf.size >= 1
    BY <1>3, <1>5, <1>6, <1>7, MakeRoomFits, WriterAssumption
  <2> QED BY <1>3, <1>5, <1>6, <2>1, MakeRoomKeeps DEF Fits
<1> HIDE DEF roomy
<1>9. /\ put \in Buffers /\ put.pos = buf.pos /\ put.size = roomy.size
      /\ Fit(put, buf.pos, empties)
  <2>1. /\ t.at + 2 <= roomy.size /\ roomy.size \in Nat /\ 2 \in Nat
        /\ \A p \in Nat : p \in empties => p \in empties \/ p \in t.at..(t.at + 2 - 1)
        /\ roomy.size \in empties => roomy.size \in empties
    BY <1>3, <1>5, <1>7, <1>8 DEF Buffers
  <2> QED BY <1>3, <1>5, <1>8, <2>1, StoreFills, ZenonT(30)
<1> HIDE DEF put
<1>10. /\ both \in Buffers /\ both.pos = buf.pos /\ both.size = roomy.size
       /\ Fit(both, buf.pos + t.size, empties)
  <2>1. buf.pos + t.size <= put.size
    BY <1>8, <1>9
  <2> QED BY <1>3, <1>5, <1>9, <2>1, StoreHolds
<1> HIDE DEF both
<1>11. /\ buf' \in Buffers /\ buf'.pos = buf.pos + t.size
       /\ buf'.size = roomy.size /\ buf'.held = both.held
  BY <1>1, <1>3, <1>10 DEF Buffers
<1>12. Here' = buf'.pos
  BY <1>1, <1>4, <1>11 DEF Here, At, Buffers
<1>13. /\ Fit(buf', Here', empties) /\ buf'.size >= InitialSize
       /\ Here' # buf'.size + 1
  <2>1. Fit(buf', buf.pos + t.size, empties)
    BY <1>10, <1>11 DEF Fit
  <2>2. roomy.size \in Nat /\ roomy.size >= InitialSize
    BY <1>5, <1>6, <1>8, WriterAssumption DEF Buffers
  <2>3. buf.pos + t.size # roomy.size + 1
    BY <1>3, <1>5, <1>8, <2>2
  <2> QED BY <1>11, <1>12, <2>1, <2>2, <2>3
<1>14. stream = << >> /\ cut = 0 /\ tokens = << >>
  BY <1>1 DEF IInv, Sent, Listed
<1>15. TypeOK'
  <2>1. buf' \in [size : Nat, pos : Nat, held : SUBSET Nat] /\ 0 \in 0..buf'.pos
    BY <1>11 DEF Buffers
  <2> QED BY <1>1, <1>2, <1>14, <2>1 DEF IInv, TypeOK
<1>16. Built'
  BY <1>1, <1>13 DEF Built
<1>17. Queue'
  BY <1>1 DEF IInv, Queue
<1>18. Places'
  <2>1. Placed(tails', buf.pos)
    <3> SUFFICES ASSUME NEW i \in 1..Len(tails') PROVE tails'[i].at + 2 <= buf.pos
      BY DEF Placed
    <3>1. i + 1 \in 1..Len(tails) /\ tails'[i] = tails[i + 1]
      BY <1>2
    <3>2. \A j \in 1..Len(tails) : tails[j].at + 2 <= buf.pos
      BY DEF IInv, Places, Placed
    <3> QED BY <3>1, <3>2
  <2>2. buf.pos <= buf'.pos /\ buf'.pos \in Nat
    BY <1>3, <1>5, <1>11
  <2>3. Placed(tails', buf'.pos)
    BY <1>2, <1>5, <2>1, <2>2, PlacedOn
  <2> QED BY <1>1, <1>4, <2>3 DEF IInv, Places
<1>19. Listed'
  BY <1>1, <1>14 DEF Listed, Navigable
<1>20. Sent'
  <2>1. /\ stream' = << >> /\ cut' = 0 /\ pc' = "prelogin"
        /\ Len(stream') * PacketBody = 0
    BY <1>1, <1>14, WriterAssumption
  <2> QED BY <2>1 DEF Sent, PacketsTile
<1> QED BY <1>15, <1>16, <1>17, <1>18, <1>19, <1>20 DEF IInv

\* The response is complete.
LEMMA FinishStep == IInv /\ Finish => IInv'
<1> SUFFICES ASSUME IInv, Finish PROVE IInv'
  OBVIOUS
<1>1. /\ pc \in {"prelogin", "tokens"} /\ pc' = "cut" /\ todo = << >> /\ ~child.open
      /\ UNCHANGED <<late, buf, child, todo, tails, cols, row, filled, rows, tokens,
                     last, empties, cut, stream>>
  BY DEF Finish, building, IInv, Places
<1>2. TypeOK'
  BY <1>1 DEF IInv, TypeOK
<1>3. Built'
  BY <1>1 DEF IInv, Built, Here, At
<1>4. Queue'
  BY <1>1 DEF IInv, Queue, QueueOK
<1>5. Places'
  BY <1>1 DEF IInv, Places
<1>6. Listed'
  BY <1>1 DEF IInv, Listed, Navigable
<1>7. Sent'
  BY <1>1 DEF IInv, Sent, PacketsTile
<1> QED BY <1>2, <1>3, <1>4, <1>5, <1>6, <1>7 DEF IInv

\* One packet is cut off.
LEMMA WritePacketStep == IInv /\ WritePacket => IInv'
<1> SUFFICES ASSUME IInv, WritePacket PROVE IInv'
  OBVIOUS
<1> DEFINE full == Remaining > PacketBody
           size == IF full THEN PacketBody ELSE Remaining
           new  == [first |-> cut, size |-> size, eom |-> ~full]
<1>1. /\ pc = "cut" /\ Remaining > 0
      /\ stream' = Append(stream, new) /\ cut' = cut + size
      /\ UNCHANGED <<late, pc, buf, child, todo, tails, cols, row, filled, rows,
                     tokens, last, empties>>
  BY DEF WritePacket, building
<1>2. /\ cut \in Nat /\ buf.pos \in Nat /\ cut <= buf.pos
      /\ PacketBody \in Nat /\ PacketBody > 0 /\ Remaining = buf.pos - cut
  BY WriterAssumption DEF IInv, TypeOK, Remaining
<1>3. /\ size \in 1..PacketBody /\ cut + size \in 0..buf.pos
      /\ ~full <=> cut + size = buf.pos
      /\ full => size = PacketBody
  BY <1>1, <1>2
<1>4. cut = Len(stream) * PacketBody
  BY <1>1, <1>2 DEF IInv, Sent
<1>5. /\ new \in [first : Nat, size : Nat, eom : BOOLEAN]
      /\ new.first = cut /\ new.size = size /\ new.eom = ~full
  BY <1>2, <1>3
<1> HIDE DEF size, full
<1>6. /\ stream \in Seq([first : Nat, size : Nat, eom : BOOLEAN])
      /\ stream' \in Seq([first : Nat, size : Nat, eom : BOOLEAN])
      /\ Len(stream') = Len(stream) + 1 /\ Len(stream) \in Nat
      /\ stream' # << >> /\ stream'[Len(stream')] = new
      /\ \A i \in 1..Len(stream) : stream'[i] = stream[i]
  <2>1. stream \in Seq([first : Nat, size : Nat, eom : BOOLEAN])
    BY DEF IInv, TypeOK
  <2> HIDE DEF new
  <2> QED BY <1>1, <1>5, <2>1, Appended
<1> HIDE DEF new
<1>7. TypeOK'
  BY <1>1, <1>3, <1>6 DEF IInv, TypeOK
<1>8. Built' /\ Queue' /\ Places' /\ Listed'
  BY <1>1 DEF IInv, Built, Here, At, Queue, Places, Listed, Navigable
<1>9. PacketsTile'
  <2>1. ASSUME NEW i \in 1..Len(stream')
        PROVE  /\ stream'[i].first = (i - 1) * PacketBody
               /\ stream'[i].size \in 1..PacketBody
               /\ stream'[i].eom <=> stream'[i].first + stream'[i].size = buf.pos
    <3>1. CASE i \in 1..Len(stream)
      BY <1>6, <3>1 DEF IInv, Sent, PacketsTile
    <3>2. CASE i = Len(stream) + 1
      <4>1. stream'[i] = new /\ i - 1 = Len(stream)
        BY <1>6, <3>2
      <4> QED BY <1>3, <1>4, <1>5, <4>1
    <3> QED BY <1>6, <3>1, <3>2
  <2> QED BY <1>1, <2>1 DEF PacketsTile
<1>10. Sent'
  <2>1. cut' = stream'[Len(stream')].first + stream'[Len(stream')].size
    BY <1>1, <1>5, <1>6
  <2>2. cut' < buf.pos => cut' = Len(stream') * PacketBody
    <3>1. ASSUME full
          PROVE  cut' = Len(stream') * PacketBody
      <4>1. (Len(stream) + 1) * PacketBody = Len(stream) * PacketBody + PacketBody
        BY <1>2, <1>6
      <4> QED BY <1>1, <1>3, <1>4, <1>6, <3>1, <4>1
    <3>2. ~full => cut' = buf.pos
      BY <1>1, <1>3
    <3> QED BY <1>2, <3>1, <3>2
  <2> QED BY <1>1, <1>6, <1>9, <2>1, <2>2 DEF Sent
<1> QED BY <1>7, <1>8, <1>10 DEF IInv

\* writepacket returns.
LEMMA ReturnStep == IInv /\ Return => IInv'
<1> SUFFICES ASSUME IInv, Return PROVE IInv'
  OBVIOUS
<1>1. /\ pc = "cut" /\ pc' = "idle" /\ ~child.open /\ todo = << >>
      /\ UNCHANGED <<late, buf, child, todo, tails, cols, row, filled, rows, tokens,
                     last, empties, cut, stream>>
  BY DEF Return, building, IInv, Places
<1>2. cut = buf.pos
  BY DEF Return, Remaining, IInv, TypeOK
<1>3. TypeOK'
  BY <1>1 DEF IInv, TypeOK
<1>4. Built'
  BY <1>1 DEF IInv, Built, Here, At
<1>5. Queue' /\ Places'
  BY <1>1 DEF IInv, Queue, QueueOK, Places
<1>6. Listed'
  BY <1>1 DEF IInv, Listed, Navigable
<1>7. Sent'
  <2>1. stream # << >> => Len(stream) \in 1..Len(stream) /\ stream[Len(stream)].eom
    <3>1. ASSUME stream # << >>
          PROVE  Len(stream) \in 1..Len(stream)
      BY <3>1 DEF IInv, TypeOK
    <3> QED BY <1>2, <3>1 DEF IInv, Sent, PacketsTile
  <2>2. \A i \in 1..Len(stream) : i = Len(stream) => stream[i].eom
    <3>1. \A i \in 1..Len(stream) : stream # << >>
      OBVIOUS
    <3> QED BY <2>1, <3>1
  <2> QED BY <1>1, <1>2, <2>2 DEF IInv, Sent, PacketsTile
<1> QED BY <1>3, <1>4, <1>5, <1>6, <1>7 DEF IInv

----------------------------------------------------------------------------
(* The theorems. *)

\* Any step that queues the additions of a token.
LEMMA TokenStep == IInv /\ Token => IInv'
<1> SUFFICES ASSUME IInv, Token PROVE IInv'
  OBVIOUS
<1>1. CASE BeginMessage
  BY <1>1, MessageQueue, BeginStep DEF BeginMessage
<1>2. CASE BeginLoginAck
  BY <1>2, LoginAckQueue, BeginStep DEF BeginLoginAck
<1>3. CASE BeginDatabase
  BY <1>3, DatabaseQueue, BeginStep DEF BeginDatabase
<1>4. CASE BeginCollation
  BY <1>4, CollationQueue, BeginStep DEF BeginCollation
<1>5. CASE BeginDone
  BY <1>5, DoneQueue, BeginStep DEF BeginDone
<1>6. CASE BeginResults
  BY <1>6, ResultsQueue, BeginStep DEF BeginResults
<1>7. CASE Column \/ Row \/ NextCell
  BY <1>7, ResultStep
<1> QED BY <1>1, <1>2, <1>3, <1>4, <1>5, <1>6, <1>7 DEF Token

\* After an addition that was written behind the block nothing more happens.
Ended == pc = "overrun" /\ TypeOK /\ Whole /\ Navigable /\ PacketsTile

\* What holds in every state.
AlwaysInv == (pc # "overrun" /\ IInv) \/ Ended

\* The parts of the invariant hold up to an addition that does not fit.
LEMMA FittingStep ==
    ASSUME IInv, [Next]_vars, ~Overrun
    PROVE  IInv'
<1>1. CASE StartPrelogin \/ StartTokens
  BY <1>1, StartStep
<1>2. CASE Token
  BY <1>2, TokenStep
<1>3. CASE Addition
  BY <1>3, AddStep, AddLengthStep, AddCountedStep, AddPointerStep DEF Addition
<1>4. CASE EndToken
  BY <1>4, EndTokenStep
<1>5. CASE PutTail
  BY <1>5, PutTailStep
<1>6. CASE Finish
  BY <1>6, FinishStep
<1>7. CASE WritePacket
  BY <1>7, WritePacketStep
<1>8. CASE Return
  BY <1>8, ReturnStep
<1>9. CASE UNCHANGED vars
  <2>1. TypeOK'
    BY <1>9 DEF vars, building, IInv, TypeOK
  <2>2. Built' /\ Queue' /\ Places'
    BY <1>9 DEF vars, building, IInv, Built, Here, At, Queue, Places
  <2>3. Listed' /\ Sent'
    BY <1>9 DEF vars, building, IInv, Listed, Navigable, Sent, PacketsTile
  <2> QED BY <2>1, <2>2, <2>3 DEF IInv
<1> QED BY <1>1, <1>2, <1>3, <1>4, <1>5, <1>6, <1>7, <1>8, <1>9 DEF Next

\* No other step leads to "overrun" or away from it.
LEMMA OnlyOverrun ==
    ASSUME [Next]_vars
    PROVE  /\ ~Overrun => (pc' = "overrun" <=> pc = "overrun")
           /\ pc = "overrun" => UNCHANGED vars
<1>1. CASE StartPrelogin \/ StartTokens \/ EndToken \/ PutTail \/ Finish
  BY <1>1 DEF StartPrelogin, StartTokens, EndToken, PutTail, Finish
<1>2. CASE Token
  BY <1>2 DEF Token, BeginMessage, BeginLoginAck, BeginDatabase,
              BeginCollation, BeginDone, BeginResults, Begin, Column, Row, NextCell
<1>3. CASE Addition
  BY <1>3 DEF Addition, Add, AddLength, AddCounted, AddPointer, Added, Overrun
<1>4. CASE WritePacket \/ Return
  BY <1>4 DEF WritePacket, Return
<1>5. CASE UNCHANGED vars
  BY <1>5 DEF vars
<1> QED BY <1>1, <1>2, <1>3, <1>4, <1>5 DEF Next

\* What holds when an addition does not fit goes on to hold.
LEMMA OverrunStep == IInv /\ Overrun => Ended'
<1> SUFFICES ASSUME IInv, Overrun PROVE Ended'
  OBVIOUS
<1>1. /\ pc' = "overrun" /\ pc # "overrun" /\ todo # << >>
      /\ UNCHANGED <<late, buf, child, todo, tails, cols, row, filled, rows,
                     tokens, last, empties, cut, stream>>
  BY DEF Overrun, building
<1>2. TypeOK'
  BY <1>1 DEF IInv, TypeOK
<1>3. Whole'
  BY <1>1 DEF IInv, Built, Fit, Whole, Here, At
<1>4. Navigable' /\ PacketsTile'
  BY <1>1 DEF IInv, Listed, Navigable, Sent, PacketsTile
<1> QED BY <1>1, <1>2, <1>3, <1>4 DEF Ended

\* The invariant holds in every state, up to the end of a behaviour.
THEOREM Invariance == Spec => []AlwaysInv
<1>1. Init => AlwaysInv
  BY InitInvariant DEF Init, AlwaysInv
<1>2. AlwaysInv /\ [Next]_vars => AlwaysInv'
  <2> SUFFICES ASSUME AlwaysInv, [Next]_vars PROVE AlwaysInv'
    OBVIOUS
  <2>1. CASE pc # "overrun" /\ IInv /\ Overrun
    BY <2>1, OverrunStep DEF AlwaysInv
  <2>2. CASE pc # "overrun" /\ IInv /\ ~Overrun
    BY <2>2, FittingStep, OnlyOverrun DEF AlwaysInv
  <2>3. CASE Ended
    <3>1. UNCHANGED vars
      BY <2>3, OnlyOverrun DEF Ended
    <3>2. TypeOK' /\ Whole' /\ Navigable' /\ PacketsTile' /\ pc' = "overrun"
      BY <2>3, <3>1 DEF Ended, vars, building, TypeOK, Whole, Here, At,
                        Navigable, PacketsTile
    <3> QED BY <3>2 DEF AlwaysInv, Ended
  <2> QED BY <2>1, <2>2, <2>3 DEF AlwaysInv
<1> QED BY <1>1, <1>2, PTL DEF Spec

\* Every variable keeps its type: no more is cut off than was built.
THEOREM TypeCorrect == Spec => []TypeOK
<1>1. AlwaysInv => TypeOK
  BY DEF AlwaysInv, IInv, Ended
<1> QED BY <1>1, Invariance, PTL

\* No byte of a response is lost however often make_room replaces the block,
\* but for the second byte of an empty message's count.
THEOREM WholeCorrect == Spec => []Whole
<1>1. AlwaysInv => Whole
  BY DEF AlwaysInv, Ended, IInv, Built, Fit, Whole
<1> QED BY <1>1, Invariance, PTL

\* The tokens that writepacket has built can be followed by their lengths.
THEOREM NavigableCorrect == Spec => []Navigable
<1>1. AlwaysInv => Navigable
  BY DEF AlwaysInv, Ended, IInv, Listed
<1> QED BY <1>1, Invariance, PTL

\* The packets that writepacket sends cover the response exactly.
THEOREM PacketsTileCorrect == Spec => []PacketsTile
<1>1. AlwaysInv => PacketsTile
  BY DEF AlwaysInv, Ended, IInv, Sent
<1> QED BY <1>1, Invariance, PTL

\* What make_room makes is enough for every addition that is no longer than
\* the block: nothing else is written behind it.
THEOREM OverrunOnlyByLongCorrect == Spec => OverrunOnlyByLong
<1>1. AlwaysInv /\ [Next]_vars =>
         [pc # "overrun" /\ pc' = "overrun" => Extent(Head(todo)) > buf.size]_vars
  <2> SUFFICES ASSUME AlwaysInv, [Next]_vars, pc # "overrun", pc' = "overrun"
               PROVE  Extent(Head(todo)) > buf.size
    OBVIOUS
  <2>1. IInv /\ todo # << >> /\ ~AdditionFits(Head(todo))
    BY OnlyOverrun DEF AlwaysInv, Ended, Overrun
  <2> DEFINE f == Head(todo)
  <2>2. /\ buf \in Buffers /\ Here \in Nat /\ buf.size \in Nat /\ buf.size >= 8
        /\ Here <= buf.size + 1 /\ f \in Fields
        /\ f # Short(NoText) => Here <= buf.size
    BY <2>1, Due, WriterAssumption DEF Fit
  <2>3. CASE f.kind \in {"bytes", "length", "pointer"}
    <3>1. f # Short(NoText) /\ ~Fits(buf, Here, Extent(f))
      BY <2>1, <2>3, KindOfData DEF AdditionFits
    <3>2. Extent(f) \in Nat
      BY <2>2, <2>3, Kinds DEF Extent, Bytes
    <3> HIDE DEF f
    <3> QED BY <2>2, <3>1, <3>2, MakeRoomFits DEF f
  <2>4. CASE f.kind = "text"
    <3> DEFINE w == f.wide
               y == f.bytes
               c == f.chars
               counted == MakeRoom(buf, Here, 1)
    <3>1. /\ w \in {1, 2} /\ y \in Nat /\ c \in Nat /\ c <= y
          /\ Extent(f) = w + 2 * c
      BY <2>2, <2>4, Kinds DEF Counts, Extent
    <3>2. ~TextFits(buf, Here, w, y, c)
      BY <2>1, <2>4 DEF AdditionFits
    <3>3. y # 0
      BY <3>2 DEF TextFits
    <3>4. f # Short(NoText)
      BY <3>3 DEF Short, Text, NoText
    <3>5. /\ counted.size \in Nat /\ counted.size >= buf.size
          /\ counted.size >= Here + 1
      BY <2>2, <3>4 DEF MakeRoom, Grown, Buffers
    <3>6. Here + w + 2 * c > MakeRoom(counted, Here + w, 2 * y).size
      BY <2>2, <3>1, <3>2, <3>5 DEF TextFits, MakeRoom, Grown
    <3> HIDE DEF w, y, c, counted
    <3>7. w + 2 * c > buf.size
      BY <2>2, <3>1, <3>5, <3>6 DEF MakeRoom, Grown
    <3> QED BY <3>1, <3>7
  <2>5. f.kind \in {"bytes", "length", "pointer", "text"}
    BY <2>2 DEF Fields, Bytes, Counts, Pointers, LengthWord
  <2> QED BY <2>3, <2>4, <2>5
<1> QED BY <1>1, Invariance, PTL DEF Spec, OverrunOnlyByLong

----------------------------------------------------------------------------
(* Rows. *)

\* The invariant of rows: the cells so far can be read, and nothing else is
\* in the row.
RowInv == RowsReadable /\ (filled = 0 => row = << >>)

\* A row without cells has been read.
LEMMA NothingToRead ==
    ASSUME NEW wide, NEW cs, NEW r, r = << >>
    PROVE  Readable(wide, cs, r, 0)
<1> DEFINE at == [k \in 0..0 |-> 1]
<1>1. Len(r) + 1 = 1
  OBVIOUS
<1>2. at \in [0..0 -> 1..(Len(r) + 1)] /\ at[0] = 1
  BY <1>1
<1>3. \A k \in 1..0 : ReadsAs(wide, cs[k], r, at[k - 1], at[k])
  OBVIOUS
<1> HIDE DEF at
<1> QED BY <1>1, <1>2, <1>3 DEF Readable

\* A client that has read n cells reads one more.
LEMMA OneMore ==
    ASSUME NEW wide, NEW cs, NEW r \in Seq(Bytes), NEW c \in Seq(Bytes),
           NEW n \in Nat, Readable(wide, cs, r, n),
           ReadsAs(wide, cs[n + 1], r \o c, Len(r) + 1, Len(r) + Len(c) + 1)
    PROVE  Readable(wide, cs, r \o c, n + 1)
<1> DEFINE s == r \o c
<1>1. Len(s) = Len(r) + Len(c) /\ Len(r) \in Nat /\ Len(c) \in Nat
  BY RowGrows
<1>2. PICK at \in [0..n -> 1..(Len(r) + 1)] :
         /\ at[0] = 1 /\ at[n] = Len(r) + 1
         /\ \A k \in 1..n : ReadsAs(wide, cs[k], r, at[k - 1], at[k])
  BY DEF Readable
<1> DEFINE to == [k \in 0..(n + 1) |-> IF k = n + 1 THEN Len(s) + 1 ELSE at[k]]
<1>3. \A k \in 0..n : to[k] = at[k] /\ at[k] \in 1..(Len(r) + 1)
  BY <1>2
<1>4. to[n + 1] = Len(s) + 1
  OBVIOUS
<1>5. to \in [0..(n + 1) -> 1..(Len(s) + 1)]
  <2> SUFFICES ASSUME NEW k \in 0..(n + 1) PROVE to[k] \in 1..(Len(s) + 1)
    OBVIOUS
  <2>1. CASE k = n + 1
    BY <1>1, <1>4, <2>1
  <2>2. CASE k \in 0..n
    BY <1>1, <1>3, <2>2
  <2> QED BY <2>1, <2>2
<1> HIDE DEF to, s
<1>6. ASSUME NEW k \in 1..(n + 1)
      PROVE  ReadsAs(wide, cs[k], s, to[k - 1], to[k])
  <2>1. CASE k = n + 1
    <3>1. k - 1 = n /\ n \in 0..n
      BY <2>1
    <3>2. to[k - 1] = Len(r) + 1 /\ to[k] = Len(r) + Len(c) + 1
      BY <1>1, <1>2, <1>3, <1>4, <2>1, <3>1
    <3> QED BY <2>1, <3>2 DEF s
  <2>2. CASE k \in 1..n
    <3>1. k \in 0..n /\ k - 1 \in 0..n
      BY <2>2
    <3>2. ReadsAs(wide, cs[k], r, at[k - 1], at[k])
      BY <1>2, <2>2
    <3>3. at[k - 1] \in Nat /\ at[k] \in Nat
      BY <1>3, <3>1
    <3>4. ReadsAs(wide, cs[k], s, at[k - 1], at[k])
      BY <3>2, <3>3, ReadsStill DEF s
    <3> QED BY <1>3, <3>1, <3>4
  <2> QED BY <2>1, <2>2
<1>7. to[0] = 1
  BY <1>2, <1>3
<1>8. Readable(wide, cs, s, n + 1)
  BY <1>4, <1>5, <1>6, <1>7 DEF Readable
<1> QED BY <1>8 DEF s

\* The cell of an empty value in chunks is four empty words.
LEMMA EmptyCell ==
    ASSUME NEW wide \in BOOLEAN, NEW col \in Columns, col.type \in StringTypes,
           Chunked(wide, col), NEW n \in Nat, n = 0,
           NEW c, c = Cell(wide, col, FALSE, n)
    PROVE  Len(c) = 4 /\ \A k \in 1..3 : c[k] = Field(4, 0)
<1>1. c = StringCell(wide, col, n)
  BY FixedTypes DEF Cell, StringTypes, Unsent
<1>2. LET d == StringCell(wide, col, n) IN
      /\ d[1] = Field(4, n) /\ d[2] = Field(4, 0) /\ d[3] = Field(4, n)
      /\ Len(d) = 4
  BY StringCells
<1>3. \A k \in 1..3 : k = 1 \/ k = 2 \/ k = 3
  OBVIOUS
<1> QED BY <1>1, <1>2, <1>3

\* A column whose cells no client can read.
Wrong(wide, col) == col.type \in Unsent \/ Misannounced(wide, col)

\* What is wrong in a row stays in it.
LEMMA RowStays ==
    ASSUME NEW r \in Seq(Bytes), NEW c \in Seq(Bytes), NEW s, s = r \o c
    PROVE  /\ EmptyInChunks(r) => EmptyInChunks(s)
           /\ LongInWord(r) => LongInWord(s)
<1>1. /\ Len(s) = Len(r) + Len(c) /\ Len(r) \in Nat /\ Len(c) \in Nat
      /\ \A i \in 1..Len(r) : s[i] = r[i]
  BY RowGrows
<1>2. ASSUME EmptyInChunks(r) PROVE EmptyInChunks(s)
  <2>1. PICK k \in 1..(Len(r) - 2) : \A i \in k..(k + 2) : r[i] = Field(4, 0)
    BY <1>2 DEF EmptyInChunks
  <2>2. k \in 1..(Len(s) - 2) /\ \A i \in k..(k + 2) : i \in 1..Len(r)
    BY <1>1
  <2>3. \A i \in k..(k + 2) : s[i] = Field(4, 0)
    BY <1>1, <2>1, <2>2
  <2> QED BY <2>2, <2>3 DEF EmptyInChunks
<1>3. ASSUME LongInWord(r) PROVE LongInWord(s)
  <2>1. PICK i \in 2..Len(r) : r[i - 1].size = 2 /\ r[i].size >= NullWord
    BY <1>3 DEF LongInWord
  <2>2. i \in 2..Len(s) /\ i \in 1..Len(r) /\ i - 1 \in 1..Len(r)
    BY <1>1
  <2> QED BY <1>1, <2>1, <2>2 DEF LongInWord
<1> QED BY <1>2, <1>3

\* A cell more.
LEMMA NextCellRow == TypeOK /\ RowInv /\ NextCell => RowInv'
<1> SUFFICES ASSUME TypeOK, RowInv, NextCell PROVE RowInv'
  OBVIOUS
<1>1. PICK isnull \in BOOLEAN, n \in Sizes :
         /\ row' = row \o Cell(late, cols[filled + 1], isnull, n)
         /\ filled' = filled + 1 /\ UNCHANGED <<late, cols>>
  BY DEF NextCell
<1>0. n \in Nat
  BY Lengths
<1> DEFINE col == cols[filled + 1]
           c == Cell(late, col, isnull, n)
<1>2. /\ filled + 1 \in 1..Len(cols) /\ col \in Columns /\ late \in BOOLEAN
      /\ row \in Seq(Bytes) /\ filled \in Nat
  BY DEF NextCell, RowDone, TypeOK
<1>3. c \in Seq(Bytes)
  <2>1. \A wide \in BOOLEAN : late = wide => Cell(wide, col, isnull, n) \in Seq(Bytes)
    BY <1>2, CellQueue
  <2> QED BY <1>2, <2>1
<1> HIDE DEF c, col
<1>4. row' = row \o c
  BY <1>1 DEF c, col
<1>5. /\ Len(row') = Len(row) + Len(c) /\ Len(row) \in Nat /\ Len(c) \in Nat
      /\ \A i \in 1..Len(row) : row'[i] = row[i]
      /\ \A i \in 1..Len(c) : row'[Len(row) + i] = c[i]
  BY <1>2, <1>3, <1>4, RowGrows
<1>6. CASE \E k \in 1..filled : Wrong(late, cols[k])
  <2>1. \E k \in 1..(filled + 1) : Wrong(late, cols[k])
    BY <1>2, <1>6
  <2> QED BY <1>1, <1>2, <2>1 DEF RowInv, RowsReadable, Wrong
<1>7. CASE Wrong(late, col)
  <2>1. \E k \in 1..(filled + 1) : Wrong(late, cols[k])
    BY <1>2, <1>7 DEF col
  <2> QED BY <1>1, <1>2, <2>1 DEF RowInv, RowsReadable, Wrong
<1>8. CASE EmptyInChunks(row) \/ LongInWord(row)
  <2>1. EmptyInChunks(row') \/ LongInWord(row')
    BY <1>2, <1>3, <1>4, <1>8, RowStays
  <2> QED BY <1>1, <1>2, <2>1 DEF RowInv, RowsReadable
<1>9. CASE col.type \in StringTypes /\ Chunked(late, col) /\ ~isnull /\ n = 0
  <2>1. Len(c) = 4 /\ \A k \in 1..3 : c[k] = Field(4, 0)
    <3>1. c = Cell(late, col, FALSE, n) /\ n \in Nat
      BY <1>0, <1>9 DEF c
    <3> QED BY <1>2, <1>9, <3>1, EmptyCell
  <2>2. Len(row) + 1 \in 1..(Len(row') - 2)
    BY <1>5, <2>1
  <2>3. ASSUME NEW i \in (Len(row) + 1)..(Len(row) + 1 + 2)
        PROVE  row'[i] = Field(4, 0)
    <3>1. /\ i - Len(row) \in 1..3 /\ i - Len(row) \in 1..Len(c)
          /\ Len(row) + (i - Len(row)) = i
      BY <1>5, <2>1
    <3>2. row'[i] = c[i - Len(row)]
      BY <1>5, <3>1
    <3> QED BY <2>1, <3>1, <3>2
  <2>4. EmptyInChunks(row')
    BY <2>2, <2>3 DEF EmptyInChunks
  <2> QED BY <1>1, <1>2, <2>4 DEF RowInv, RowsReadable
<1>11. CASE col.type \in StringTypes /\ ~Chunked(late, col) /\ ~isnull /\ n >= NullWord
  <2>1. c = StringCell(late, col, n) /\ n \in Nat /\ n # 0
    BY <1>11, FixedTypes, Lengths DEF c, Cell, StringTypes, Unsent
  <2>2. Len(c) = 2 /\ c[1] = Field(2, n % WordLimit) /\ c[2] = Data(n)
    BY <1>2, <1>11, <2>1, StringCells
  <2>3. c[1].size = 2 /\ c[2].size = n
    BY <2>2 DEF Data, Field
  <2>4. /\ Len(row) + 2 \in 2..Len(row') /\ Len(row) + 2 - 1 = Len(row) + 1
        /\ row'[Len(row) + 1] = c[1] /\ row'[Len(row) + 2] = c[2]
    BY <1>5, <2>2
  <2>5. LongInWord(row')
    BY <1>11, <2>3, <2>4 DEF LongInWord
  <2> QED BY <1>1, <1>2, <2>5 DEF RowInv, RowsReadable
<1>10. CASE /\ ~ \E k \in 1..filled : Wrong(late, cols[k])
            /\ ~Wrong(late, col) /\ ~EmptyInChunks(row) /\ ~LongInWord(row)
            /\ ~(col.type \in StringTypes /\ Chunked(late, col) /\ ~isnull /\ n = 0)
            /\ ~(col.type \in StringTypes /\ ~Chunked(late, col) /\ ~isnull
                 /\ n >= NullWord)
  <2>1. Readable(late, cols, row, filled)
    BY <1>10 DEF RowInv, RowsReadable, Wrong
  <2>2. ReadsAs(late, col, row \o c, Len(row) + 1, Len(row) + Len(c) + 1)
    BY <1>2, <1>3, <1>10, ReadsCell DEF c, Wrong
  <2>3. Readable(late, cols, row \o c, filled + 1)
    BY <1>2, <1>3, <2>1, <2>2, OneMore DEF col
  <2> QED BY <1>1, <1>2, <1>4, <2>3 DEF RowInv, RowsReadable
<1> QED BY <1>6, <1>7, <1>8, <1>9, <1>10, <1>11

\* A column more changes nothing for the cells there are.
LEMMA ColumnRow == TypeOK /\ RowInv /\ Column => RowInv'
<1> SUFFICES ASSUME TypeOK, RowInv, Column PROVE RowInv'
  OBVIOUS
<1>1. PICK col \in RowTypes :
         cols' = Append(cols, col) /\ UNCHANGED <<late, row, filled>>
  BY DEF Column
<1>2. cols \in Seq(Columns) /\ filled \in 0..Len(cols)
  BY DEF TypeOK
<1>3. \A k \in 1..filled : cols'[k] = cols[k]
  BY <1>1, <1>2
<1>4. Readable(late, cols, row, filled) => Readable(late, cols', row, filled)
  BY <1>3 DEF Readable
<1> QED BY <1>1, <1>3, <1>4 DEF RowInv, RowsReadable

\* With no cell there is nothing to read.
LEMMA NewRow == filled' = 0 /\ row' = << >> => RowInv'
BY NothingToRead DEF RowInv, RowsReadable

\* A client that goes by the column descriptions that the server sent reads
\* the cells of every row that tdstoken_results adds.
THEOREM RowsReadableCorrect == Spec => []RowsReadable
<1>1. Init => RowInv
  BY NothingToRead DEF Init, RowInv, RowsReadable
<1>2. AlwaysInv /\ RowInv /\ [Next]_vars => RowInv'
  <2> SUFFICES ASSUME AlwaysInv, RowInv, [Next]_vars PROVE RowInv'
    OBVIOUS
  <2>1. TypeOK
    BY DEF AlwaysInv, Ended, IInv
  <2>2. CASE UNCHANGED <<late, cols, row, filled>>
    BY <2>2 DEF RowInv, RowsReadable
  <2>3. CASE Token
    <3>1. ASSUME NEW kind, NEW q, Begin(kind, q, NoColumns)
          PROVE  RowInv'
      <4>1. filled = 0 /\ UNCHANGED <<row, filled>>
        BY <3>1 DEF Begin, AlwaysInv, Ended, IInv, Places
      <4> QED BY <4>1, NewRow DEF RowInv
    <3>2. CASE Column
      BY <2>1, <3>2, ColumnRow
    <3>3. CASE Row
      BY <3>3, NewRow DEF Row
    <3>4. CASE NextCell
      BY <2>1, <3>4, NextCellRow
    <3> QED BY <2>3, <3>1, <3>2, <3>3, <3>4
             DEF Token, BeginMessage, BeginLoginAck, BeginDatabase,
                 BeginCollation, BeginDone, BeginResults
  <2>4. CASE EndToken
    BY <2>4, NewRow DEF EndToken
  <2>5. CASE StartPrelogin \/ StartTokens \/ PutTail
    BY <2>2, <2>5 DEF StartPrelogin, StartTokens, PutTail
  <2>6. CASE Addition
    BY <2>2, <2>6 DEF Addition, Add, AddLength, AddCounted, AddPointer, Added,
                        Overrun, building
  <2>7. CASE Finish \/ WritePacket \/ Return \/ UNCHANGED vars
    BY <2>2, <2>7 DEF Finish, WritePacket, Return, vars, building
  <2> QED BY <2>3, <2>4, <2>5, <2>6, <2>7 DEF Next
<1>3. RowInv => RowsReadable
  BY DEF RowInv
<1> QED BY <1>1, <1>2, <1>3, Invariance, PTL DEF Spec
=============================================================================
