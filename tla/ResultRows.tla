----------------------------- MODULE ResultRows -----------------------------
(***************************************************************************)
(* tdstoken_results: the columns of a result set and the cells of its      *)
(* rows, as sequences of additions to the buffer, and what a client reads  *)
(* off the cells.  A field of kind "bytes" has a size and, where a client  *)
(* looks at it, a value.                                                   *)
(***************************************************************************)
EXTENDS Integers, Sequences

CONSTANTS WordLimit,  \* values of a word of 2 bytes, 2^16
          OldLength   \* length announced for a typmod of -1 before 7.2, 8000

NullWord == WordLimit - 1              \* 0xFFFF, also uint16_t of -1
LongNull == WordLimit * WordLimit - 1  \* 0xFFFFFFFF

Field(size, value) == [kind |-> "bytes", size |-> size, value |-> value]
Data(size)         == Field(size, 0)

\* A text with a count of 1 or 2 bytes, or the two bytes that finalise will
\* fill in with the length, or a word that points to data put last.
Text(wide, bytes, chars) ==
    [kind |-> "text", wide |-> wide, bytes |-> bytes, chars |-> chars]
LengthWord    == [kind |-> "length"]
Pointer(size) == [kind |-> "pointer", size |-> size]

StringTypes == {"varchar", "nvarchar", "varbinary"}

\* The types of fixed size, each with its size.
FixedSize == [bit |-> 1, tinyint |-> 1, smallint |-> 2, int |-> 4,
              bigint |-> 8, real |-> 4, float |-> 8, datetime |-> 8]

\* Types that a column can have and a cell cannot.
Unsent == {"char", "decimal", "unknown"}

ColumnTypes == StringTypes \cup DOMAIN FixedSize \cup Unsent

\* A column: its type and its typmod, -1 when it has none.  varchar(max) has
\* the typmod 0x7FFFFFFF.
Columns == [type : ColumnTypes, typmod : Int]

\* The length that the description of a string column has.
Announced(late, col) ==
    IF col.typmod # -1 THEN col.typmod % WordLimit
    ELSE IF late THEN NullWord ELSE OldLength

\* The description of a column, but its name; the first field is usertype, the
\* fourth the length of the column's values.
Describe(late, col) ==
    LET user   == Data(IF late THEN 4 ELSE 2)
        length == Field(2, Announced(late, col))
    IN CASE col.type \in {"varchar", "nvarchar", "char"} ->
              <<user, Data(2), Data(1), length, Data(2), Data(2), Data(1)>>
         [] col.type = "varbinary" -> <<user, Data(2), Data(1), length>>
         [] col.type \in DOMAIN FixedSize ->
              <<user, Data(2), Data(1), Field(1, FixedSize[col.type])>>
         [] col.type = "decimal" ->
              <<user, Data(2), Data(1), Data(1), Data(1), Data(1)>>
         [] col.type = "unknown" -> <<user>>

\* Whether the cells of a column are sent in chunks.
Chunked(late, col) == late /\ col.typmod = -1

\* A value of n bytes: no addition has nothing to add.
Value(n) == IF n = 0 THEN << >> ELSE <<Data(n)>>

\* The cell of a value of n bytes.  Slip: the chunks are not ended.
StringCell_Endless(late, col, n) ==
    IF Chunked(late, col)
    THEN <<Field(4, n), Field(4, 0), Field(4, n)>> \o Value(n)
    ELSE <<Field(2, n % WordLimit)>> \o Value(n)

StringCell(late, col, n) ==
    IF Chunked(late, col)
    THEN <<Field(4, n), Field(4, 0), Field(4, n)>> \o Value(n) \o <<Field(4, 0)>>
    ELSE <<Field(2, n % WordLimit)>> \o Value(n)

StringNull(late, col) ==
    IF Chunked(late, col) THEN <<Field(4, LongNull), Field(4, LongNull)>>
    ELSE <<Field(2, NullWord)>>

\* The cell of a column; n bytes matter for strings.
Cell(late, col, isnull, n) ==
    CASE col.type \in StringTypes ->
            IF isnull THEN StringNull(late, col) ELSE StringCell(late, col, n)
      [] col.type \in DOMAIN FixedSize ->
            IF isnull THEN <<Field(1, 0)>>
            ELSE <<Field(1, FixedSize[col.type]), Data(FixedSize[col.type])>>
      [] col.type \in Unsent -> << >>

----------------------------------------------------------------------------
\* The client's side: a cell takes it from field i of a row to field j.  Of the
\* column it knows the type and the length in the description.  Each field
\* must have the size that the client goes by.

Sized(row, i, n) == i \in DOMAIN row /\ row[i].size = n

ReadsFixed(length, row, i, j) ==
    /\ Sized(row, i, 1)
    /\ \/ row[i].value = 0 /\ j = i + 1
       \/ row[i].value = length /\ Sized(row, i + 1, length) /\ j = i + 2

ReadsLimited(row, i, j) ==
    /\ Sized(row, i, 2)
    /\ IF row[i].value \in {0, NullWord} THEN j = i + 1
       ELSE Sized(row, i + 1, row[i].value) /\ j = i + 2

\* n chunks and the empty one that ends them.
ReadsChunks(row, i, j) ==
    \E n \in 0..Len(row) :
        /\ \A k \in 0..(n - 1) : LET h == i + 2 * k IN
              /\ Sized(row, h, 4) /\ row[h].value # 0
              /\ Sized(row, h + 1, row[h].value)
        /\ j = i + 2 * n + 1
        /\ Sized(row, j - 1, 4) /\ row[j - 1].value = 0

ReadsUnlimited(row, i, j) ==
    /\ Sized(row, i, 4) /\ Sized(row, i + 1, 4)
    /\ IF row[i].value = LongNull THEN j = i + 2 ELSE ReadsChunks(row, i + 2, j)

\* A length of 0xFFFF announces chunks, from 7.2 on.
Reads(late, type, length, row, i, j) ==
    IF type \in DOMAIN FixedSize THEN ReadsFixed(length, row, i, j)
    ELSE IF late /\ length = NullWord THEN ReadsUnlimited(row, i, j)
    ELSE ReadsLimited(row, i, j)

ReadsAs(late, col, row, i, j) ==
    Reads(late, col.type, Describe(late, col)[4].value, row, i, j)

\* A client that goes by the first n columns comes to the end of the row.
Readable(late, cols, row, n) ==
    \E at \in [0..n -> 1..(Len(row) + 1)] :
        /\ at[0] = 1 /\ at[n] = Len(row) + 1
        /\ \A k \in 1..n : ReadsAs(late, cols[k], row, at[k - 1], at[k])

\* Announced to come in chunks, and sent with a word for the length.
Misannounced(late, col) ==
    /\ col.type \in StringTypes /\ ~Chunked(late, col)
    /\ late /\ Announced(late, col) = NullWord

\* In a row, an empty value in chunks shows as three empty words.
EmptyInChunks(row) ==
    \E k \in 1..(Len(row) - 2) : \A i \in k..(k + 2) : row[i] = Field(4, 0)

\* The value behind a word is as long as the word for NULL, or longer.
LongInWord(row) ==
    \E i \in 2..Len(row) : row[i - 1].size = 2 /\ row[i].size >= NullWord
=============================================================================
