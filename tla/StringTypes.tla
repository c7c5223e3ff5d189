---------------------------- MODULE StringTypes -----------------------------
(***************************************************************************)
(* The values of varchar, nvarchar and varbinary, how they compare, and    *)
(* the functions on them, as far as the installation scripts declare them  *)
(* to SQL.  Two values of one type are taken through the same functions    *)
(* side by side: an index, a join or a GROUP BY that holds one value for   *)
(* another relies on both having the same results.                         *)
(*                                                                         *)
(* A value is its bytes; a unit of nvarchar is two of them, the low one    *)
(* first.  A unit above 255 reaches the server in a parameter of an RPC;   *)
(* texts have bytes of ISO-8859-1 only, and no zero byte.                  *)
(***************************************************************************)
EXTENDS Integers, Sequences, FiniteSets, SequencesExt

CONSTANTS Letters,  \* the bytes of texts
          Elements, \* what the collator knows of units that are not ASCII
          Limits,   \* the n of varchar(n); -1 where there is none
          MaxSize,  \* bound: the bytes of a value
          MaxPiece  \* bound: the units of a literal

\* The collation of nvarchar sorts these as their codes do, but for case.
InCollationOrder == {32} \cup 48..57 \cup 65..90 \cup 97..122

\* Bytes, and the units that ASCII does not have.
Byte       == {b \in Nat : b <= 255}
OtherUnits == {u \in Nat : 128 <= u /\ u <= 65535}

\* The weight of a letter where its accents are compared; accents weigh more.
Unaccented == 1

\* An element has the weight of a letter and of its accent, if it has any; a
\* combining mark has no letter.  The capital and the small form of a letter
\* have the same weights.  Letters that sort as two (a sharp s) and pairs that
\* sort as one letter are outside the model.
ASSUME StringAssumption ==
    /\ Elements \subseteq [unit : OtherUnits, letter : Nat, accent : Nat \ {Unaccented}]
    /\ Letters \subseteq Byte
    /\ Letters \subseteq InCollationOrder \cup {e.unit : e \in Elements}
    /\ Limits \subseteq Nat \cup {-1}
    /\ MaxSize \in Nat /\ MaxPiece \in Nat

VARIABLES type,   \* of both values
          x, y,   \* their bytes
          status  \* "ok", or what became of the last function

vars == <<type, x, y, status>>

Types == {"varchar", "nvarchar", "varbinary"}

VARHDRSZ == 4
Space    == 32
Replaced == 26  \* ICU's substitute for what ISO-8859-1 does not have

----------------------------------------------------------------------------
(* Comparison *)

ToUpper(b) == IF b \in 97..122 THEN b - 32 ELSE b
ToLower(b) == IF b \in 65..90 THEN b + 32 ELSE b

Cased(case, s) == [i \in DOMAIN s |->
                      IF case = "upper" THEN ToUpper(s[i]) ELSE ToLower(s[i])]

\* The complete units of an nvarchar.
Units(s)  == [i \in 1..(Len(s) \div 2) |-> s[2 * i - 1] + 256 * s[2 * i]]
Bytes(us) == [i \in 1..(2 * Len(us)) |->
                 IF i % 2 = 1 THEN us[(i + 1) \div 2] % 256
                              ELSE us[(i + 1) \div 2] \div 256]

\* A collator of strength "secondary" does not look at the case of a letter,
\* and at accents only where all letters are the same.
Element(u) == IF \E e \in Elements : e.unit = u
              THEN CHOOSE e \in Elements : e.unit = u
              ELSE [unit |-> u, letter |-> ToLower(u), accent |-> 0]

Weights(level, us) == [i \in DOMAIN us |-> Element(us[i])[level]]

\* What is ignored has the weight 0.
Nth(S, k)  == CHOOSE i \in S : Cardinality({j \in S : j <= i}) = k
Present(f) == {i \in DOMAIN f : f[i] # 0}
Kept(f)    == [k \in 1..Cardinality(Present(f)) |-> f[Nth(Present(f), k)]]

\* The weights of letters without an accent, each before that of its accent.
Accents(ls, ms) == [i \in 1..(2 * Len(ls)) |->
                       IF i % 2 = 0 THEN ms[i \div 2]
                       ELSE IF ls[(i + 1) \div 2] = 0 THEN 0 ELSE Unaccented]

\* What the comparison of a type looks at, and what it looks at next.
Primary(t, s) == CASE t = "varchar"   -> Cased("lower", s)
                   [] t = "nvarchar"  -> Kept(Weights("letter", Units(s)))
                   [] t = "varbinary" -> s

Secondary(t, s) == IF t # "nvarchar" THEN << >>
                   ELSE Kept(Accents(Weights("letter", Units(s)),
                                     Weights("accent", Units(s))))

Sign(n) == IF n < 0 THEN -1 ELSE IF n > 0 THEN 1 ELSE 0

Common(s, t)  == 1..(IF Len(s) < Len(t) THEN Len(s) ELSE Len(t))
Differ(s, t)  == {i \in Common(s, t) : s[i] # t[i]}
FirstOf(S)    == CHOOSE i \in S : \A j \in S : i <= j

\* Slips: what is longer is not looked at; it is looked at first.
Order_PrefixOnly(s, t) ==
    IF Differ(s, t) = {} THEN 0
    ELSE LET i == FirstOf(Differ(s, t)) IN Sign(s[i] - t[i])

Order_LengthFirst(s, t) ==
    IF Len(s) # Len(t) \/ Differ(s, t) = {} THEN Sign(Len(s) - Len(t))
    ELSE LET i == FirstOf(Differ(s, t)) IN Sign(s[i] - t[i])

Order(s, t) ==
    IF Differ(s, t) = {} THEN Sign(Len(s) - Len(t))
    ELSE LET i == FirstOf(Differ(s, t)) IN Sign(s[i] - t[i])

Compare(t, l, r) == LET c == Order(Primary(t, l), Primary(t, r)) IN
                    IF c # 0 THEN c ELSE Order(Secondary(t, l), Secondary(t, r))

\* The operators of an operator class, as their comparison defines them.
Holds(op, t, l, r) ==
    LET c == Compare(t, l, r) IN
    CASE op = "="  -> c = 0
      [] op = "!=" -> c # 0
      [] op = "<"  -> c < 0
      [] op = "<=" -> c <= 0
      [] op = ">"  -> c > 0
      [] op = ">=" -> c >= 0

----------------------------------------------------------------------------
(* Values *)

UnitSize(t) == IF t = "nvarchar" THEN 2 ELSE 1

\* The coercion to a length counts units of nvarchar and bytes otherwise.
Truncated(t, n, s) == IF n = -1 \/ n * UnitSize(t) > Len(s) THEN s
                      ELSE SubSeq(s, 1, n * UnitSize(t))

\* Units in ISO-8859-1.
Latin(us) == [i \in DOMAIN us |-> IF us[i] > 255 THEN Replaced ELSE us[i]]

\* The text of a value, and the value of a text.
Out(t, s) == IF t = "nvarchar" THEN Latin(Units(s)) ELSE s
In(t, n, text) ==
    LET cut == Truncated("varchar", n, text) IN
    IF t = "nvarchar" THEN Bytes(cut) ELSE cut

Length(s) == Len(s)

\* The position of the last byte that is not a space, or 0.
LastInk(s) == LET ink == {i \in DOMAIN s : s[i] # Space} IN
              IF ink = {} THEN 0 ELSE CHOOSE i \in ink : \A j \in ink : j <= i

Greater(t, l, r) == IF Compare(t, r, l) > 0 THEN r ELSE l

HasWide(t, s) == t = "nvarchar" /\ \E i \in DOMAIN Units(s) : Units(s)[i] > 255

BoundedSeqs(S, n) == UNION {[1..k -> S] : k \in 0..n}

\* The values that literals and parameters bring.
Pieces == [t \in Types |->
             IF t = "nvarchar"
             THEN {Bytes(us) :
                      us \in BoundedSeqs(Letters \cup {e.unit : e \in Elements},
                                        MaxPiece)}
             ELSE {In(t, -1, s) : s \in BoundedSeqs(Letters, MaxPiece)}]

----------------------------------------------------------------------------
(* Functions, applied to both values *)

Init ==
    /\ type \in Types
    /\ x \in Pieces[type] /\ y \in Pieces[type]
    /\ Holds("<=", type, x, y)  \* the two have no names yet
    /\ status = "ok"

Both(newX, newY) == x' = newX /\ y' = newY

Fine == /\ status = "ok" /\ status' = "ok"
        /\ Len(x') <= MaxSize /\ Len(y') <= MaxSize  \* bound

\* A cast or an assignment to a type with a length.
Cast(n) == /\ Both(Truncated(type, n, x), Truncated(type, n, y))
           /\ Fine /\ UNCHANGED type

\* A varchar where an nvarchar is wanted.
Widen(n) ==
    /\ type = "varchar" /\ type' = "nvarchar"
    /\ Both(In("nvarchar", n, x), In("nvarchar", n, y))
    /\ Fine

\* What a function leaves behind that no value of the type can be relied on.
Fails(why) == /\ status = "ok" /\ status' = why
              /\ x' = << >> /\ y' = << >> /\ UNCHANGED type

\* Written as text and read again: what ISO-8859-1 does not have is lost.
Reload(n) ==
    IF HasWide(type, x) \/ HasWide(type, y) THEN Fails("garbled")
    ELSE /\ Both(In(type, n, Out(type, x)), In(type, n, Out(type, y)))
         /\ Fine /\ UNCHANGED type

\* upper and lower go byte by byte, also over the halves of a wide unit.
ChangeCase(case) ==
    /\ type # "varbinary"
    /\ IF HasWide(type, x) \/ HasWide(type, y) THEN Fails("garbled")
       ELSE Both(Cased(case, x), Cased(case, y)) /\ Fine /\ UNCHANGED type

AddRight(z) == Both(x \o z, y \o z) /\ Fine /\ UNCHANGED type
AddLeft(z)  == Both(z \o x, z \o y) /\ Fine /\ UNCHANGED type

\* A step of the aggregate max.  PostgreSQL is not told how to call the one
\* of varbinary, which takes the first value for its call's description.
Largest(z) ==
    IF type = "varbinary" THEN Fails("crash")
    ELSE /\ Both(Greater(type, x, z), Greater(type, y, z))
         /\ Fine /\ UNCHANGED type

\* left counts bytes, and cuts a unit of nvarchar in two at an odd one.  It
\* asks for VARHDRSZ bytes less than n: a negative size is an ERROR, and the
\* smallest piece of memory there is holds the result of n = VARHDRSZ alone.
\* A negative n is compared as an unsigned number.
Shortened(n, s) == IF n < 0 \/ n > Len(s) THEN s ELSE SubSeq(s, 1, n)

Left(n) ==
    /\ type # "varbinary"
    /\ LET cuts == n >= 0 /\ (n <= Len(x) \/ n <= Len(y)) IN
       IF cuts /\ n < VARHDRSZ THEN Fails("error")
       ELSE \/ cuts /\ n > VARHDRSZ /\ Fails("overrun")
            \/ IF cuts /\ type = "nvarchar" /\ n % 2 = 1 THEN Fails("garbled")
               ELSE /\ Both(Shortened(n, x), Shortened(n, y))
                    /\ Fine /\ UNCHANGED type

\* rtrim, which ltrim is declared to be as well, leaves the last byte of its
\* result as it was in memory, and copies -1 bytes of a value of spaces.
Trim ==
    /\ type # "varbinary"
    /\ IF LastInk(x) = 0 \/ LastInk(y) = 0 THEN Fails("crash")
                                           ELSE Fails("garbled")

\* replace takes its first argument for all three, and copies nothing of it.
Replace == type # "varbinary" /\ Fails("garbled")

\* coalesce is a constant.
Coalesce == Both(<<52, 50>>, <<52, 50>>) /\ Fine /\ UNCHANGED type

Next ==
    \/ \E n \in Limits : Cast(n) \/ Widen(n) \/ Reload(n) \/ Left(n)
    \/ \E case \in {"upper", "lower"} : ChangeCase(case)
    \/ \E z \in Pieces[type] : AddRight(z) \/ AddLeft(z) \/ Largest(z)
    \/ Trim \/ Replace \/ Coalesce

Spec == Init /\ [][Next]_vars
----------------------------------------------------------------------------
(* Properties *)

\* Every variable keeps its type, and an nvarchar is whole units.
TypeOK ==
    /\ type \in Types
    /\ x \in Seq(Byte) /\ y \in Seq(Byte)
    /\ type = "nvarchar" => Len(x) % 2 = 0 /\ Len(y) % 2 = 0
    /\ status \in {"ok", "garbled", "crash", "error", "overrun"}

\* An nvarchar that has something the collator sees no letter in.
Marked(t, s) == t = "nvarchar"
                /\ \E i \in DOMAIN Units(s) : Element(Units(s)[i]).letter = 0

\* Values that compare equal stay equal, and of one length, through every
\* function whose result is defined: what tells apart two values that an
\* index or a GROUP BY takes for one is only a function that garbles, or one
\* that counts or cuts an nvarchar with a combining mark, which is equal to
\* the shorter one that has the accented letter in one unit.
EqualStaysEqual ==
    [][ /\ Holds("=", type, x, y) /\ status' = "ok"
        /\ ~Marked(type, x) /\ ~Marked(type, y)
        => /\ Holds("=", type', x', y')
           /\ Length(x') = Length(y') ]_vars

\* Text is added at the end of a value whose letters the other's start with.
Extended == /\ IsStrictPrefix(x, x') /\ IsStrictPrefix(y, y')
            /\ Differ(Primary(type, x), Primary(type, y)) = {}
            /\ Primary(type, x) # Primary(type, y)

\* Letters that sort by their codes get an order of their own.
Recollated == type # type' /\ ~(Range(x) \cup Range(y) \subseteq InCollationOrder)

\* A letter told them apart, and only accents do so now.
AccentsLeft == /\ type' = "nvarchar"
               /\ Primary(type, x) # Primary(type, y)
               /\ Primary(type', x') = Primary(type', y')

\* A value that sorts before another does so still after every function: in
\* particular, rows sorted by a column are sorted by its first n bytes, and
\* so by the column cast to another length.  The exceptions are a text added
\* to a value that the other one starts with; a varchar with letters outside
\* InCollationOrder made an nvarchar; an nvarchar with combining marks; and
\* an nvarchar cut before the letter that decided, which leaves an accent to
\* decide: where A is an a with an accent, Ab is before ac, and A behind a.
OrderKept ==
    [][ /\ Holds("<=", type, x, y) /\ status' = "ok"
        /\ ~Marked(type, x) /\ ~Marked(type, y)
        /\ ~Marked(type', x') /\ ~Marked(type', y')
        /\ ~Extended /\ ~Recollated /\ ~AccentsLeft
        => Holds("<=", type', x', y') ]_vars
=============================================================================
