---------------------------- MODULE DecimalType -----------------------------
(***************************************************************************)
(* The values of decimal and the arithmetic on them.  A value is a         *)
(* magnitude of any size and a scale, how many of its decimal digits       *)
(* follow the point; it has no sign.  (The precision is carried along and  *)
(* nothing reads it.)  Next to each value stands the number that it is     *)
(* meant to be, computed without the code's magnitudes and widths, and     *)
(* Lost from the first operation on that does not keep to it: each         *)
(* operation below says where that is.                                     *)
(***************************************************************************)
EXTENDS Integers, Sequences

CONSTANTS Regs,     \* the places of an expression, or of a row, with a value
          Digits,   \* magnitudes of literals and of integers
          Places,   \* how many digits follow the point of a text
          Columns,  \* the parameters of decimal, decimal(p), decimal(p,s)
          ByteSize, \* 2^8
          IntSize,  \* 2^32
          MaxMag    \* bound: magnitudes

DecimalAssumption ==
    /\ Digits \subseteq Nat
    /\ Places \subseteq Nat
    /\ \A c \in Columns : c \in Seq(0 .. 255) /\ Len(c) <= 2
    /\ ByteSize \in Nat \ {0} /\ IntSize \in Nat \ {0}
    /\ MaxMag \in Nat

ASSUME DecimalAssumption

VARIABLE reg  \* the value in each place

----------------------------------------------------------------------------
(* Values *)

\* A number: num, of which so many digits follow the point.
Number(num, places) == [num |-> num, places |-> places]
Lost                == [num |-> 0, places |-> -1]

Value(mag, scale, number) ==
    [mag |-> mag, scale |-> scale, number |-> number]

KeptIf(kept, num, places) == IF kept THEN Number(num, places) ELSE Lost

Known(v) == v.number # Lost

Abs(n) == IF n < 0 THEN -n ELSE n

\* The typmod of a column: the precision is 19 and the scale 0 by default.
Typmod(c) == 256 * (IF Len(c) = 0 THEN 19 ELSE c[1])
               + (IF Len(c) = 2 THEN c[2] ELSE 0)
NoTypmod  == -1

\* The scale of a text with so many digits after the point, kept in a byte.
ScaleOf(t, places) == (IF t = NoTypmod THEN places ELSE t) % 256

\* A text.  Minus signs before it are skipped, and the digits are taken as
\* they are, also where the column has another scale than the text.
In(t, negative, digits, places) ==
    Value(digits, ScaleOf(t, places),
          KeptIf(~negative /\ ScaleOf(t, places) = places, digits, places))

\* A text that is not a number is read as zero, with the scale of its length.
InNothing(t, places) == Value(0, ScaleOf(t, places), Lost)

\* An integer: the magnitude is written and the sign is not.
FromInt(n, known) == Value(Abs(n), 0, KeptIf(known /\ n >= 0, n, 0))

\* A float: what follows the point is cut off.
FromFloat(n, whole) == FromInt(n, whole)

----------------------------------------------------------------------------
(* Casts to other types take the magnitude and do not look at the scale.   *)
(* The one to smallint goes through a signed byte, the one to float        *)
(* through an int: one that is out of its range becomes the least int.     *)

Signed(n, size) == IF 2 * n >= size THEN n - size ELSE n

Types == {"tinyint", "smallint", "int", "float"}

\* Slip: an int, too, goes through a signed byte.
To_NarrowInt(type, v) ==
    CASE type = "tinyint" -> v.mag % ByteSize
      [] type # "tinyint" -> Signed(v.mag % ByteSize, ByteSize)

To(type, v) ==
    CASE type = "tinyint"  -> v.mag % ByteSize
      [] type = "smallint" -> Signed(v.mag % ByteSize, ByteSize)
      [] type = "int"      -> Signed(v.mag % IntSize, IntSize)
      [] type = "float"    -> IF 2 * v.mag < IntSize THEN v.mag
                              ELSE -(IntSize \div 2)

InRange(type, num) ==
    CASE type = "tinyint"           -> num < ByteSize
      [] type = "smallint"          -> 2 * num < ByteSize
      [] type \in {"int", "float"}  -> 2 * num < IntSize

\* A cast and the cast back (from a tinyint, by way of an int) keep a whole
\* number that the type can hold.
Through(type, v) ==
    Value(Abs(To(type, v)), 0,
          KeptIf(/\ Known(v)
                 /\ v.number.places = 0
                 /\ InRange(type, v.number.num), v.number.num, 0))

----------------------------------------------------------------------------
(* Arithmetic: the magnitudes are added, subtracted and multiplied, and     *)
(* the result has the scale of the left operand.                            *)

\* The numbers have as many places as each other.
Aligned(l, r) == Known(l) /\ Known(r) /\ l.number.places = r.number.places

Plus(l, r) ==
    Value(l.mag + r.mag, l.scale,
          KeptIf(Aligned(l, r),
                 l.number.num + r.number.num, l.number.places))

\* A difference below zero loses its sign.
Minus(l, r) ==
    Value(Abs(l.mag - r.mag), l.scale,
          KeptIf(Aligned(l, r) /\ l.number.num >= r.number.num,
                 l.number.num - r.number.num, l.number.places))

Times(l, r) ==
    Value(l.mag * r.mag, l.scale,
          KeptIf(Known(l) /\ Known(r) /\ r.number.places = 0,
                 l.number.num * r.number.num, l.number.places))

TimesInt(l, n) ==
    Value(Abs(l.mag * n), l.scale,
          KeptIf(Known(l) /\ n >= 0, l.number.num * n, l.number.places))

\* Slip: the longer magnitude is the larger one, whatever its digits.
Compare_BySize(l, r) ==
    IF l.mag \div ByteSize < r.mag \div ByteSize THEN -1
    ELSE IF l.mag \div ByteSize > r.mag \div ByteSize THEN 1 ELSE 0

\* Only the magnitudes are compared.
Compare(l, r) == IF l.mag < r.mag THEN -1 ELSE IF l.mag > r.mag THEN 1 ELSE 0

----------------------------------------------------------------------------
(* Expressions and rows.  A sum over rows adds each row to the value of the *)
(* rows before it, which starts as that of the first row.                   *)

Typmods == {Typmod(c) : c \in Columns} \cup {NoTypmod}

Ints == {n \in Digits : 2 * n < IntSize}

Init == reg = [r \in Regs |-> In(NoTypmod, FALSE, 0, 0)]

Becomes(r, v) == /\ v.mag <= MaxMag
                 /\ reg' = [reg EXCEPT ![r] = v]

Read(r) == \E t \in Typmods, negative \in BOOLEAN, n \in Digits, p \in Places :
              Becomes(r, In(t, negative, n, p))

ReadNothing(r) == \E t \in Typmods, p \in Places : Becomes(r, InNothing(t, p))

Assign(r) == \E n \in Ints, whole \in BOOLEAN :
                \/ Becomes(r, FromInt(n, TRUE))
                \/ Becomes(r, FromInt(-n, TRUE))
                \/ Becomes(r, FromFloat(n, whole))

Cast(r) == \E s \in Regs, type \in Types : Becomes(r, Through(type, reg[s]))

Add(r)      == \E s, t \in Regs : Becomes(r, Plus(reg[s], reg[t]))
Subtract(r) == \E s, t \in Regs : Becomes(r, Minus(reg[s], reg[t]))
Multiply(r) == \E s, t \in Regs : Becomes(r, Times(reg[s], reg[t]))

MultiplyInt(r) == \E s \in Regs, n \in Ints :
                     \/ Becomes(r, TimesInt(reg[s], n))
                     \/ Becomes(r, TimesInt(reg[s], -n))

Next == \E r \in Regs :
          \/ Read(r) \/ ReadNothing(r) \/ Assign(r) \/ Cast(r)
          \/ Add(r) \/ Subtract(r) \/ Multiply(r) \/ MultiplyInt(r)

Spec == Init /\ [][Next]_reg

----------------------------------------------------------------------------
(* Properties *)

\* The type invariant: magnitudes and scales that the bytes of a value hold.
TypeOK == \A r \in Regs : /\ reg[r].mag \in Nat
                          /\ reg[r].scale \in 0 .. 255

\* A value whose operations have all kept to its number is that number: its
\* magnitude and its scale are the number's digits and places, through any
\* sequence of casts, sums, differences and products, although no operation
\* aligns its operands, rounds, or looks at a sign or at a width.
Exact == \A r \in Regs : Known(reg[r]) =>
            /\ reg[r].mag = reg[r].number.num
            /\ reg[r].scale = reg[r].number.places

\* Numbers with as many places as each other, however they were computed,
\* compare as the numbers do, although Compare sees only magnitudes.
Ordered == \A r, s \in Regs : Aligned(reg[r], reg[s]) =>
              LET c == Compare(reg[r], reg[s])
                  m == reg[r].number.num
                  n == reg[s].number.num
              IN  /\ c < 0 <=> m < n
                  /\ c = 0 <=> m = n
                  /\ c > 0 <=> m > n
=============================================================================
