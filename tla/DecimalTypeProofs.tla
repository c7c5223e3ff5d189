------------------------- MODULE DecimalTypeProofs --------------------------
(***************************************************************************)
(* That decimals are the numbers they are meant to be, for magnitudes and  *)
(* widths of any size.  The invariant relates each value to its number, or *)
(* says that the number is lost; every operation is shown, in a lemma of   *)
(* its own, to make a good value of good values.                           *)
(***************************************************************************)
EXTENDS DecimalType, SequenceTheorems, TLAPS

Good(v) ==
    /\ v.mag \in Nat
    /\ v.scale \in 0 .. 255
    /\ \/ v.number = Lost
       \/ v.number = Number(v.mag, v.scale)

Goods == {v \in [mag : Nat, scale : 0 .. 255,
                 number : [num : Nat, places : Int]] : Good(v)}

IInv == reg \in [Regs -> Goods]

USE DecimalAssumption DEF DecimalAssumption

----------------------------------------------------------------------------
(* Values *)

\* A magnitude and a scale with the number lost, or with their own number.
LEMMA GoodValue ==
    ASSUME NEW mag \in Nat, NEW scale \in 0 .. 255,
           NEW number, number = Lost \/ number = Number(mag, scale)
    PROVE  Value(mag, scale, number) \in Goods
<1>1. number \in [num : Nat, places : Int]
  BY DEF Lost, Number
<1> QED BY <1>1 DEF Value, Goods, Good

\* What a known value's number is.
LEMMA KnownNumber ==
    ASSUME NEW v \in Goods
    PROVE  /\ v.mag \in Nat /\ v.scale \in 0 .. 255
           /\ Known(v) => v.number.num = v.mag /\ v.number.places = v.scale
  BY DEF Goods, Good, Known, Number

LEMMA ByteInRange ==
    ASSUME NEW n \in Int
    PROVE  n % 256 \in 0 .. 255
  OBVIOUS

\* The typmod of a column is a number.
LEMMA TypmodTyped ==
    ASSUME NEW t \in Typmods
    PROVE  t \in Int
<1>1. CASE t = NoTypmod
  BY <1>1 DEF NoTypmod
<1>2. CASE \E c \in Columns : t = Typmod(c)
  <2>1. PICK c \in Columns : t = Typmod(c)
    BY <1>2
  <2>2. c \in Seq(0 .. 255) /\ Len(c) \in Nat
    BY <2>1
  <2>3. ASSUME Len(c) # 0 PROVE c[1] \in 0 .. 255
    <3>1. 1 \in 1 .. Len(c)
      BY <2>2, <2>3
    <3> QED BY ONLY <2>2, <3>1, ElementOfSeq, Zenon
  <2>4. ASSUME Len(c) = 2 PROVE c[2] \in 0 .. 255
    <3>1. 2 \in 1 .. Len(c)
      BY <2>4
    <3> QED BY ONLY <2>2, <3>1, ElementOfSeq, Zenon
  <2> QED BY <2>1, <2>3, <2>4 DEF Typmod
<1> QED BY <1>1, <1>2 DEF Typmods

LEMMA ScaleTyped ==
    ASSUME NEW t \in Typmods, NEW p \in Places
    PROVE  ScaleOf(t, p) \in 0 .. 255
<1>1. (IF t = NoTypmod THEN p ELSE t) \in Int
  BY TypmodTyped
<1> QED BY <1>1, ByteInRange DEF ScaleOf

\* A text is read as a good value.
LEMMA InGood ==
    ASSUME NEW t \in Typmods, NEW negative \in BOOLEAN,
           NEW n \in Digits, NEW p \in Places
    PROVE  /\ In(t, negative, n, p) \in Goods
           /\ InNothing(t, p) \in Goods
  BY ScaleTyped, GoodValue DEF In, InNothing, KeptIf

\* An integer is written as a good value.
LEMMA FromIntGood ==
    ASSUME NEW n \in Int, NEW known \in BOOLEAN
    PROVE  FromInt(n, known) \in Goods
<1>1. Abs(n) \in Nat /\ (n >= 0 => Abs(n) = n)
  BY DEF Abs
<1>2. 0 \in 0 .. 255
  OBVIOUS
<1> DEFINE number == KeptIf(known /\ n >= 0, n, 0)
<1>3. number = Lost \/ number = Number(Abs(n), 0)
  BY <1>1 DEF KeptIf
<1> HIDE DEF number
<1>4. Value(Abs(n), 0, number) \in Goods
  BY <1>1, <1>2, <1>3, GoodValue
<1> QED BY <1>4 DEF FromInt, number

----------------------------------------------------------------------------
(* Casts *)

\* What is below the width is left as it is.
LEMMA ModSmall ==
    ASSUME NEW n \in Nat, NEW m \in Nat \ {0}, n < m
    PROVE  n % m = n
  OBVIOUS

LEMMA ModTyped ==
    ASSUME NEW n \in Nat, NEW m \in Nat \ {0}
    PROVE  n % m \in Int
  OBVIOUS

LEMMA SignedTyped ==
    ASSUME NEW n \in Int, NEW m \in Nat \ {0}
    PROVE  Signed(n, m) \in Int /\ (2 * n < m => Signed(n, m) = n)
  BY DEF Signed

\* A cast is an integer, and is the magnitude where that is in range.
LEMMA ToTyped ==
    ASSUME NEW v \in Goods, NEW type \in Types
    PROVE  /\ To(type, v) \in Int
           /\ InRange(type, v.mag) => To(type, v) = v.mag
<1> DEFINE m == v.mag
<1>1. m \in Nat
  BY KnownNumber
<1>2. CASE type = "tinyint"
  BY <1>1, <1>2, ModSmall, ModTyped DEF To, InRange
<1>3. CASE type = "smallint"
  <2>1. /\ To(type, v) = Signed(m % ByteSize, ByteSize)
        /\ InRange(type, m) <=> 2 * m < ByteSize
    BY <1>3 DEF To, InRange
  <2>2. m % ByteSize \in Int
    BY <1>1, ModTyped
  <2>3. 2 * m < ByteSize => m % ByteSize = m
    BY <1>1, ModSmall
  <2> QED BY <2>1, <2>2, <2>3, SignedTyped
<1>4. CASE type = "int"
  <2>1. /\ To(type, v) = Signed(m % IntSize, IntSize)
        /\ InRange(type, m) <=> 2 * m < IntSize
    BY <1>4 DEF To, InRange
  <2>2. m % IntSize \in Int
    BY <1>1, ModTyped
  <2>3. 2 * m < IntSize => m % IntSize = m
    BY <1>1, ModSmall
  <2> QED BY <2>1, <2>2, <2>3, SignedTyped
<1>5. CASE type = "float"
  <2>1. IntSize \div 2 \in Int
    OBVIOUS
  <2> QED BY <1>1, <1>5, <2>1 DEF To, InRange
<1> QED BY <1>2, <1>3, <1>4, <1>5 DEF Types

\* A cast and the cast back keep the number or lose it.
LEMMA ThroughGood ==
    ASSUME NEW v \in Goods, NEW type \in Types
    PROVE  Through(type, v) \in Goods
<1> DEFINE kept == /\ Known(v)
                   /\ v.number.places = 0
                   /\ InRange(type, v.number.num)
           number == KeptIf(kept, v.number.num, 0)
           mag == Abs(To(type, v))
<1>1. mag \in Nat /\ 0 \in 0 .. 255
  BY ToTyped DEF Abs
<1>2. kept => mag = v.number.num
  <2> SUFFICES ASSUME kept PROVE mag = v.number.num
    OBVIOUS
  <2>1. v.number.num = v.mag /\ v.mag \in Nat
    BY KnownNumber
  <2>2. To(type, v) = v.mag
    BY <2>1, ToTyped
  <2> QED BY <2>1, <2>2 DEF Abs
<1>3. number = Lost \/ number = Number(mag, 0)
  BY <1>2 DEF KeptIf
<1>4. Through(type, v) = Value(mag, 0, number)
  BY DEF Through
<1> HIDE DEF number, mag
<1> QED BY <1>1, <1>3, <1>4, GoodValue

----------------------------------------------------------------------------
(* Arithmetic *)

LEMMA PlusGood ==
    ASSUME NEW l \in Goods, NEW r \in Goods
    PROVE  Plus(l, r) \in Goods
<1> DEFINE kept == Aligned(l, r)
           number == KeptIf(kept, l.number.num + r.number.num, l.number.places)
<1>1. l.mag + r.mag \in Nat /\ l.scale \in 0 .. 255
  BY KnownNumber
<1>2. number = Lost \/ number = Number(l.mag + r.mag, l.scale)
  BY KnownNumber DEF KeptIf, Aligned
<1> HIDE DEF number
<1>3. Value(l.mag + r.mag, l.scale, number) \in Goods
  BY <1>1, <1>2, GoodValue
<1> QED BY <1>3 DEF Plus, number

LEMMA MinusGood ==
    ASSUME NEW l \in Goods, NEW r \in Goods
    PROVE  Minus(l, r) \in Goods
<1> DEFINE kept == Aligned(l, r) /\ l.number.num >= r.number.num
           mag == Abs(l.mag - r.mag)
           number == KeptIf(kept, l.number.num - r.number.num, l.number.places)
<1>1. mag \in Nat /\ l.scale \in 0 .. 255
  BY KnownNumber DEF Abs
<1>2. kept => mag = l.number.num - r.number.num
  BY KnownNumber DEF Abs, Aligned
<1>3. number = Lost \/ number = Number(mag, l.scale)
  BY <1>2, KnownNumber DEF KeptIf, Aligned
<1> HIDE DEF number, mag
<1>4. Value(mag, l.scale, number) \in Goods
  BY <1>1, <1>3, GoodValue
<1> QED BY <1>4 DEF Minus, number, mag

LEMMA TimesGood ==
    ASSUME NEW l \in Goods, NEW r \in Goods
    PROVE  Times(l, r) \in Goods
<1> DEFINE kept == Known(l) /\ Known(r) /\ r.number.places = 0
           number == KeptIf(kept, l.number.num * r.number.num, l.number.places)
<1>1. l.mag * r.mag \in Nat /\ l.scale \in 0 .. 255
  BY KnownNumber
<1>2. number = Lost \/ number = Number(l.mag * r.mag, l.scale)
  BY KnownNumber DEF KeptIf
<1> HIDE DEF number
<1>3. Value(l.mag * r.mag, l.scale, number) \in Goods
  BY <1>1, <1>2, GoodValue
<1> QED BY <1>3 DEF Times, number

LEMMA TimesIntGood ==
    ASSUME NEW l \in Goods, NEW n \in Int
    PROVE  TimesInt(l, n) \in Goods
<1> DEFINE kept == Known(l) /\ n >= 0
           mag == Abs(l.mag * n)
           number == KeptIf(kept, l.number.num * n, l.number.places)
<1>1. l.mag \in Nat /\ l.mag * n \in Int /\ l.scale \in 0 .. 255
  BY KnownNumber
<1>2. mag \in Nat
  BY <1>1 DEF Abs
<1>3. n >= 0 => l.mag * n >= 0
  BY <1>1
<1>4. n >= 0 => mag = l.mag * n
  BY <1>1, <1>3 DEF Abs
<1>5. number = Lost \/ number = Number(mag, l.scale)
  BY <1>4, KnownNumber DEF KeptIf
<1> HIDE DEF number, mag
<1>6. Value(mag, l.scale, number) \in Goods
  BY <1>1, <1>2, <1>5, GoodValue
<1> QED BY <1>6 DEF TimesInt, number, mag

----------------------------------------------------------------------------
(* The invariant *)

LEMMA BecomesGood ==
    ASSUME IInv, NEW r \in Regs, NEW v \in Goods, Becomes(r, v)
    PROVE  IInv'
  BY DEF IInv, Becomes

LEMMA InitInv == Init => IInv
<1>1. NoTypmod \in Typmods
  BY DEF Typmods
<1>2. ScaleOf(NoTypmod, 0) = 0
  BY DEF ScaleOf
<1>3. In(NoTypmod, FALSE, 0, 0) \in Goods
  BY <1>2, GoodValue DEF In, KeptIf
<1> QED BY <1>3 DEF Init, IInv

LEMMA IntsTyped ==
    ASSUME NEW n \in Ints
    PROVE  n \in Int /\ -n \in Int
  BY DEF Ints

LEMMA NextInv == IInv /\ [Next]_reg => IInv'
<1> SUFFICES ASSUME IInv, [Next]_reg PROVE IInv'
  OBVIOUS
<1>1. CASE UNCHANGED reg
  BY <1>1 DEF IInv
<1>2. ASSUME NEW r \in Regs,
             \/ Read(r) \/ ReadNothing(r) \/ Assign(r) \/ Cast(r)
             \/ Add(r) \/ Subtract(r) \/ Multiply(r) \/ MultiplyInt(r)
      PROVE  IInv'
  <2>0. \A s \in Regs : reg[s] \in Goods
    BY DEF IInv
  <2>1. CASE Read(r)
    BY <2>1, InGood, BecomesGood DEF Read
  <2>2. CASE ReadNothing(r)
    <3>1. PICK t \in Typmods, p \in Places : Becomes(r, InNothing(t, p))
      BY <2>2 DEF ReadNothing
    <3>2. InNothing(t, p) \in Goods
      BY ScaleTyped, GoodValue DEF InNothing
    <3> QED BY <3>1, <3>2, BecomesGood
  <2>3. CASE Assign(r)
    <3>1. PICK n \in Ints, whole \in BOOLEAN :
             \/ Becomes(r, FromInt(n, TRUE))
             \/ Becomes(r, FromInt(-n, TRUE))
             \/ Becomes(r, FromFloat(n, whole))
      BY <2>3 DEF Assign
    <3>2. /\ FromInt(n, TRUE) \in Goods
          /\ FromInt(-n, TRUE) \in Goods
          /\ FromFloat(n, whole) \in Goods
      BY IntsTyped, FromIntGood DEF FromFloat
    <3> QED BY <3>1, <3>2, BecomesGood
  <2>4. CASE Cast(r)
    BY <2>0, <2>4, ThroughGood, BecomesGood DEF Cast
  <2>5. CASE Add(r)
    BY <2>0, <2>5, PlusGood, BecomesGood DEF Add
  <2>6. CASE Subtract(r)
    BY <2>0, <2>6, MinusGood, BecomesGood DEF Subtract
  <2>7. CASE Multiply(r)
    BY <2>0, <2>7, TimesGood, BecomesGood DEF Multiply
  <2>8. CASE MultiplyInt(r)
    <3>1. PICK s \in Regs, n \in Ints :
             \/ Becomes(r, TimesInt(reg[s], n))
             \/ Becomes(r, TimesInt(reg[s], -n))
      BY <2>8 DEF MultiplyInt
    <3>2. TimesInt(reg[s], n) \in Goods /\ TimesInt(reg[s], -n) \in Goods
      BY <2>0, IntsTyped, TimesIntGood
    <3> QED BY <3>1, <3>2, BecomesGood
  <2> QED BY <1>2, <2>1, <2>2, <2>3, <2>4, <2>5, <2>6, <2>7, <2>8
<1> QED BY <1>1, <1>2 DEF Next

LEMMA InvImplies == IInv => TypeOK /\ Exact /\ Ordered
<1> SUFFICES ASSUME IInv PROVE TypeOK /\ Exact /\ Ordered
  OBVIOUS
<1>1. \A r \in Regs : reg[r] \in Goods
  BY DEF IInv
<1>2. TypeOK
  BY <1>1, KnownNumber DEF TypeOK
<1>3. Exact
  BY <1>1, KnownNumber DEF Exact
<1>4. Ordered
  <2> SUFFICES ASSUME NEW r \in Regs, NEW s \in Regs,
                      Known(reg[r]), Known(reg[s])
               PROVE  LET c == Compare(reg[r], reg[s])
                          m == reg[r].number.num
                          n == reg[s].number.num
                      IN  /\ c < 0 <=> m < n
                          /\ c = 0 <=> m = n
                          /\ c > 0 <=> m > n
    BY DEF Ordered, Aligned
  <2>1. /\ reg[r].mag \in Nat /\ reg[r].number.num = reg[r].mag
        /\ reg[s].mag \in Nat /\ reg[s].number.num = reg[s].mag
    BY <1>1, KnownNumber
  <2> QED BY <2>1 DEF Compare
<1> QED BY <1>2, <1>3, <1>4

\* Every value has a magnitude and a scale that its bytes can hold.
THEOREM TypeCorrect == Spec => []TypeOK
<1> QED BY InitInv, NextInv, InvImplies, PTL DEF Spec

\* A value whose operations have all kept to its number is that number,
\* whatever the widths of the integer types and however long the expression.
THEOREM ExactCorrect == Spec => []Exact
<1> QED BY InitInv, NextInv, InvImplies, PTL DEF Spec

\* Values that are known and have as many places as each other compare as
\* their numbers.
THEOREM OrderedCorrect == Spec => []Ordered
<1> QED BY InitInv, NextInv, InvImplies, PTL DEF Spec
=============================================================================
