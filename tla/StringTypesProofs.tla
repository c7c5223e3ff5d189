-------------------------- MODULE StringTypesProofs --------------------------
(***************************************************************************)
(* Proofs about StringTypes: for every alphabet, every collation that      *)
(* Elements can describe and every length, the functions take equal values *)
(* to equal ones and keep the order of values, with the exceptions that    *)
(* the properties name.  Each function is shown to do one of a few things  *)
(* to the units of a value.  Where no unit is a combining mark, the        *)
(* comparison is one of letters and then of accents, unit by unit.         *)
(***************************************************************************)
EXTENDS StringTypes, FiniteSetTheorems, WellFoundedInduction, TLAPS

Unit    == {u \in Nat : u <= 65535}
IntSeqs == Seq(Int)

----------------------------------------------------------------------------
(* The order of sequences of numbers. *)

\* A set of natural numbers that is not empty has a least element.
LEMMA LeastNat ==
    ASSUME NEW T, T \subseteq Nat, T # {}
    PROVE  \E n \in T : \A m \in T : n <= m
<1>1. PICK n \in T : \A m \in T : <<m, n>> \notin OpToRel(<, Nat)
  BY NatLessThanWellFounded, WFMin
<1>2. \A m \in T : ~(m < n)
  BY <1>1 DEF OpToRel
<1>3. \A m \in T : n <= m
  BY <1>2
<1> QED BY <1>3

\* s comes before t at position i, or is a part of it that it starts with.
Below(s, t, i) == /\ i \in Common(s, t) /\ s[i] < t[i]
                  /\ \A j \in 1..(i - 1) : s[j] = t[j]

StartOf(s, t) == Len(s) <= Len(t) /\ \A i \in 1..Len(s) : s[i] = t[i]

Leq(s, t) == StartOf(s, t) \/ \E i \in Common(s, t) : Below(s, t, i)

\* Positions that two sequences share.
LEMMA CommonPlaces ==
    ASSUME NEW s \in IntSeqs, NEW t \in IntSeqs
    PROVE  /\ Len(s) \in Nat /\ Len(t) \in Nat
           /\ \A i : i \in Common(s, t) <=> i \in 1..Len(s) /\ i \in 1..Len(t)
           /\ \A i \in 1..Len(s) : s[i] \in Int
           /\ \A i \in 1..Len(t) : t[i] \in Int
<1>1. /\ Len(s) \in Nat /\ Len(t) \in Nat
      /\ \A i \in 1..Len(s) : s[i] \in Int
      /\ \A i \in 1..Len(t) : t[i] \in Int
  BY DEF IntSeqs
<1> QED BY <1>1 DEF Common

\* The first position where two sequences differ.
LEMMA FirstDifference ==
    ASSUME NEW s \in IntSeqs, NEW t \in IntSeqs, Differ(s, t) # {}
    PROVE  LET i == FirstOf(Differ(s, t)) IN
           /\ i \in Common(s, t) /\ s[i] # t[i]
           /\ \A j \in 1..(i - 1) : s[j] = t[j]
<1> DEFINE D == Differ(s, t)
<1>1. \A i \in D : i \in Common(s, t) /\ s[i] # t[i] /\ i \in Nat
  BY CommonPlaces DEF Differ
<1>2. D \subseteq Nat
  BY <1>1
<1>3. \E i \in D : \A j \in D : i <= j
  BY <1>2, LeastNat
<1> HIDE DEF D
<1>4. FirstOf(D) \in D /\ \A j \in D : FirstOf(D) <= j
  BY <1>3 DEF FirstOf
<1> DEFINE i == FirstOf(D)
<1>5. i \in Common(s, t) /\ s[i] # t[i] /\ i \in Nat
  BY <1>1, <1>4
<1>6. ASSUME NEW j \in 1..(i - 1)
      PROVE  s[j] = t[j]
  <2>1. j \in Common(s, t) /\ ~(i <= j)
    <3>1. i \in 1..Len(s) /\ i \in 1..Len(t) /\ Len(s) \in Nat /\ Len(t) \in Nat
      BY <1>5, CommonPlaces
    <3>2. j \in 1..Len(s) /\ j \in 1..Len(t) /\ ~(i <= j)
      BY <3>1
    <3> QED BY <3>2, CommonPlaces
  <2>2. j \notin D
    BY <1>4, <2>1
  <2> QED BY <2>1, <2>2 DEF D, Differ
<1> QED BY <1>5, <1>6 DEF D

\* Sequences of one length with the same elements are one.
LEMMA SameSeq ==
    ASSUME NEW s \in IntSeqs, NEW t \in IntSeqs, Len(s) = Len(t),
           \A i \in 1..Len(s) : s[i] = t[i]
    PROVE  s = t
BY DEF IntSeqs

\* What a comparison says of two sequences.
LEMMA OrderSays ==
    ASSUME NEW s \in IntSeqs, NEW t \in IntSeqs
    PROVE  /\ Order(s, t) \in {-1, 0, 1}
           /\ Order(s, t) = 0 <=> s = t
           /\ Order(s, t) <= 0 <=> Leq(s, t)
<1>1. CASE Differ(s, t) = {}
  <2>1. \A i \in Common(s, t) : s[i] = t[i]
    BY <1>1 DEF Differ
  <2>2. Order(s, t) = Sign(Len(s) - Len(t))
    BY <1>1 DEF Order
  <2>3. /\ Order(s, t) \in {-1, 0, 1}
        /\ Order(s, t) = 0 <=> Len(s) = Len(t)
        /\ Order(s, t) <= 0 <=> Len(s) <= Len(t)
    BY <2>2, CommonPlaces DEF Sign
  <2>4. Len(s) <= Len(t) <=> Leq(s, t)
    <3>1. Len(s) <= Len(t) => StartOf(s, t)
      BY <2>1, CommonPlaces DEF StartOf
    <3>2. \A i : ~Below(s, t, i)
      BY <2>1, CommonPlaces DEF Below
    <3> QED BY <3>1, <3>2 DEF Leq, StartOf
  <2>5. ASSUME Len(s) = Len(t) PROVE s = t
    <3>1. \A i \in 1..Len(s) : s[i] = t[i]
      BY <2>1, <2>5, CommonPlaces
    <3> QED BY <2>5, <3>1, SameSeq
  <2> QED BY <2>3, <2>4, <2>5
<1>2. CASE Differ(s, t) # {}
  <2> DEFINE i == FirstOf(Differ(s, t))
  <2>1. /\ i \in Common(s, t) /\ s[i] # t[i]
        /\ \A j \in 1..(i - 1) : s[j] = t[j]
    BY <1>2, FirstDifference
  <2>2. Order(s, t) = Sign(s[i] - t[i])
    BY <1>2 DEF Order
  <2> HIDE DEF i
  <2>3. /\ i \in 1..Len(s) /\ i \in 1..Len(t) /\ s[i] \in Int /\ t[i] \in Int
    BY <2>1, CommonPlaces
  <2>4. /\ Order(s, t) \in {-1, 1}
        /\ Order(s, t) <= 0 <=> s[i] < t[i]
    BY <2>1, <2>2, <2>3 DEF Sign
  <2>5. s[i] < t[i] => Leq(s, t)
    BY <2>1 DEF Leq, Below
  <2>6. ASSUME Leq(s, t) PROVE s[i] < t[i]
    <3>1. ~StartOf(s, t)
      BY <2>1, <2>3 DEF StartOf
    <3>2. PICK k \in Common(s, t) : Below(s, t, k)
      BY <2>6, <3>1 DEF Leq
    <3>3. k \in Nat /\ s[k] < t[k] /\ s[k] \in Int /\ t[k] \in Int
      BY <3>2, CommonPlaces DEF Below
    <3>4. ~(i < k)
      BY <2>1, <2>3, <3>2, <3>3 DEF Below
    <3>5. ~(k < i)
      <4>1. k < i => k \in 1..(i - 1)
        BY <2>3, <3>2, CommonPlaces
      <4> QED BY <2>1, <3>3, <4>1
    <3>6. k = i
      BY <2>3, <3>3, <3>4, <3>5
    <3> QED BY <3>3, <3>6
  <2>7. s # t
    BY <2>1
  <2> QED BY <2>4, <2>5, <2>6, <2>7
<1> QED BY <1>1, <1>2

\* The comparison of two sequences the other way round.
LEMMA OrderReversed ==
    ASSUME NEW s \in IntSeqs, NEW t \in IntSeqs
    PROVE  Order(t, s) = -Order(s, t)
<1>1. Differ(s, t) = Differ(t, s)
  <2>1. \A i : i \in Common(s, t) <=> i \in Common(t, s)
    BY CommonPlaces
  <2> QED BY <2>1 DEF Differ
<1>2. \A m \in Int, n \in Int : Sign(m - n) = -Sign(n - m)
  BY DEF Sign
<1>3. CASE Differ(s, t) = {}
  <2>1. Order(s, t) = Sign(Len(s) - Len(t)) /\ Order(t, s) = Sign(Len(t) - Len(s))
    BY <1>1, <1>3 DEF Order
  <2>2. Len(s) \in Int /\ Len(t) \in Int
    BY CommonPlaces
  <2> QED BY <1>2, <2>1, <2>2
<1>4. CASE Differ(s, t) # {}
  <2> DEFINE i == FirstOf(Differ(s, t))
  <2>1. Order(s, t) = Sign(s[i] - t[i]) /\ Order(t, s) = Sign(t[i] - s[i])
    BY <1>1, <1>4 DEF Order
  <2>2. i \in Common(s, t)
    BY <1>4, FirstDifference
  <2> HIDE DEF i
  <2>3. s[i] \in Int /\ t[i] \in Int
    BY <2>2, CommonPlaces
  <2> QED BY <1>2, <2>1, <2>3
<1> QED BY <1>3, <1>4

\* The order is reflexive and transitive.
LEMMA LeqReflexive ==
    ASSUME NEW s \in IntSeqs
    PROVE  Leq(s, s)
BY CommonPlaces DEF Leq, StartOf

LEMMA LeqTransitive ==
    ASSUME NEW s \in IntSeqs, NEW t \in IntSeqs, NEW u \in IntSeqs,
           Leq(s, t), Leq(t, u)
    PROVE  Leq(s, u)
<1>0. /\ Len(s) \in Nat /\ Len(t) \in Nat /\ Len(u) \in Nat
      /\ \A i \in 1..Len(s) : s[i] \in Int
      /\ \A i \in 1..Len(t) : t[i] \in Int
      /\ \A i \in 1..Len(u) : u[i] \in Int
  BY CommonPlaces
<1>1. CASE StartOf(s, t) /\ StartOf(t, u)
  <2>1. Len(s) <= Len(u) /\ \A i \in 1..Len(s) : i \in 1..Len(t)
    BY <1>0, <1>1 DEF StartOf
  <2>2. StartOf(s, u)
    BY <1>1, <2>1 DEF StartOf
  <2> QED BY <2>2 DEF Leq
<1>2. ASSUME StartOf(s, t), NEW k \in Common(t, u), Below(t, u, k)
      PROVE  Leq(s, u)
  <2>1. k \in 1..Len(t) /\ k \in 1..Len(u)
    BY CommonPlaces
  <2>2. CASE k \in 1..Len(s)
    <3>1. k \in Common(s, u)
      BY <2>1, <2>2, CommonPlaces
    <3>2. \A j \in 1..(k - 1) : j \in 1..Len(s)
      BY <1>0, <2>2
    <3>3. Below(s, u, k)
      BY <1>2, <2>2, <3>1, <3>2 DEF Below, StartOf
    <3> QED BY <3>1, <3>3 DEF Leq
  <2>3. CASE k \notin 1..Len(s)
    <3>1. \A j \in 1..Len(s) : j \in 1..(k - 1)
      BY <1>0, <2>1, <2>3
    <3>2. StartOf(s, u)
      BY <1>0, <1>2, <2>1, <2>3, <3>1 DEF Below, StartOf
    <3> QED BY <3>2 DEF Leq
  <2> QED BY <2>2, <2>3
<1>3. ASSUME NEW i \in Common(s, t), Below(s, t, i), StartOf(t, u)
      PROVE  Leq(s, u)
  <2>1. i \in 1..Len(s) /\ i \in 1..Len(t)
    BY CommonPlaces
  <2>2. i \in 1..Len(u) /\ \A j \in 1..(i - 1) : j \in 1..Len(t)
    BY <1>0, <1>3, <2>1 DEF StartOf
  <2>3. i \in Common(s, u)
    BY <2>1, <2>2, CommonPlaces
  <2>4. Below(s, u, i)
    BY <1>3, <2>1, <2>2, <2>3 DEF Below, StartOf
  <2> QED BY <2>3, <2>4 DEF Leq
<1>4. ASSUME NEW i \in Common(s, t), Below(s, t, i),
             NEW k \in Common(t, u), Below(t, u, k)
      PROVE  Leq(s, u)
  <2>1. /\ i \in 1..Len(s) /\ i \in 1..Len(t)
        /\ k \in 1..Len(t) /\ k \in 1..Len(u)
    BY CommonPlaces
  <2>2. /\ s[i] \in Int /\ t[i] \in Int /\ t[k] \in Int /\ u[k] \in Int
    BY <1>0, <2>1
  <2>3. CASE i <= k
    <3>1. i \in 1..Len(u) /\ \A j \in 1..(i - 1) : j \in 1..(k - 1)
      BY <1>0, <2>1, <2>3
    <3>2. i \in Common(s, u)
      BY <2>1, <3>1, CommonPlaces
    <3>3. s[i] < u[i]
      <4>1. CASE i = k
        BY <1>4, <2>2, <4>1 DEF Below
      <4>2. CASE i < k
        <5>1. i \in 1..(k - 1)
          BY <2>1, <4>2
        <5> QED BY <1>4, <5>1 DEF Below
      <4> QED BY <2>1, <2>3, <4>1, <4>2
    <3>4. Below(s, u, i)
      BY <1>4, <3>1, <3>2, <3>3 DEF Below
    <3> QED BY <3>2, <3>4 DEF Leq
  <2>4. CASE k < i
    <3>1. /\ k \in 1..Len(s) /\ k \in 1..(i - 1)
          /\ \A j \in 1..(k - 1) : j \in 1..(i - 1)
      BY <1>0, <2>1, <2>4
    <3>2. k \in Common(s, u)
      BY <2>1, <3>1, CommonPlaces
    <3>3. Below(s, u, k)
      BY <1>4, <3>1, <3>2 DEF Below
    <3> QED BY <3>2, <3>3 DEF Leq
  <2> QED BY <2>1, <2>3, <2>4
<1> QED BY <1>1, <1>2, <1>3, <1>4 DEF Leq

----------------------------------------------------------------------------
(* What the functions do to sequences keeps their order. *)

\* The first n, or all.
Cut(n, s) == IF n > Len(s) THEN s ELSE SubSeq(s, 1, n)

LEMMA CutOf ==
    ASSUME NEW S, NEW n \in Nat, NEW s \in Seq(S)
    PROVE  /\ Cut(n, s) \in Seq(S)
           /\ Len(Cut(n, s)) = IF n > Len(s) THEN Len(s) ELSE n
           /\ \A i \in 1..Len(Cut(n, s)) : i \in 1..Len(s) /\ Cut(n, s)[i] = s[i]
BY DEF Cut

LEMMA CutKeepsOrder ==
    ASSUME NEW n \in Nat, NEW s \in IntSeqs, NEW t \in IntSeqs, Leq(s, t)
    PROVE  Leq(Cut(n, s), Cut(n, t))
<1> DEFINE a == Cut(n, s)
           b == Cut(n, t)
<1>1. /\ a \in IntSeqs /\ b \in IntSeqs
      /\ Len(a) = IF n > Len(s) THEN Len(s) ELSE n
      /\ Len(b) = IF n > Len(t) THEN Len(t) ELSE n
      /\ \A i \in 1..Len(a) : i \in 1..Len(s) /\ a[i] = s[i]
      /\ \A i \in 1..Len(b) : i \in 1..Len(t) /\ b[i] = t[i]
      /\ Len(s) \in Nat /\ Len(t) \in Nat
  <2>1. Len(s) \in Nat /\ Len(t) \in Nat
    BY CommonPlaces
  <2>2. /\ a \in IntSeqs
        /\ Len(a) = IF n > Len(s) THEN Len(s) ELSE n
        /\ \A i \in 1..Len(a) : i \in 1..Len(s) /\ a[i] = s[i]
    BY CutOf DEF IntSeqs
  <2>3. /\ b \in IntSeqs
        /\ Len(b) = IF n > Len(t) THEN Len(t) ELSE n
        /\ \A i \in 1..Len(b) : i \in 1..Len(t) /\ b[i] = t[i]
    BY CutOf DEF IntSeqs
  <2> QED BY <2>1, <2>2, <2>3
<1> HIDE DEF a, b
<1>2. CASE StartOf(s, t)
  <2>1. Len(a) <= Len(b)
    BY <1>1, <1>2 DEF StartOf
  <2>2. \A i \in 1..Len(a) : i \in 1..Len(b)
    BY <1>1, <2>1
  <2>3. StartOf(a, b)
    BY <1>1, <1>2, <2>1, <2>2 DEF StartOf
  <2> QED BY <2>3 DEF Leq, a, b
<1>3. ASSUME NEW i \in Common(s, t), Below(s, t, i)
      PROVE  Leq(a, b)
  <2>1. i \in 1..Len(s) /\ i \in 1..Len(t)
    BY CommonPlaces
  <2>2. CASE i <= n
    <3>1. /\ i \in 1..Len(a) /\ i \in 1..Len(b)
          /\ \A j \in 1..(i - 1) : j \in 1..Len(a) /\ j \in 1..Len(b)
      BY <1>1, <2>1, <2>2
    <3>2. i \in Common(a, b)
      BY <1>1, <3>1, CommonPlaces
    <3>3. Below(a, b, i)
      BY <1>1, <1>3, <3>1, <3>2 DEF Below
    <3> QED BY <3>2, <3>3 DEF Leq
  <2>3. CASE n < i
    <3>1. /\ Len(a) = n /\ Len(b) = n
          /\ \A j \in 1..n : j \in 1..(i - 1)
      BY <1>1, <2>1, <2>3
    <3>2. StartOf(a, b)
      BY <1>1, <1>3, <3>1 DEF Below, StartOf
    <3> QED BY <3>2 DEF Leq
  <2> QED BY <2>1, <2>2, <2>3
<1> QED BY <1>2, <1>3 DEF Leq, a, b

\* Concatenation, position by position.
LEMMA Joined ==
    ASSUME NEW S, NEW s \in Seq(S), NEW t \in Seq(S)
    PROVE  LET u == s \o t IN
           /\ u \in Seq(S) /\ Len(u) = Len(s) + Len(t)
           /\ Len(s) \in Nat /\ Len(t) \in Nat
           /\ \A i \in 1..Len(s) : i \in 1..Len(u) /\ u[i] = s[i]
           /\ \A i \in 1..Len(t) : Len(s) + i \in 1..Len(u) /\ u[Len(s) + i] = t[i]
           /\ \A i \in 1..Len(u) :
                 i \notin 1..Len(s) => i - Len(s) \in 1..Len(t)
                                       /\ u[i] = t[i - Len(s)]
OBVIOUS

LEMMA InFrontKeepsOrder ==
    ASSUME NEW z \in IntSeqs, NEW s \in IntSeqs, NEW t \in IntSeqs, Leq(s, t)
    PROVE  Leq(z \o s, z \o t)
<1> DEFINE a == z \o s
           b == z \o t
<1>1. /\ a \in IntSeqs /\ b \in IntSeqs
      /\ Len(a) = Len(z) + Len(s) /\ Len(b) = Len(z) + Len(t)
      /\ Len(z) \in Nat /\ Len(s) \in Nat /\ Len(t) \in Nat
      /\ \A i \in 1..Len(z) : a[i] = z[i] /\ b[i] = z[i]
      /\ \A i \in 1..Len(s) : a[Len(z) + i] = s[i]
      /\ \A i \in 1..Len(t) : b[Len(z) + i] = t[i]
      /\ \A i \in 1..Len(a) : i \notin 1..Len(z) =>
            i - Len(z) \in 1..Len(s) /\ a[i] = s[i - Len(z)]
      /\ \A i \in 1..Len(b) : i \notin 1..Len(z) =>
            i - Len(z) \in 1..Len(t) /\ b[i] = t[i - Len(z)]
  BY Joined DEF IntSeqs
<1> HIDE DEF a, b
<1>2. CASE StartOf(s, t)
  <2>1. Len(a) <= Len(b)
    BY <1>1, <1>2 DEF StartOf
  <2>2. ASSUME NEW i \in 1..Len(a)
        PROVE  a[i] = b[i]
    <3>1. CASE i \in 1..Len(z)
      BY <1>1, <3>1
    <3>2. CASE i \notin 1..Len(z)
      <4>1. i - Len(z) \in 1..Len(s) /\ a[i] = s[i - Len(z)]
        BY <1>1, <3>2
      <4>2. i \in 1..Len(b)
        BY <1>1, <2>1
      <4>3. b[i] = t[i - Len(z)]
        BY <1>1, <3>2, <4>2
      <4> QED BY <1>2, <4>1, <4>3 DEF StartOf
    <3> QED BY <3>1, <3>2
  <2>3. StartOf(a, b)
    BY <2>1, <2>2 DEF StartOf
  <2> QED BY <2>3 DEF Leq, a, b
<1>3. ASSUME NEW k \in Common(s, t), Below(s, t, k)
      PROVE  Leq(a, b)
  <2> DEFINE i == Len(z) + k
  <2>1. k \in 1..Len(s) /\ k \in 1..Len(t)
    BY CommonPlaces
  <2>2. i \in 1..Len(a) /\ i \in 1..Len(b) /\ a[i] = s[k] /\ b[i] = t[k]
    BY <1>1, <2>1
  <2>3. i \in Common(a, b)
    BY <1>1, <2>2, CommonPlaces
  <2>4. ASSUME NEW j \in 1..(i - 1)
        PROVE  a[j] = b[j]
    <3>1. CASE j \in 1..Len(z)
      BY <1>1, <3>1
    <3>2. CASE j \notin 1..Len(z)
      <4>1. j \in 1..Len(a) /\ j \in 1..Len(b)
        BY <1>1, <2>2
      <4>2. a[j] = s[j - Len(z)] /\ b[j] = t[j - Len(z)]
        BY <1>1, <3>2, <4>1
      <4>3. j - Len(z) \in 1..(k - 1)
        BY <1>1, <2>1, <3>2
      <4> QED BY <1>3, <4>2, <4>3 DEF Below
    <3> QED BY <3>1, <3>2
  <2>5. Below(a, b, i)
    BY <1>3, <2>2, <2>3, <2>4 DEF Below
  <2> QED BY <2>3, <2>5 DEF Leq
<1> QED BY <1>2, <1>3 DEF Leq, a, b

LEMMA BehindKeepsOrder ==
    ASSUME NEW z \in IntSeqs, NEW s \in IntSeqs, NEW t \in IntSeqs, Leq(s, t),
           Differ(s, t) # {}
    PROVE  Leq(s \o z, t \o z)
<1>1. PICK i \in Common(s, t) : Below(s, t, i)
  <2>1. PICK i \in Common(s, t) : s[i] # t[i]
    BY DEF Differ
  <2>2. ~StartOf(s, t)
    BY <2>1, CommonPlaces DEF StartOf
  <2> QED BY <2>2 DEF Leq
<1> DEFINE a == s \o z
           b == t \o z
<1>2. /\ a \in IntSeqs /\ b \in IntSeqs /\ Len(s) \in Nat /\ Len(t) \in Nat
      /\ \A j \in 1..Len(s) : j \in 1..Len(a) /\ a[j] = s[j]
      /\ \A j \in 1..Len(t) : j \in 1..Len(b) /\ b[j] = t[j]
  BY Joined DEF IntSeqs
<1> HIDE DEF a, b
<1>3. i \in 1..Len(s) /\ i \in 1..Len(t)
  BY CommonPlaces
<1>4. \A j \in 1..(i - 1) : j \in 1..Len(s) /\ j \in 1..Len(t)
  BY <1>2, <1>3
<1>5. i \in Common(a, b)
  BY <1>2, <1>3, CommonPlaces
<1>6. Below(a, b, i)
  BY <1>1, <1>2, <1>3, <1>4, <1>5 DEF Below
<1> QED BY <1>5, <1>6 DEF Leq, a, b

----------------------------------------------------------------------------
(* Values and their units. *)

\* The bytes of a value of type t.
ValueOf(t, s) == s \in Seq(Byte) /\ (t = "nvarchar" => Len(s) % 2 = 0)

\* Changing the case of a byte.
LEMMA CasedByte ==
    ASSUME NEW b \in Byte
    PROVE  /\ ToLower(b) \in Byte /\ ToUpper(b) \in Byte
           /\ ToLower(ToLower(b)) = ToLower(b) /\ ToLower(ToUpper(b)) = ToLower(b)
           /\ ToLower(0) = 0 /\ ToUpper(0) = 0
BY DEF ToLower, ToUpper, Byte

LEMMA CasedOf ==
    ASSUME NEW s \in Seq(Byte), NEW case \in {"upper", "lower"}
    PROVE  LET c == Cased(case, s) IN
           /\ c \in Seq(Byte) /\ Len(c) = Len(s)
           /\ \A i \in 1..Len(s) :
                 c[i] = IF case = "upper" THEN ToUpper(s[i]) ELSE ToLower(s[i])
<1>1. \A i \in 1..Len(s) : ToUpper(s[i]) \in Byte /\ ToLower(s[i]) \in Byte
  BY CasedByte
<1>2. DOMAIN s = 1..Len(s) /\ Len(s) \in Nat
  OBVIOUS
<1> QED BY <1>1, <1>2 DEF Cased

\* Two bytes make a unit.
LEMMA HalvesJoined ==
    ASSUME NEW a \in Byte, NEW b \in Byte
    PROVE  a + 256 * b \in Unit
<1>1. a \in Nat /\ a <= 255 /\ b \in Nat /\ b <= 255
  BY DEF Byte
<1>2. a + 256 * b \in Nat /\ a + 256 * b <= 65535
  BY <1>1
<1> QED BY <1>2 DEF Unit

\* A unit has two bytes.
LEMMA Halves ==
    ASSUME NEW u \in Unit
    PROVE  /\ u % 256 \in Byte /\ u \div 256 \in Byte
           /\ (u % 256) + 256 * (u \div 256) = u
<1>1. u \in Nat /\ u <= 65535
  BY DEF Unit
<1>2. u % 256 \in Nat /\ u % 256 <= 255
  BY <1>1
<1>3. u \div 256 \in Nat /\ u \div 256 <= 255
  BY <1>1
<1>4. (u % 256) + 256 * (u \div 256) = u
  BY <1>1
<1> QED BY <1>2, <1>3, <1>4 DEF Byte

\* Bytes and units are numbers.
LEMMA NumberSeqs == Seq(Byte) \subseteq IntSeqs /\ Seq(Unit) \subseteq IntSeqs
<1>1. ASSUME NEW S, \A a \in S : a \in Int, NEW s \in Seq(S)
      PROVE  s \in Seq(Int)
  <2>1. \A i \in 1..Len(s) : s[i] \in Int
    BY <1>1
  <2> QED BY <2>1
<1>2. (\A a \in Byte : a \in Int) /\ (\A a \in Unit : a \in Int)
  BY DEF Byte, Unit
<1> QED BY <1>1, <1>2 DEF IntSeqs

\* The units of a value.
LEMMA UnitsOf ==
    ASSUME NEW s \in Seq(Byte)
    PROVE  LET us == Units(s) IN
           /\ us \in Seq(Unit) /\ Len(us) = Len(s) \div 2
           /\ Len(s) \in Nat /\ Len(us) \in Nat /\ 2 * Len(us) <= Len(s)
           /\ Len(s) % 2 = 0 => 2 * Len(us) = Len(s)
           /\ \A i \in 1..Len(us) :
                 /\ 2 * i - 1 \in 1..Len(s) /\ 2 * i \in 1..Len(s)
                 /\ s[2 * i - 1] \in Byte /\ s[2 * i] \in Byte
                 /\ us[i] = s[2 * i - 1] + 256 * s[2 * i]
<1> DEFINE n == Len(s) \div 2
<1>1. /\ Len(s) \in Nat /\ n \in Nat /\ 2 * n <= Len(s)
      /\ Len(s) % 2 = 0 => 2 * n = Len(s)
  OBVIOUS
<1> HIDE DEF n
<1>2. ASSUME NEW i \in 1..n
      PROVE  /\ 2 * i - 1 \in 1..Len(s) /\ 2 * i \in 1..Len(s)
             /\ s[2 * i - 1] \in Byte /\ s[2 * i] \in Byte
             /\ s[2 * i - 1] + 256 * s[2 * i] \in Unit
  <2>1. 2 * i - 1 \in 1..Len(s) /\ 2 * i \in 1..Len(s)
    BY <1>1
  <2>2. s[2 * i - 1] \in Byte /\ s[2 * i] \in Byte
    BY <2>1
  <2>3. s[2 * i - 1] + 256 * s[2 * i] \in Unit
    BY <2>2, HalvesJoined
  <2> QED BY <2>1, <2>2, <2>3
<1>3. Units(s) = [i \in 1..n |-> s[2 * i - 1] + 256 * s[2 * i]]
  BY DEF Units, n
<1>4. Units(s) \in Seq(Unit) /\ Len(Units(s)) = n
  BY <1>1, <1>2, <1>3
<1> QED BY <1>1, <1>2, <1>3, <1>4 DEF n

\* One of them.
LEMMA UnitAt ==
    ASSUME NEW s \in Seq(Byte), NEW i \in 1..Len(Units(s))
    PROVE  /\ 2 * i - 1 \in 1..Len(s) /\ 2 * i \in 1..Len(s)
           /\ s[2 * i - 1] \in Byte /\ s[2 * i] \in Byte
           /\ Units(s)[i] = s[2 * i - 1] + 256 * s[2 * i]
BY UnitsOf

\* Its value alone.
LEMMA UnitIs ==
    ASSUME NEW s \in Seq(Byte), NEW i \in 1..Len(Units(s))
    PROVE  Units(s)[i] = s[2 * i - 1] + 256 * s[2 * i]
BY UnitAt

\* The bytes of units.
LEMMA BytesOf ==
    ASSUME NEW us \in Seq(Unit)
    PROVE  LET s == Bytes(us) IN
           /\ s \in Seq(Byte) /\ Len(s) = 2 * Len(us) /\ Len(s) % 2 = 0
           /\ Units(s) = us
<1> DEFINE n == Len(us)
           s == Bytes(us)
<1>1. n \in Nat /\ 2 * n \in Nat
  OBVIOUS
<1>2. ASSUME NEW i \in 1..n
      PROVE  /\ us[i] \in Unit
             /\ us[i] % 256 \in Byte /\ us[i] \div 256 \in Byte
             /\ (us[i] % 256) + 256 * (us[i] \div 256) = us[i]
  <2> DEFINE u == us[i]
  <2>1. u \in Unit
    OBVIOUS
  <2> HIDE DEF u
  <2>2. /\ u % 256 \in Byte /\ u \div 256 \in Byte
        /\ (u % 256) + 256 * (u \div 256) = u
    BY <2>1, Halves
  <2> QED BY <2>1, <2>2 DEF u
<1> HIDE DEF n
<1>3. ASSUME NEW i \in 1..(2 * n)
      PROVE  (i + 1) \div 2 \in 1..n
  BY <1>1
<1>4. s = [i \in 1..(2 * n) |->
              IF i % 2 = 1 THEN us[(i + 1) \div 2] % 256
                           ELSE us[(i + 1) \div 2] \div 256]
  BY DEF Bytes, n
<1>5. s \in Seq(Byte) /\ Len(s) = 2 * n
  BY <1>1, <1>2, <1>3, <1>4
<1>6. Len(s) % 2 = 0
  BY <1>1, <1>5
<1> HIDE DEF s
<1>7. Units(s) \in Seq(Unit) /\ Len(Units(s)) = n
  BY <1>1, <1>5, <1>6, UnitsOf
<1>8. ASSUME NEW i \in 1..n
      PROVE  Units(s)[i] = us[i]
  <2>1. Units(s)[i] = s[2 * i - 1] + 256 * s[2 * i]
    <3>1. i \in 1..Len(Units(s))
      BY <1>7
    <3>2. s \in Seq(Byte)
      BY <1>5
    <3> QED BY <3>1, <3>2, UnitIs
  <2>2. /\ 2 * i - 1 \in 1..(2 * n) /\ (2 * i - 1) % 2 = 1
        /\ (2 * i - 1 + 1) \div 2 = i
    BY <1>1
  <2>3. 2 * i \in 1..(2 * n) /\ (2 * i) % 2 # 1 /\ (2 * i + 1) \div 2 = i
    BY <1>1
  <2>4. s[2 * i - 1] = us[i] % 256
    BY <1>4, <2>2
  <2>5. s[2 * i] = us[i] \div 256
    BY <1>4, <2>3
  <2> QED BY <1>2, <2>1, <2>4, <2>5
<1>9. Units(s) = us
  BY <1>7, <1>8 DEF n
<1> QED BY <1>5, <1>6, <1>9 DEF n, s

\* The lengths of types: -1 is none.
Lengths == Nat \cup {-1}

CutTo(n, s) == IF n = -1 THEN s ELSE Cut(n, s)

\* A cut, position by position.
LEMMA CutToOf ==
    ASSUME NEW S, NEW n \in Lengths, NEW s \in Seq(S)
    PROVE  LET c == CutTo(n, s) IN
           /\ c \in Seq(S) /\ Len(c) \in Nat /\ Len(s) \in Nat
           /\ Len(c) = IF n = -1 \/ n > Len(s) THEN Len(s) ELSE n
           /\ \A i \in 1..Len(c) : i \in 1..Len(s) /\ c[i] = s[i]
<1>1. CASE n = -1
  BY <1>1 DEF CutTo
<1>2. CASE n \in Nat
  <2>1. CutTo(n, s) = Cut(n, s)
    BY <1>2 DEF CutTo
  <2> QED BY <1>2, <2>1, CutOf
<1> QED BY <1>1, <1>2 DEF Lengths

LEMMA CutToKeepsOrder ==
    ASSUME NEW n \in Lengths, NEW s \in IntSeqs, NEW t \in IntSeqs, Leq(s, t)
    PROVE  Leq(CutTo(n, s), CutTo(n, t))
<1>1. CASE n = -1
  BY <1>1 DEF CutTo
<1>2. CASE n \in Nat
  BY <1>2, CutKeepsOrder DEF CutTo
<1> QED BY <1>1, <1>2 DEF Lengths

\* The coercion to a length, in bytes.
LEMMA TruncatedOf ==
    ASSUME NEW t, NEW n \in Lengths, NEW s, Len(s) \in Nat
    PROVE  /\ t # "nvarchar" => Truncated(t, n, s) = CutTo(n, s)
           /\ t = "nvarchar" =>
                 Truncated(t, n, s) = CutTo(IF n = -1 THEN -1 ELSE 2 * n, s)
<1>1. CASE n = -1
  BY <1>1 DEF Truncated, CutTo
<1>2. CASE n \in Nat
  BY <1>2 DEF Truncated, CutTo, Cut, UnitSize
<1> QED BY <1>1, <1>2 DEF Lengths

\* The units that a value of type t has.
Glyphs(t, s) == IF t = "nvarchar" THEN Units(s) ELSE s

LEMMA GlyphsOf ==
    ASSUME NEW t \in Types, NEW s, ValueOf(t, s)
    PROVE  /\ Glyphs(t, s) \in Seq(Unit) /\ Glyphs(t, s) \in IntSeqs
           /\ Len(Glyphs(t, s)) \in Nat
           /\ Len(s) = UnitSize(t) * Len(Glyphs(t, s))
           /\ t # "nvarchar" => Glyphs(t, s) \in Seq(Byte)
<1>1. s \in Seq(Byte) /\ Len(s) \in Nat
  BY DEF ValueOf
<1>2. \A b \in Byte : b \in Unit
  BY DEF Byte, Unit
<1>3. s \in Seq(Unit)
  <2>1. \A i \in 1..Len(s) : s[i] \in Unit
    BY <1>1, <1>2
  <2> QED BY <1>1, <2>1
<1>4. CASE t # "nvarchar"
  BY <1>1, <1>3, <1>4, NumberSeqs DEF Glyphs, UnitSize
<1>5. CASE t = "nvarchar"
  <2>1. /\ Units(s) \in Seq(Unit) /\ Len(Units(s)) \in Nat
        /\ 2 * Len(Units(s)) = Len(s)
    BY <1>1, <1>5, UnitsOf DEF ValueOf
  <2> QED BY <1>5, <2>1, NumberSeqs DEF Glyphs, UnitSize
<1> QED BY <1>4, <1>5

\* A coercion cuts the units.
LEMMA GlyphsTruncated ==
    ASSUME NEW t \in Types, NEW n \in Lengths, NEW s, ValueOf(t, s)
    PROVE  /\ ValueOf(t, Truncated(t, n, s))
           /\ Glyphs(t, Truncated(t, n, s)) = CutTo(n, Glyphs(t, s))
<1> DEFINE r == Truncated(t, n, s)
<1>1. s \in Seq(Byte) /\ Len(s) \in Nat
  BY DEF ValueOf
<1>2. CASE t # "nvarchar"
  <2>1. r = CutTo(n, s)
    BY <1>1, <1>2, TruncatedOf
  <2>2. r \in Seq(Byte)
    BY <1>1, <2>1, CutToOf
  <2> QED BY <1>2, <2>1, <2>2 DEF ValueOf, Glyphs
<1>3. CASE t = "nvarchar"
  <2> DEFINE m == IF n = -1 THEN -1 ELSE 2 * n
             us == Units(s)
             vs == Units(r)
             c == CutTo(n, us)
  <2>1. m \in Lengths /\ r = CutTo(m, s)
    BY <1>1, <1>3, TruncatedOf DEF Lengths
  <2>2. /\ r \in Seq(Byte)
        /\ Len(r) = IF n = -1 \/ 2 * n > Len(s) THEN Len(s) ELSE 2 * n
        /\ \A i \in 1..Len(r) : i \in 1..Len(s) /\ r[i] = s[i]
    <3>1. /\ r \in Seq(Byte)
          /\ Len(r) = IF m = -1 \/ m > Len(s) THEN Len(s) ELSE m
          /\ \A i \in 1..Len(r) : i \in 1..Len(s) /\ r[i] = s[i]
      BY <1>1, <2>1, CutToOf
    <3>2. m = -1 <=> n = -1
      BY DEF Lengths
    <3> QED BY <3>1, <3>2
  <2>3. /\ Len(s) % 2 = 0 /\ 2 * Len(us) = Len(s) /\ Len(us) \in Nat
        /\ us \in Seq(Unit)
    BY <1>1, <1>3, UnitsOf DEF ValueOf
  <2> HIDE DEF r, m, us, vs
  <2>4. /\ c \in Seq(Unit)
        /\ Len(c) = IF n = -1 \/ n > Len(us) THEN Len(us) ELSE n
        /\ \A i \in 1..Len(c) : i \in 1..Len(us) /\ c[i] = us[i]
    BY <2>3, CutToOf
  <2> HIDE DEF c
  <2>5. Len(r) % 2 = 0
    <3>1. CASE Len(r) = Len(s)
      BY <2>3, <3>1
    <3>2. CASE n \in Nat /\ Len(r) = 2 * n
      BY <3>2
    <3> QED BY <2>2, <3>1, <3>2 DEF Lengths
  <2>6. 2 * Len(vs) = Len(r) /\ Len(vs) \in Nat /\ vs \in Seq(Unit)
    BY <2>2, <2>5, UnitsOf DEF vs
  <2>7. Len(vs) = Len(c)
    <3>1. CASE n = -1 \/ 2 * n > Len(s)
      <4>1. Len(r) = Len(s)
        BY <2>2, <3>1
      <4>2. n = -1 \/ n > Len(us)
        BY <2>3, <3>1 DEF Lengths
      <4>3. Len(c) = Len(us)
        BY <2>4, <4>2
      <4> QED BY <2>3, <2>6, <4>1, <4>3
    <3>2. CASE ~(n = -1 \/ 2 * n > Len(s))
      <4>1. Len(r) = 2 * n /\ n \in Nat
        BY <2>2, <3>2 DEF Lengths
      <4>2. ~(n = -1 \/ n > Len(us))
        BY <2>3, <3>2, <4>1
      <4>3. Len(c) = n
        BY <2>4, <4>2
      <4> QED BY <2>6, <4>1, <4>3
    <3> QED BY <3>1, <3>2
  <2>8. ASSUME NEW i \in 1..Len(vs)
        PROVE  vs[i] = c[i]
    <3>1. i \in 1..Len(us) /\ c[i] = us[i]
      BY <2>4, <2>7
    <3>2. /\ 2 * i - 1 \in 1..Len(r) /\ 2 * i \in 1..Len(r)
          /\ vs[i] = r[2 * i - 1] + 256 * r[2 * i]
      BY <2>2, UnitAt DEF vs
    <3>3. us[i] = s[2 * i - 1] + 256 * s[2 * i]
      BY <1>1, <3>1, UnitAt DEF us
    <3>4. r[2 * i - 1] = s[2 * i - 1] /\ r[2 * i] = s[2 * i]
      BY <2>2, <3>2
    <3> QED BY <3>1, <3>2, <3>3, <3>4
  <2>9. vs = c
    <3>1. vs \in IntSeqs /\ c \in IntSeqs
      BY <2>4, <2>6, NumberSeqs
    <3> QED BY <2>7, <2>8, <3>1, SameSeq
  <2>10. Glyphs(t, s) = us /\ Glyphs(t, r) = vs
    BY <1>3 DEF Glyphs, us, vs
  <2> QED BY <2>2, <2>5, <2>9, <2>10 DEF ValueOf, c, r
<1> QED BY <1>2, <1>3

\* The value of units.
LEMMA GlyphsOfBytes ==
    ASSUME NEW us \in Seq(Unit)
    PROVE  ValueOf("nvarchar", Bytes(us)) /\ Glyphs("nvarchar", Bytes(us)) = us
BY BytesOf DEF ValueOf, Glyphs

\* A varchar and the nvarchar it is made into have the same units.
LEMMA GlyphsWidened ==
    ASSUME NEW n \in Lengths, NEW s \in Seq(Byte)
    PROVE  /\ ValueOf("nvarchar", In("nvarchar", n, s))
           /\ Glyphs("nvarchar", In("nvarchar", n, s)) = CutTo(n, s)
<1> DEFINE c == Truncated("varchar", n, s)
<1>1. "varchar" \in Types /\ ValueOf("varchar", s)
  BY DEF Types, ValueOf
<1>2. ValueOf("varchar", c) /\ c = CutTo(n, s)
  <2>1. ValueOf("varchar", c) /\ Glyphs("varchar", c) = CutTo(n, Glyphs("varchar", s))
    BY <1>1, GlyphsTruncated
  <2> QED BY <2>1 DEF Glyphs
<1>3. In("nvarchar", n, s) = Bytes(c)
  BY DEF In
<1> HIDE DEF c
<1>4. c \in Seq(Unit)
  <2>1. Glyphs("varchar", c) \in Seq(Unit)
    BY <1>1, <1>2, GlyphsOf
  <2> QED BY <2>1 DEF Glyphs
<1> QED BY <1>2, <1>3, <1>4, GlyphsOfBytes

\* A value that is written as text and read again is cut, and not changed
\* otherwise.
LEMMA GlyphsReloaded ==
    ASSUME NEW t \in Types, NEW n \in Lengths, NEW s, ValueOf(t, s), ~HasWide(t, s)
    PROVE  /\ ValueOf(t, In(t, n, Out(t, s)))
           /\ Glyphs(t, In(t, n, Out(t, s))) = CutTo(n, Glyphs(t, s))
<1>1. s \in Seq(Byte) /\ Len(s) \in Nat
  BY DEF ValueOf
<1>2. CASE t # "nvarchar"
  <2>1. In(t, n, Out(t, s)) = Truncated("varchar", n, s)
    BY <1>2 DEF In, Out
  <2>2. Truncated("varchar", n, s) = Truncated(t, n, s)
    BY <1>2 DEF Truncated, UnitSize
  <2> QED BY <2>1, <2>2, GlyphsTruncated
<1>3. CASE t = "nvarchar"
  <2> DEFINE us == Units(s)
             cut == CutTo(n, us)
  <2>1. us \in Seq(Unit) /\ Len(us) \in Nat /\ DOMAIN us = 1..Len(us)
    BY <1>1, UnitsOf
  <2>2. \A i \in DOMAIN us : ~(us[i] > 255)
    BY <1>3 DEF HasWide
  <2>3. Glyphs(t, s) = us
    BY <1>3 DEF Glyphs
  <2>4. Out(t, s) = us
    <3>1. Out(t, s) = Latin(us)
      BY <1>3 DEF Out
    <3> HIDE DEF us
    <3>2. Latin(us) = [i \in 1..Len(us) |-> us[i]]
      BY <2>1, <2>2 DEF Latin
    <3> QED BY <2>1, <3>1, <3>2
  <2>5. In(t, n, Out(t, s)) = Bytes(cut)
    <3>1. In(t, n, Out(t, s)) = Bytes(Truncated("varchar", n, us))
      BY <1>3, <2>4 DEF In
    <3>2. Truncated("varchar", n, us) = cut
      BY <2>1, TruncatedOf
    <3> QED BY <3>1, <3>2
  <2> HIDE DEF us
  <2>6. cut \in Seq(Unit)
    BY <2>1, CutToOf
  <2> HIDE DEF cut
  <2> QED BY <1>3, <2>3, <2>5, <2>6, GlyphsOfBytes DEF cut
<1> QED BY <1>2, <1>3

\* Without wide units, upper and lower change the case of each unit.
LEMMA GlyphsCased ==
    ASSUME NEW t \in Types, t # "varbinary", NEW case \in {"upper", "lower"},
           NEW s, ValueOf(t, s), ~HasWide(t, s)
    PROVE  LET r == Cased(case, s) IN
           /\ ValueOf(t, r) /\ Len(Glyphs(t, r)) = Len(Glyphs(t, s))
           /\ \A i \in 1..Len(Glyphs(t, s)) :
                 /\ Glyphs(t, s)[i] \in Byte
                 /\ Glyphs(t, r)[i] = IF case = "upper" THEN ToUpper(Glyphs(t, s)[i])
                                                        ELSE ToLower(Glyphs(t, s)[i])
<1> DEFINE r == Cased(case, s)
<1>1. /\ s \in Seq(Byte) /\ Len(s) \in Nat
      /\ r \in Seq(Byte) /\ Len(r) = Len(s)
      /\ \A i \in 1..Len(s) :
            /\ s[i] \in Byte
            /\ r[i] = IF case = "upper" THEN ToUpper(s[i]) ELSE ToLower(s[i])
  BY CasedOf DEF ValueOf
<1> HIDE DEF r
<1>2. ValueOf(t, r)
  BY <1>1 DEF ValueOf
<1>3. CASE t = "varchar"
  BY <1>1, <1>2, <1>3 DEF Glyphs, r
<1>4. CASE t = "nvarchar"
  <2> DEFINE us == Units(s)
             vs == Units(r)
  <2>1. /\ Len(us) = Len(vs) /\ Len(us) \in Nat /\ us \in Seq(Unit)
        /\ DOMAIN us = 1..Len(us)
    BY <1>1, UnitsOf
  <2>2. ASSUME NEW i \in 1..Len(us)
        PROVE  /\ us[i] \in Byte
               /\ vs[i] = IF case = "upper" THEN ToUpper(us[i]) ELSE ToLower(us[i])
    <3> DEFINE low == s[2 * i - 1]
               high == s[2 * i]
               b == IF case = "upper" THEN ToUpper(low) ELSE ToLower(low)
    <3>1. /\ 2 * i - 1 \in 1..Len(s) /\ 2 * i \in 1..Len(s)
          /\ low \in Byte /\ high \in Byte
          /\ us[i] = low + 256 * high
      BY <1>1, UnitAt
    <3>2. ~(us[i] > 255)
      BY <1>4, <2>1 DEF HasWide
    <3>3. vs[i] = r[2 * i - 1] + 256 * r[2 * i]
      BY <1>1, <2>1, UnitAt
    <3>4. r[2 * i - 1] = b
      BY <1>1, <3>1
    <3>5. r[2 * i] = IF case = "upper" THEN ToUpper(high) ELSE ToLower(high)
      BY <1>1, <3>1
    <3>6. b \in Byte
      BY <3>1, CasedByte
    <3> HIDE DEF us, vs, low, high
    <3>7. low \in Nat /\ high \in Nat /\ b \in Nat
      BY <3>1, <3>6 DEF Byte
    <3>8. high = 0 /\ us[i] = low
      BY <3>1, <3>2, <3>7
    <3>9. r[2 * i] = 0
      BY <3>5, <3>8 DEF ToUpper, ToLower
    <3>10. vs[i] = b
      BY <3>3, <3>4, <3>7, <3>9
    <3> QED BY <3>1, <3>8, <3>10
  <2>3. Glyphs(t, s) = us /\ Glyphs(t, r) = vs
    BY <1>4 DEF Glyphs
  <2> HIDE DEF us, vs
  <2> QED BY <1>2, <2>1, <2>2, <2>3 DEF r
<1> QED BY <1>3, <1>4 DEF Types

\* The units of a concatenation.
LEMMA GlyphsJoined ==
    ASSUME NEW t \in Types, NEW s, ValueOf(t, s), NEW z, ValueOf(t, z)
    PROVE  /\ ValueOf(t, s \o z)
           /\ Glyphs(t, s \o z) = Glyphs(t, s) \o Glyphs(t, z)
<1> DEFINE r == s \o z
<1>1. /\ s \in Seq(Byte) /\ z \in Seq(Byte) /\ r \in Seq(Byte)
      /\ Len(s) \in Nat /\ Len(z) \in Nat /\ Len(r) = Len(s) + Len(z)
      /\ \A i \in 1..Len(s) : r[i] = s[i]
      /\ \A i \in 1..Len(z) : r[Len(s) + i] = z[i]
  <2>1. s \in Seq(Byte) /\ z \in Seq(Byte)
    BY DEF ValueOf
  <2> QED BY <2>1, Joined
<1>2. CASE t # "nvarchar"
  BY <1>1, <1>2 DEF ValueOf, Glyphs
<1>3. CASE t = "nvarchar"
  <2> DEFINE us == Units(s)
             ws == Units(z)
             vs == Units(r)
             c == us \o ws
  <2>1. Len(s) % 2 = 0 /\ Len(z) % 2 = 0
    BY <1>3 DEF ValueOf
  <2>2. /\ us \in Seq(Unit) /\ Len(us) \in Nat /\ 2 * Len(us) = Len(s)
        /\ ws \in Seq(Unit) /\ Len(ws) \in Nat /\ 2 * Len(ws) = Len(z)
    BY <1>1, <2>1, UnitsOf
  <2> HIDE DEF r
  <2>3. Len(r) = 2 * (Len(us) + Len(ws)) /\ Len(r) % 2 = 0
    <3>1. \A a, b \in Nat : 2 * a + 2 * b = 2 * (a + b) /\ (2 * a + 2 * b) % 2 = 0
      OBVIOUS
    <3>2. Len(us) \in Nat /\ Len(ws) \in Nat /\ Len(r) = 2 * Len(us) + 2 * Len(ws)
      BY <1>1, <2>2
    <3> QED BY <3>1, <3>2
  <2>4. vs \in Seq(Unit) /\ Len(vs) = Len(us) + Len(ws)
    <3>1. vs \in Seq(Unit) /\ Len(vs) \in Nat /\ 2 * Len(vs) = Len(r)
      BY <1>1, <2>3, UnitsOf
    <3> QED BY <2>2, <2>3, <3>1
  <2>5. \A i \in 1..Len(us) : /\ 2 * i - 1 \in 1..Len(s) /\ 2 * i \in 1..Len(s)
                              /\ us[i] = s[2 * i - 1] + 256 * s[2 * i]
    BY <1>1, UnitAt
  <2>6. \A i \in 1..Len(ws) : /\ 2 * i - 1 \in 1..Len(z) /\ 2 * i \in 1..Len(z)
                              /\ ws[i] = z[2 * i - 1] + 256 * z[2 * i]
    BY <1>1, UnitAt
  <2>7. ASSUME NEW i \in 1..Len(vs)
        PROVE  vs[i] = r[2 * i - 1] + 256 * r[2 * i]
    <3>1. r \in Seq(Byte) /\ i \in 1..Len(Units(r))
      BY <1>1, <2>7
    <3> QED BY <3>1, UnitIs
  <2> HIDE DEF us, ws, vs
  <2>8. /\ c \in Seq(Unit) /\ Len(c) = Len(us) + Len(ws)
        /\ \A i \in 1..Len(us) : c[i] = us[i]
        /\ \A i \in 1..Len(c) :
              i \notin 1..Len(us) => i - Len(us) \in 1..Len(ws)
                                     /\ c[i] = ws[i - Len(us)]
    BY <2>2, Joined
  <2> HIDE DEF c
  <2>9. ASSUME NEW i \in 1..Len(vs)
        PROVE  vs[i] = c[i]
    <3>1. CASE i \in 1..Len(us)
      <4>1. r[2 * i - 1] = s[2 * i - 1] /\ r[2 * i] = s[2 * i]
        BY <1>1, <2>5, <3>1
      <4> QED BY <2>5, <2>7, <2>8, <3>1, <4>1
    <3>2. CASE i \notin 1..Len(us)
      <4> DEFINE j == i - Len(us)
      <4>1. j \in 1..Len(ws) /\ c[i] = ws[j]
        BY <2>4, <2>8, <3>2
      <4>2. /\ 2 * j - 1 \in 1..Len(z) /\ 2 * j \in 1..Len(z)
            /\ ws[j] = z[2 * j - 1] + 256 * z[2 * j]
        BY <2>6, <4>1
      <4>3. /\ r[Len(s) + (2 * j - 1)] = z[2 * j - 1]
            /\ r[Len(s) + 2 * j] = z[2 * j]
        BY <1>1, <4>2
      <4>4. Len(s) + (2 * j - 1) = 2 * i - 1 /\ Len(s) + 2 * j = 2 * i
        BY <2>2
      <4>5. r[2 * i - 1] = z[2 * j - 1] /\ r[2 * i] = z[2 * j]
        BY <4>3, <4>4
      <4> HIDE DEF j
      <4> QED BY <2>7, <4>1, <4>2, <4>5
    <3> QED BY <3>1, <3>2
  <2>10. vs = c
    <3>1. vs \in IntSeqs /\ c \in IntSeqs
      BY <2>4, <2>8, NumberSeqs
    <3> QED BY <2>4, <2>8, <2>9, <3>1, SameSeq
  <2>11. Glyphs(t, s) = us /\ Glyphs(t, z) = ws /\ Glyphs(t, r) = vs
    BY <1>3 DEF Glyphs, us, ws, vs
  <2> QED BY <1>1, <1>3, <2>3, <2>10, <2>11 DEF ValueOf, r, c
<1> QED BY <1>2, <1>3

----------------------------------------------------------------------------
(* What is kept of a sequence of weights. *)

Rank(S, i) == Cardinality({j \in S : j <= i})

\* Parts of a set of positions.
LEMMA PartOf ==
    ASSUME NEW N \in Nat, NEW S, S \subseteq 1..N
    PROVE  /\ IsFiniteSet(S) /\ Cardinality(S) \in Nat
           /\ \A T : T \subseteq S =>
                 /\ IsFiniteSet(T) /\ Cardinality(T) \in Nat
                 /\ Cardinality(T) <= Cardinality(S)
                 /\ Cardinality(T) = Cardinality(S) => T = S
<1>1. IsFiniteSet(1..N)
  BY FS_Interval
<1>2. IsFiniteSet(S)
  BY <1>1, FS_Subset
<1>3. ASSUME NEW T, T \subseteq S
      PROVE  /\ IsFiniteSet(T) /\ Cardinality(T) <= Cardinality(S)
             /\ Cardinality(T) = Cardinality(S) => T = S
  BY <1>2, <1>3, FS_Subset
<1>4. \A T : IsFiniteSet(T) => Cardinality(T) \in Nat
  BY FS_CardinalityType
<1> QED BY <1>2, <1>3, <1>4

\* Positions further behind have a higher rank.
LEMMA RankRises ==
    ASSUME NEW N \in Nat, NEW S, S \subseteq 1..N
    PROVE  /\ \A i \in Int : Rank(S, i) \in Nat /\ Rank(S, i) <= Cardinality(S)
           /\ \A i, j \in Int : i <= j => Rank(S, i) <= Rank(S, j)
           /\ \A i \in Int, j \in S : i < j => Rank(S, i) < Rank(S, j)
           /\ \A i \in S : Rank(S, i) >= 1
<1> DEFINE P(i) == {j \in S : j <= i}
<1>1. \A j \in S : j \in Int /\ j \in 1..N
  OBVIOUS
<1>2. ASSUME NEW i \in Int
      PROVE  Rank(S, i) \in Nat /\ Rank(S, i) <= Cardinality(S)
  <2>1. P(i) \subseteq S
    OBVIOUS
  <2>2. Cardinality(P(i)) \in Nat /\ Cardinality(P(i)) <= Cardinality(S)
    BY <2>1, PartOf
  <2> QED BY <2>2 DEF Rank
<1>3. ASSUME NEW i \in Int, NEW j \in Int, i <= j
      PROVE  /\ Rank(S, i) <= Rank(S, j)
             /\ j \in S /\ i < j => Rank(S, i) # Rank(S, j)
  <2>1. P(j) \subseteq 1..N /\ P(i) \subseteq P(j)
    <3>1. \A m \in S : m <= i => m <= j
      BY <1>1, <1>3
    <3> QED BY <1>1, <3>1
  <2>2. /\ Cardinality(P(i)) <= Cardinality(P(j))
        /\ Cardinality(P(i)) = Cardinality(P(j)) => P(i) = P(j)
    BY <2>1, PartOf
  <2>3. j \in S /\ i < j => j \in P(j) /\ j \notin P(i)
    OBVIOUS
  <2> HIDE DEF P
  <2>4. Rank(S, i) = Cardinality(P(i)) /\ Rank(S, j) = Cardinality(P(j))
    BY DEF Rank, P
  <2> QED BY <2>2, <2>3, <2>4
<1>4. ASSUME NEW i \in S
      PROVE  Rank(S, i) >= 1
  <2>1. i \in P(i) /\ P(i) \subseteq 1..N
    <3>1. i <= i
      BY <1>1
    <3> QED BY <1>1, <3>1
  <2>2. IsFiniteSet(P(i)) /\ Cardinality(P(i)) \in Nat
    BY <2>1, PartOf
  <2>3. Cardinality(P(i)) # 0
    BY <2>1, <2>2, FS_EmptySet
  <2> HIDE DEF P
  <2>4. Rank(S, i) = Cardinality(P(i))
    BY DEF Rank, P
  <2> QED BY <2>2, <2>3, <2>4
<1>5. ASSUME NEW i \in Int, NEW j \in S, i < j
      PROVE  Rank(S, i) < Rank(S, j)
  <2>1. /\ Rank(S, i) <= Rank(S, j) /\ Rank(S, i) # Rank(S, j)
        /\ Rank(S, i) \in Nat /\ Rank(S, j) \in Nat
    BY <1>1, <1>2, <1>3, <1>5
  <2> QED BY <2>1
<1> HIDE DEF P
<1> QED BY <1>2, <1>3, <1>4, <1>5

\* The position of a rank.
LEMMA NthOfRank ==
    ASSUME NEW N \in Nat, NEW S, S \subseteq 1..N, NEW i \in S
    PROVE  /\ Rank(S, i) \in 1..Cardinality(S)
           /\ Nth(S, Rank(S, i)) = i
<1>1. \A j \in S : j \in Int
  OBVIOUS
<1>2. Rank(S, i) \in Nat /\ Rank(S, i) >= 1 /\ Rank(S, i) <= Cardinality(S)
  BY <1>1, RankRises
<1>3. \A j \in S : Rank(S, j) = Rank(S, i) => j = i
  <2>1. \A j \in S : Rank(S, j) \in Nat
    BY <1>1, RankRises
  <2>2. \A j \in S : /\ j < i => Rank(S, j) < Rank(S, i)
                     /\ i < j => Rank(S, i) < Rank(S, j)
    BY <1>1, RankRises
  <2> QED BY <1>1, <2>1, <2>2
<1>4. Nth(S, Rank(S, i)) = CHOOSE j \in S : Rank(S, j) = Rank(S, i)
  BY DEF Nth, Rank
<1>5. Cardinality(S) \in Nat
  BY PartOf
<1> QED BY <1>2, <1>3, <1>4, <1>5

\* There is a position of every rank.
LEMMA RankOfNth ==
    ASSUME NEW N \in Nat, NEW S, S \subseteq 1..N, NEW k \in 1..Cardinality(S)
    PROVE  Nth(S, k) \in S /\ Rank(S, Nth(S, k)) = k
<1> DEFINE T == {n \in Nat : k <= Rank(S, n)}
<1>0. \A j \in S : j \in Int /\ 1 <= j /\ j <= N
  OBVIOUS
<1>1. Cardinality(S) \in Nat /\ k \in Nat /\ 1 <= k /\ k <= Cardinality(S)
  <2>1. Cardinality(S) \in Nat
    BY PartOf
  <2> QED BY <2>1
<1>2. N \in T
  <2>1. {j \in S : j <= N} = S
    BY <1>0
  <2> QED BY <1>1, <2>1 DEF Rank
<1>3. PICK n \in T : \A m \in T : n <= m
  BY <1>2, LeastNat
<1>4. n \in Nat /\ k <= Rank(S, n)
  BY <1>3
<1>5. n # 0
  <2>1. {j \in S : j <= 0} = {}
    <3>1. \A j \in S : ~(j <= 0)
      BY <1>0
    <3> QED BY <3>1
  <2>2. Rank(S, 0) = 0
    BY <2>1, FS_EmptySet DEF Rank
  <2> QED BY <1>1, <1>4, <2>2
<1>6. n - 1 \in Nat /\ Rank(S, n - 1) \in Nat /\ Rank(S, n - 1) < k
  <2>1. n - 1 \in Nat
    BY <1>4, <1>5
  <2>2. n - 1 \notin T
    BY <1>3, <1>4
  <2>3. Rank(S, n - 1) \in Nat
    <3>1. n - 1 \in Int
      BY <2>1
    <3> QED BY <3>1, RankRises
  <2> QED BY <1>1, <2>1, <2>2, <2>3
<1>7. n \in S
  <2>1. ASSUME n \notin S PROVE FALSE
    <3>1. {j \in S : j <= n} = {j \in S : j <= n - 1}
      <4>1. \A j \in S : j <= n <=> j <= n - 1
        BY <1>0, <1>4, <2>1
      <4> QED BY <4>1
    <3>2. Rank(S, n) = Rank(S, n - 1)
      BY <3>1 DEF Rank
    <3> QED BY <1>1, <1>4, <1>6, <3>2
  <2> QED BY <2>1
<1>8. Rank(S, n) = Rank(S, n - 1) + 1
  <2> DEFINE A == {j \in S : j <= n - 1}
  <2>1. {j \in S : j <= n} = A \cup {n} /\ n \notin A
    <3>1. /\ \A j \in S : j <= n <=> j <= n - 1 \/ j = n
          /\ ~(n <= n - 1)
      BY <1>0, <1>4
    <3> QED BY <1>7, <3>1
  <2>2. IsFiniteSet(A)
    <3>1. A \subseteq S
      OBVIOUS
    <3> QED BY <3>1, PartOf
  <2> HIDE DEF A
  <2>3. Cardinality(A \cup {n}) = Cardinality(A) + 1
    BY <2>1, <2>2, FS_AddElement
  <2>4. Rank(S, n - 1) = Cardinality(A)
    BY DEF Rank, A
  <2> QED BY <2>1, <2>3, <2>4 DEF Rank
<1>9. Rank(S, n) = k
  BY <1>1, <1>4, <1>6, <1>8
<1> QED BY <1>7, <1>9, NthOfRank

\* What is kept are numbers; each stands at the rank of its position.
LEMMA KeptOf ==
    ASSUME NEW f \in IntSeqs
    PROVE  /\ Present(f) \subseteq 1..Len(f) /\ Len(f) \in Nat
           /\ \A i \in 1..Len(f) : i \in Present(f) <=> f[i] # 0
           /\ Kept(f) \in IntSeqs /\ Len(Kept(f)) = Cardinality(Present(f))
           /\ Len(Kept(f)) \in Nat
           /\ \A k \in 1..Len(Kept(f)) : Kept(f)[k] = f[Nth(Present(f), k)]
<1> DEFINE S == Present(f)
           n == Cardinality(S)
<1>1. /\ Len(f) \in Nat /\ DOMAIN f = 1..Len(f)
      /\ \A i \in 1..Len(f) : f[i] \in Int
  BY DEF IntSeqs
<1>2. S \subseteq 1..Len(f) /\ \A i \in 1..Len(f) : i \in S <=> f[i] # 0
  BY <1>1 DEF Present
<1> HIDE DEF S
<1>3. n \in Nat
  BY <1>1, <1>2, PartOf
<1>4. \A k \in 1..n : Nth(S, k) \in S
  BY <1>1, <1>2, RankOfNth
<1>5. \A k \in 1..n : f[Nth(S, k)] \in Int
  BY <1>1, <1>2, <1>4
<1>6. Kept(f) = [k \in 1..n |-> f[Nth(S, k)]]
  BY DEF Kept, S
<1> HIDE DEF n
<1>7. Kept(f) \in IntSeqs /\ Len(Kept(f)) = n
  BY <1>3, <1>5, <1>6 DEF IntSeqs
<1> QED BY <1>1, <1>2, <1>3, <1>6, <1>7 DEF S, n

LEMMA KeptAt ==
    ASSUME NEW f \in IntSeqs, NEW i \in 1..Len(f), f[i] # 0
    PROVE  /\ Rank(Present(f), i) \in 1..Len(Kept(f))
           /\ Kept(f)[Rank(Present(f), i)] = f[i]
<1>1. i \in Present(f)
  BY KeptOf
<1>2. /\ Rank(Present(f), i) \in 1..Cardinality(Present(f))
      /\ Nth(Present(f), Rank(Present(f), i)) = i
  BY <1>1, KeptOf, NthOfRank
<1> QED BY <1>2, KeptOf

\* All of a sequence without zeros.
LEMMA KeptAll ==
    ASSUME NEW f \in IntSeqs, \A i \in 1..Len(f) : f[i] # 0
    PROVE  Kept(f) = f
<1> DEFINE n == Len(f)
<1>1. n \in Nat /\ Present(f) \subseteq 1..n /\ \A i \in 1..n : i \in Present(f)
  BY KeptOf
<1>2. Present(f) = 1..n
  BY <1>1
<1>3. Cardinality(1..n) = n
  <2>1. Cardinality(1..n) = IF 1 > n THEN 0 ELSE n - 1 + 1
    BY <1>1, FS_Interval
  <2> QED BY <1>1, <2>1
<1>4. \A i \in 1..n : Rank(1..n, i) = i
  <2>1. ASSUME NEW i \in 1..n
        PROVE  Cardinality(1..i) = i
    <3>1. Cardinality(1..i) = IF 1 > i THEN 0 ELSE i - 1 + 1
      BY <1>1, FS_Interval
    <3> QED BY <1>1, <3>1
  <2>2. \A i \in 1..n : {j \in 1..n : j <= i} = 1..i
    BY <1>1
  <2> QED BY <2>1, <2>2 DEF Rank
<1> HIDE DEF n
<1>5. Kept(f) \in IntSeqs /\ Len(Kept(f)) = n
  BY <1>2, <1>3, KeptOf
<1>6. \A i \in 1..n : Kept(f)[i] = f[i]
  BY <1>2, <1>4, KeptAt DEF n
<1> QED BY <1>5, <1>6, SameSeq DEF n

\* Two sequences are the same up to a position where one is less; where it has
\* nothing there, what it has next is less.  Then it is before the other also
\* in what is kept.
LEMMA KeptBelow ==
    ASSUME NEW f \in IntSeqs, NEW g \in IntSeqs, Len(f) = Len(g),
           NEW p \in 1..Len(f), f[p] < g[p], g[p] # 0,
           \A j \in 1..(p - 1) : f[j] = g[j],
           f[p] = 0 /\ p < Len(f) => f[p + 1] # 0 /\ f[p + 1] < g[p]
    PROVE  Leq(Kept(f), Kept(g)) /\ Kept(f) # Kept(g)
<1> DEFINE F == Present(f)
           G == Present(g)
           A == {j \in F : j < p}
           a == Kept(f)
           b == Kept(g)
           k == Rank(G, p)
<1>1. /\ Len(f) \in Nat /\ p \in Nat
      /\ F \subseteq 1..Len(f) /\ \A i \in 1..Len(f) : i \in F <=> f[i] # 0
      /\ G \subseteq 1..Len(f) /\ \A i \in 1..Len(f) : i \in G <=> g[i] # 0
      /\ a \in IntSeqs /\ Len(a) = Cardinality(F) /\ Len(a) \in Nat
      /\ b \in IntSeqs /\ Len(b) = Cardinality(G) /\ Len(b) \in Nat
      /\ \A i \in 1..Len(f) : f[i] \in Int /\ g[i] \in Int
      /\ \A i : i \in F \/ i \in G => i \in Int /\ i \in 1..Len(f)
  <2>1. /\ Len(f) \in Nat
        /\ F \subseteq 1..Len(f) /\ \A i \in 1..Len(f) : i \in F <=> f[i] # 0
        /\ a \in IntSeqs /\ Len(a) = Cardinality(F) /\ Len(a) \in Nat
    BY KeptOf
  <2>2. /\ G \subseteq 1..Len(g) /\ \A i \in 1..Len(g) : i \in G <=> g[i] # 0
        /\ b \in IntSeqs /\ Len(b) = Cardinality(G) /\ Len(b) \in Nat
    BY KeptOf
  <2>3. \A i \in 1..Len(f) : f[i] \in Int /\ g[i] \in Int
    BY DEF IntSeqs
  <2> HIDE DEF F, G, A, a, b, k
  <2>4. p \in Nat /\ Len(g) = Len(f)
    BY <2>1
  <2>5. \A i : i \in F \/ i \in G => i \in Int /\ i \in 1..Len(f)
    <3>1. F \subseteq 1..Len(f) /\ G \subseteq 1..Len(f)
      BY <2>1, <2>2, <2>4
    <3>2. \A i \in 1..Len(f) : i \in Int
      BY <2>1
    <3> QED BY <3>1, <3>2
  <2> QED BY <2>1, <2>2, <2>3, <2>4, <2>5
<1>2. k \in 1..Len(b) /\ b[k] = g[p]
  BY KeptAt
<1> HIDE DEF F, G, a, b
<1>3. A = {j \in G : j < p}
  <2>1. \A j \in 1..Len(f) : j < p => j \in 1..(p - 1)
    BY <1>1
  <2>2. \A j \in 1..Len(f) : j < p => (j \in F <=> j \in G)
    BY <1>1, <2>1
  <2> QED BY <1>1, <2>2
<1>4. IsFiniteSet(A) /\ Cardinality(A) \in Nat /\ p \notin A
  <2>1. A \subseteq 1..Len(f)
    BY <1>1
  <2>2. IsFiniteSet(A) /\ Cardinality(A) \in Nat
    BY <1>1, <2>1, PartOf
  <2> QED BY <1>1, <2>2
<1> HIDE DEF A
<1>5. k = Cardinality(A) + 1
  <2>1. {j \in G : j <= p} = A \cup {p}
    <3>1. p \in G /\ \A j \in G : j <= p <=> j < p \/ j = p
      BY <1>1
    <3> QED BY <1>3, <3>1
  <2>2. Cardinality(A \cup {p}) = Cardinality(A) + 1
    BY <1>4, FS_AddElement
  <2> QED BY <2>1, <2>2 DEF Rank
<1>6. ASSUME NEW j \in 1..(k - 1)
      PROVE  j \in 1..Len(a) /\ a[j] = b[j]
  <2> DEFINE q == Nth(G, j)
  <2>1. j \in 1..Cardinality(G)
    BY <1>1, <1>2
  <2>2. q \in G /\ Rank(G, q) = j
    BY <1>1, <2>1, RankOfNth
  <2> HIDE DEF q
  <2>3. q \in 1..Len(f) /\ q \in Int
    BY <1>1, <2>2
  <2>4. q < p
    <3>1. p <= q => k <= j
      <4>1. p \in Int
        BY <1>1
      <4> QED BY <1>1, <2>2, <2>3, <4>1, RankRises
    <3> QED BY <1>1, <1>2, <2>3, <3>1
  <2>5. q \in 1..(p - 1)
    BY <1>1, <2>3, <2>4
  <2>6. f[q] = g[q] /\ g[q] # 0 /\ f[q] # 0
    BY <1>1, <2>2, <2>3, <2>5
  <2>7. Rank(F, q) = j
    <3>1. \A i \in 1..Len(f) : i <= q => (i \in F <=> i \in G)
      <4>1. \A i \in 1..Len(f) : i <= q => i \in 1..(p - 1)
        BY <1>1, <2>3, <2>4
      <4> QED BY <1>1, <4>1
    <3>2. {i \in F : i <= q} = {i \in G : i <= q}
      BY <1>1, <3>1
    <3> QED BY <2>2, <3>2 DEF Rank
  <2>8. j \in 1..Len(a) /\ a[j] = f[q]
    BY <2>3, <2>6, <2>7, KeptAt DEF F, a
  <2>9. b[j] = g[q]
    <3>1. Len(f) = Len(g)
      OBVIOUS
    <3> QED BY <2>2, <2>3, <2>6, <3>1, KeptAt DEF G, b
  <2> QED BY <2>6, <2>8, <2>9
<1>7. ASSUME NEW q \in 1..Len(f), f[q] # 0, f[q] < g[p], Rank(F, q) = k
      PROVE  Leq(a, b) /\ a # b
  <2>1. k \in 1..Len(a) /\ a[k] = f[q]
    BY <1>7, KeptAt DEF F, a
  <2>2. k \in Common(a, b)
    BY <1>1, <1>2, <2>1, CommonPlaces
  <2>3. Below(a, b, k)
    BY <1>2, <1>6, <1>7, <2>1, <2>2 DEF Below
  <2>4. a[k] # b[k]
    BY <1>1, <1>2, <1>7, <2>1
  <2> QED BY <2>2, <2>3, <2>4 DEF Leq
<1>8. CASE f[p] # 0
  <2>1. {j \in F : j <= p} = A \cup {p}
    <3>1. p \in F
      BY <1>1, <1>8
    <3>2. p \in Int /\ \A j \in F : j \in Int
      BY <1>1
    <3>3. \A j \in F : j <= p <=> j < p \/ j = p
      BY <3>2
    <3> QED BY <3>1, <3>3 DEF A
  <2>2. Rank(F, p) = k
    <3>1. Rank(F, p) = Cardinality(A \cup {p})
      BY <2>1 DEF Rank
    <3> HIDE DEF A
    <3>2. Cardinality(A \cup {p}) = Cardinality(A) + 1
      BY <1>4, FS_AddElement
    <3> QED BY <1>5, <3>1, <3>2
  <2> QED BY <1>7, <1>8, <2>2 DEF a, b
<1>9. CASE f[p] = 0 /\ p < Len(f)
  <2>1. p + 1 \in 1..Len(f) /\ f[p + 1] # 0 /\ f[p + 1] < g[p]
    BY <1>1, <1>9
  <2>2. {j \in F : j <= p + 1} = A \cup {p + 1} /\ p + 1 \notin A
    <3>1. /\ p + 1 \in F /\ p \notin F /\ ~(p + 1 < p)
          /\ \A j \in F : j <= p + 1 <=> j < p \/ j = p \/ j = p + 1
      BY <1>1, <1>9, <2>1
    <3> QED BY <3>1 DEF A
  <2>3. Rank(F, p + 1) = k
    <3>1. Cardinality(A \cup {p + 1}) = Cardinality(A) + 1
      BY <1>4, <2>2, FS_AddElement
    <3> QED BY <1>5, <2>2, <3>1 DEF Rank
  <2> QED BY <1>7, <2>1, <2>3 DEF a, b
<1>10. CASE f[p] = 0 /\ p = Len(f)
  <2>1. F = A
    <3>1. \A j \in F : j < p
      <4>1. p \notin F
        BY <1>1, <1>10
      <4> QED BY <1>1, <1>10, <4>1
    <3> QED BY <3>1 DEF A
  <2>2. Len(a) = k - 1
    BY <1>1, <1>4, <1>5, <2>1
  <2>3. StartOf(a, b) /\ Len(a) # Len(b)
    BY <1>1, <1>2, <1>6, <2>2 DEF StartOf
  <2> QED BY <2>3 DEF Leq, a, b
<1> QED BY <1>1, <1>8, <1>9, <1>10

----------------------------------------------------------------------------
(* What a comparison looks at. *)

\* The order is total, and antisymmetric.
LEMMA LeqTotal ==
    ASSUME NEW s \in IntSeqs, NEW t \in IntSeqs
    PROVE  /\ Leq(s, t) \/ Leq(t, s)
           /\ Leq(s, t) /\ Leq(t, s) => s = t
<1>1. /\ Order(s, t) \in {-1, 0, 1} /\ Order(t, s) = -Order(s, t)
      /\ Order(s, t) = 0 <=> s = t
      /\ Order(s, t) <= 0 <=> Leq(s, t)
      /\ Order(t, s) <= 0 <=> Leq(t, s)
  BY OrderSays, OrderReversed
<1> QED BY <1>1

\* The weights of a unit are numbers.
LEMMA ElementOf ==
    ASSUME NEW u \in Unit
    PROVE  Element(u).letter \in Nat /\ Element(u).accent \in Nat \ {Unaccented}
<1>1. CASE \E e \in Elements : e.unit = u
  <2>1. Element(u) \in Elements
    BY <1>1 DEF Element
  <2> QED BY <2>1, StringAssumption
<1>2. CASE ~\E e \in Elements : e.unit = u
  BY <1>2 DEF Element, ToLower, Unit, Unaccented
<1> QED BY <1>1, <1>2

\* The collator sees an ASCII letter as the comparison of varchar does.
LEMMA AsciiElement ==
    ASSUME NEW u \in Nat, u <= 127
    PROVE  Element(u).letter = ToLower(u) /\ Element(u).accent = 0
<1>1. \A e \in Elements : e.unit # u
  BY StringAssumption DEF OtherUnits
<1> QED BY <1>1 DEF Element

\* Bytes that differ in case alone are the same letters.
LEMMA SameElement ==
    ASSUME NEW a \in Byte, NEW b \in Byte, ToLower(a) = ToLower(b)
    PROVE  Element(a).letter = Element(b).letter /\ Element(a).accent = Element(b).accent
<1>1. CASE a = b
  BY <1>1
<1>2. CASE a # b
  <2>1. a <= 127 /\ b <= 127 /\ a \in Nat /\ b \in Nat
    BY <1>2 DEF ToLower, Byte
  <2> QED BY <2>1, AsciiElement
<1> QED BY <1>1, <1>2

\* The weights of a unit of type t.
Letter(t, u) == CASE t = "varchar"   -> ToLower(u)
                  [] t = "nvarchar"  -> Element(u).letter
                  [] t = "varbinary" -> u
Accent(t, u) == IF t = "nvarchar" THEN Element(u).accent ELSE 0

LettersOf(t, s) == [i \in 1..Len(Glyphs(t, s)) |-> Letter(t, Glyphs(t, s)[i])]
AccentsOf(t, s) == [i \in 1..Len(Glyphs(t, s)) |-> Accent(t, Glyphs(t, s)[i])]

LEMMA WeightOf ==
    ASSUME NEW t \in Types, NEW u \in Unit
    PROVE  Letter(t, u) \in Nat /\ Accent(t, u) \in Nat \ {Unaccented}
<1>1. u \in Nat
  BY DEF Unit
<1>2. CASE t = "nvarchar"
  BY <1>2, ElementOf DEF Letter, Accent
<1>3. CASE t # "nvarchar"
  BY <1>1, <1>3 DEF Letter, Accent, ToLower, Types, Unaccented
<1> QED BY <1>2, <1>3

LEMMA WeightsOf ==
    ASSUME NEW t \in Types, NEW s, ValueOf(t, s)
    PROVE  /\ LettersOf(t, s) \in IntSeqs /\ AccentsOf(t, s) \in IntSeqs
           /\ Len(Glyphs(t, s)) \in Nat
           /\ Len(LettersOf(t, s)) = Len(Glyphs(t, s))
           /\ Len(AccentsOf(t, s)) = Len(Glyphs(t, s))
           /\ \A i \in 1..Len(Glyphs(t, s)) :
                 /\ Glyphs(t, s)[i] \in Unit
                 /\ LettersOf(t, s)[i] = Letter(t, Glyphs(t, s)[i])
                 /\ AccentsOf(t, s)[i] = Accent(t, Glyphs(t, s)[i])
                 /\ AccentsOf(t, s)[i] \in Nat \ {Unaccented}
<1> DEFINE us == Glyphs(t, s)
<1>1. us \in Seq(Unit) /\ Len(us) \in Nat
  BY GlyphsOf
<1> HIDE DEF us
<1>2. \A i \in 1..Len(us) : us[i] \in Unit
  BY <1>1
<1>3. \A i \in 1..Len(us) : /\ Letter(t, us[i]) \in Nat
                            /\ Accent(t, us[i]) \in Nat \ {Unaccented}
  BY <1>2, WeightOf
<1>4. /\ LettersOf(t, s) = [i \in 1..Len(us) |-> Letter(t, us[i])]
      /\ AccentsOf(t, s) = [i \in 1..Len(us) |-> Accent(t, us[i])]
  BY DEF LettersOf, AccentsOf, us
<1>5. LettersOf(t, s) \in IntSeqs /\ Len(LettersOf(t, s)) = Len(us)
  BY <1>1, <1>3, <1>4 DEF IntSeqs
<1>6. AccentsOf(t, s) \in IntSeqs /\ Len(AccentsOf(t, s)) = Len(us)
  BY <1>1, <1>3, <1>4 DEF IntSeqs
<1> QED BY <1>1, <1>2, <1>3, <1>4, <1>5, <1>6 DEF us

\* Letters with their accents between them.
LEMMA AccentsSeq ==
    ASSUME NEW ls \in IntSeqs, NEW ms \in IntSeqs, Len(ms) = Len(ls)
    PROVE  /\ Accents(ls, ms) \in IntSeqs
           /\ Len(ls) \in Nat /\ Len(Accents(ls, ms)) = 2 * Len(ls)
           /\ \A i \in 1..Len(ls) :
                 /\ Accents(ls, ms)[2 * i] = ms[i]
                 /\ ls[i] # 0 => Accents(ls, ms)[2 * i - 1] = Unaccented
<1> DEFINE n == Len(ls)
           e(j) == IF j % 2 = 0 THEN ms[j \div 2]
                   ELSE IF ls[(j + 1) \div 2] = 0 THEN 0 ELSE Unaccented
<1>1. n \in Nat /\ \A i \in 1..n : ms[i] \in Int
  <2>1. n \in Nat /\ Len(ms) = n /\ \A i \in 1..Len(ms) : ms[i] \in Int
    BY CommonPlaces
  <2> QED BY <2>1
<1>2. Accents(ls, ms) = [j \in 1..(2 * n) |-> e(j)]
  BY DEF Accents
<1> HIDE DEF n
<1>3. ASSUME NEW i \in 1..n
      PROVE  /\ 2 * i \in 1..(2 * n) /\ (2 * i) % 2 = 0 /\ (2 * i) \div 2 = i
             /\ 2 * i - 1 \in 1..(2 * n) /\ (2 * i - 1) % 2 # 0
             /\ (2 * i - 1 + 1) \div 2 = i
  BY <1>1
<1>4. ASSUME NEW j \in 1..(2 * n)
      PROVE  e(j) \in Int
  <2>1. j % 2 = 0 => j \div 2 \in 1..n
    BY <1>1
  <2> QED BY <1>1, <2>1 DEF Unaccented
<1>5. \A i \in 1..n : /\ e(2 * i) = ms[i]
                      /\ ls[i] # 0 => e(2 * i - 1) = Unaccented
  BY <1>3
<1>6. Accents(ls, ms) \in IntSeqs /\ Len(Accents(ls, ms)) = 2 * n
  <2> DEFINE m == 2 * n
  <2>1. m \in Nat
    BY <1>1
  <2>2. Accents(ls, ms) = [j \in 1..m |-> e(j)] /\ \A j \in 1..m : e(j) \in Int
    BY <1>2, <1>4
  <2> HIDE DEF m, e
  <2>3. [j \in 1..m |-> e(j)] \in Seq(Int) /\ Len([j \in 1..m |-> e(j)]) = m
    BY <2>1, <2>2
  <2> QED BY <2>2, <2>3 DEF IntSeqs, m
<1> HIDE DEF e
<1>7. \A i \in 1..n : /\ Accents(ls, ms)[2 * i] = ms[i]
                      /\ ls[i] # 0 => Accents(ls, ms)[2 * i - 1] = Unaccented
  BY <1>2, <1>3, <1>5
<1> QED BY <1>1, <1>6, <1>7 DEF n

\* What a comparison looks at is made of the weights of units.
LEMMA KeysOf ==
    ASSUME NEW t \in Types, NEW s, ValueOf(t, s)
    PROVE  /\ Primary(t, s) = IF t = "nvarchar" THEN Kept(LettersOf(t, s))
                                                ELSE LettersOf(t, s)
           /\ Secondary(t, s) = IF t = "nvarchar"
                                THEN Kept(Accents(LettersOf(t, s), AccentsOf(t, s)))
                                ELSE << >>
           /\ Primary(t, s) \in IntSeqs /\ Secondary(t, s) \in IntSeqs
<1>1. s \in Seq(Byte) /\ DOMAIN s = 1..Len(s)
  BY DEF ValueOf
<1>2. /\ LettersOf(t, s) \in IntSeqs /\ AccentsOf(t, s) \in IntSeqs
      /\ Len(AccentsOf(t, s)) = Len(LettersOf(t, s))
  BY WeightsOf
<1>3. << >> \in IntSeqs
  BY DEF IntSeqs
<1>4. CASE t = "varbinary"
  <2>1. LettersOf(t, s) = [i \in 1..Len(s) |-> s[i]]
    BY <1>4 DEF LettersOf, Letter, Glyphs
  <2>2. LettersOf(t, s) = s
    BY <1>1, <2>1
  <2> QED BY <1>2, <1>3, <1>4, <2>2 DEF Primary, Secondary
<1>5. CASE t = "varchar"
  <2>1. LettersOf(t, s) = [i \in 1..Len(s) |-> ToLower(s[i])]
    BY <1>5 DEF LettersOf, Letter, Glyphs
  <2>2. LettersOf(t, s) = Cased("lower", s)
    BY <1>1, <2>1 DEF Cased
  <2> QED BY <1>2, <1>3, <1>5, <2>2 DEF Primary, Secondary
<1>6. CASE t = "nvarchar"
  <2> DEFINE us == Units(s)
  <2>1. DOMAIN us = 1..Len(us)
    BY <1>1, UnitsOf
  <2>2. LettersOf(t, s) = [i \in 1..Len(us) |-> Element(us[i]).letter]
    BY <1>6 DEF LettersOf, Letter, Glyphs
  <2>3. AccentsOf(t, s) = [i \in 1..Len(us) |-> Element(us[i]).accent]
    BY <1>6 DEF AccentsOf, Accent, Glyphs
  <2> HIDE DEF us
  <2>4. Weights("letter", us) = LettersOf(t, s)
    BY <2>1, <2>2 DEF Weights
  <2>5. Weights("accent", us) = AccentsOf(t, s)
    BY <2>1, <2>3 DEF Weights
  <2>6. /\ Primary(t, s) = Kept(LettersOf(t, s))
        /\ Secondary(t, s) = Kept(Accents(LettersOf(t, s), AccentsOf(t, s)))
    BY <1>6, <2>4, <2>5 DEF Primary, Secondary, us
  <2>7. Kept(LettersOf(t, s)) \in IntSeqs
    BY <1>2, KeptOf
  <2>8. Kept(Accents(LettersOf(t, s), AccentsOf(t, s))) \in IntSeqs
    BY <1>2, AccentsSeq, KeptOf
  <2> QED BY <1>6, <2>6, <2>7, <2>8
<1> QED BY <1>4, <1>5, <1>6 DEF Types

\* The operators in terms of what the comparison looks at.
LEMMA HoldsFor ==
    ASSUME NEW t, NEW l, NEW r, t \in Types, ValueOf(t, l), ValueOf(t, r)
    PROVE  /\ Compare(t, l, r) \in {-1, 0, 1}
           /\ Compare(t, r, l) = -Compare(t, l, r)
           /\ Compare(t, l, r) = 0 <=> Primary(t, l) = Primary(t, r)
                                       /\ Secondary(t, l) = Secondary(t, r)
           /\ Compare(t, l, r) <= 0 <=>
                 IF Primary(t, l) = Primary(t, r)
                 THEN Leq(Secondary(t, l), Secondary(t, r))
                 ELSE Leq(Primary(t, l), Primary(t, r))
<1> DEFINE p == Primary(t, l)
           q == Primary(t, r)
           v == Secondary(t, l)
           w == Secondary(t, r)
<1>1. p \in IntSeqs /\ q \in IntSeqs /\ v \in IntSeqs /\ w \in IntSeqs
  BY KeysOf
<1>2. /\ Compare(t, l, r) = IF Order(p, q) # 0 THEN Order(p, q) ELSE Order(v, w)
      /\ Compare(t, r, l) = IF Order(q, p) # 0 THEN Order(q, p) ELSE Order(w, v)
  BY DEF Compare
<1> HIDE DEF p, q, v, w
<1>3. /\ Order(p, q) \in {-1, 0, 1} /\ Order(q, p) = -Order(p, q)
      /\ Order(p, q) = 0 <=> p = q
      /\ Order(p, q) <= 0 <=> Leq(p, q)
  BY <1>1, OrderSays, OrderReversed
<1>4. /\ Order(v, w) \in {-1, 0, 1} /\ Order(w, v) = -Order(v, w)
      /\ Order(v, w) = 0 <=> v = w
      /\ Order(v, w) <= 0 <=> Leq(v, w)
  BY <1>1, OrderSays, OrderReversed
<1>5. Compare(t, l, r) \in {-1, 0, 1} /\ Compare(t, r, l) = -Compare(t, l, r)
  BY <1>2, <1>3, <1>4
<1>6. Compare(t, l, r) = 0 <=> p = q /\ v = w
  BY <1>2, <1>3, <1>4
<1>7. Compare(t, l, r) <= 0 <=> IF p = q THEN Leq(v, w) ELSE Leq(p, q)
  <2>1. CASE p = q
    BY <1>2, <1>3, <1>4, <2>1
  <2>2. CASE p # q
    BY <1>2, <1>3, <2>2
  <2> QED BY <2>1, <2>2
<1> QED BY <1>5, <1>6, <1>7 DEF p, q, v, w

\* Values with the same letters and accents are equal, and of one length.
Same(t, l, r) == LettersOf(t, l) = LettersOf(t, r) /\ AccentsOf(t, l) = AccentsOf(t, r)

LEMMA SameEqual ==
    ASSUME NEW t, NEW l, NEW r, t \in Types, ValueOf(t, l), ValueOf(t, r), Same(t, l, r)
    PROVE  /\ Primary(t, l) = Primary(t, r) /\ Secondary(t, l) = Secondary(t, r)
           /\ Holds("=", t, l, r) /\ Len(l) = Len(r)
<1>1. Primary(t, l) = Primary(t, r) /\ Secondary(t, l) = Secondary(t, r)
  BY KeysOf DEF Same
<1>2. Holds("=", t, l, r)
  BY <1>1, HoldsFor DEF Holds
<1>3. Len(Glyphs(t, l)) = Len(Glyphs(t, r))
  BY WeightsOf DEF Same
<1>4. Len(l) = Len(r)
  BY <1>3, GlyphsOf
<1> QED BY <1>1, <1>2, <1>4

\* Accents decide letter by letter where every unit has a letter.
LEMMA AccentsOrder ==
    ASSUME NEW ls \in IntSeqs, \A i \in 1..Len(ls) : ls[i] # 0,
           NEW ms \in IntSeqs, Len(ms) = Len(ls),
           \A i \in 1..Len(ls) : ms[i] \in Nat \ {Unaccented},
           NEW bs \in IntSeqs, Len(bs) = Len(ls),
           \A i \in 1..Len(ls) : bs[i] \in Nat \ {Unaccented},
           Leq(ms, bs), ms # bs
    PROVE  /\ Leq(Kept(Accents(ls, ms)), Kept(Accents(ls, bs)))
           /\ Kept(Accents(ls, ms)) # Kept(Accents(ls, bs))
<1> DEFINE f == Accents(ls, ms)
           g == Accents(ls, bs)
<1>1. /\ Len(ls) \in Nat
      /\ f \in IntSeqs /\ Len(f) = 2 * Len(ls)
      /\ g \in IntSeqs /\ Len(g) = 2 * Len(ls)
      /\ \A i \in 1..Len(ls) :
            /\ f[2 * i] = ms[i] /\ f[2 * i - 1] = Unaccented
            /\ g[2 * i] = bs[i] /\ g[2 * i - 1] = Unaccented
  <2>1. /\ Len(ls) \in Nat /\ f \in IntSeqs /\ Len(f) = 2 * Len(ls)
        /\ \A i \in 1..Len(ls) : f[2 * i] = ms[i] /\ f[2 * i - 1] = Unaccented
    BY AccentsSeq
  <2>2. /\ g \in IntSeqs /\ Len(g) = 2 * Len(ls)
        /\ \A i \in 1..Len(ls) : g[2 * i] = bs[i] /\ g[2 * i - 1] = Unaccented
    BY AccentsSeq
  <2> HIDE DEF f, g
  <2> QED BY <2>1, <2>2
<1> HIDE DEF f, g
<1>2. PICK k \in Common(ms, bs) : Below(ms, bs, k)
  <2>1. ~StartOf(ms, bs)
    BY SameSeq DEF StartOf
  <2> QED BY <2>1 DEF Leq
<1>3. k \in 1..Len(ls) /\ ms[k] < bs[k] /\ \A j \in 1..(k - 1) : ms[j] = bs[j]
  BY <1>2, CommonPlaces DEF Below
<1> DEFINE p == 2 * k
<1>4. /\ p \in 1..Len(f) /\ f[p] = ms[k] /\ g[p] = bs[k]
      /\ ms[k] \in Nat /\ bs[k] \in Nat /\ Unaccented < bs[k]
  <2>1. p \in 1..Len(f) /\ f[p] = ms[k] /\ g[p] = bs[k]
    BY <1>1, <1>3
  <2>2. ms[k] \in Nat /\ bs[k] \in Nat \ {Unaccented}
    BY <1>3
  <2>3. Unaccented < bs[k]
    <3>1. \A a \in Nat, b \in Nat \ {Unaccented} : a < b => Unaccented < b
      BY DEF Unaccented
    <3> QED BY <1>3, <2>2, <3>1
  <2> QED BY <2>1, <2>2, <2>3
<1>5. ASSUME NEW j \in 1..(p - 1)
      PROVE  f[j] = g[j]
  <2>1. j \in Nat /\ 1 <= j /\ j <= 2 * Len(ls) /\ j < 2 * k
    BY <1>1, <1>3
  <2>2. PICK i \in 1..Len(ls) : j = 2 * i \/ j = 2 * i - 1
    <3> DEFINE i == (j + 1) \div 2
    <3>1. i \in Int /\ (j = 2 * i \/ j = 2 * i - 1)
      BY <2>1
    <3> HIDE DEF i
    <3>2. i \in 1..Len(ls)
      BY <1>1, <2>1, <3>1
    <3> QED BY <3>1, <3>2
  <2>3. CASE j = 2 * i - 1
    BY <1>1, <2>3
  <2>4. CASE j = 2 * i
    <3>1. i \in 1..(k - 1)
      BY <1>1, <1>3, <2>4
    <3> QED BY <1>1, <1>3, <2>4, <3>1
  <2> QED BY <2>2, <2>3, <2>4
<1>6. p < Len(f) => f[p + 1] = Unaccented
  <2>1. p < Len(f) => k + 1 \in 1..Len(ls) /\ 2 * (k + 1) - 1 = p + 1
    BY <1>1, <1>3
  <2> QED BY <1>1, <2>1
<1>7. /\ Len(f) = Len(g) /\ f[p] < g[p] /\ g[p] # 0
      /\ f[p] = 0 /\ p < Len(f) => f[p + 1] # 0 /\ f[p + 1] < g[p]
  <2> HIDE DEF p
  <2>1. Unaccented # 0 /\ \A b \in Nat : Unaccented < b => b # 0
    BY DEF Unaccented
  <2>2. Len(f) = Len(g) /\ f[p] < g[p] /\ g[p] # 0
    BY <1>1, <1>3, <1>4, <2>1
  <2>3. p < Len(f) => f[p + 1] # 0 /\ f[p + 1] < g[p]
    BY <1>4, <1>6, <2>1
  <2> QED BY <2>2, <2>3
<1> HIDE DEF p
<1>8. Leq(Kept(f), Kept(g)) /\ Kept(f) # Kept(g)
  BY <1>1, <1>4, <1>5, <1>7, KeptBelow
<1> QED BY <1>8 DEF f, g

\* Without combining marks the comparison is one of letters, unit by unit, and
\* then of their accents.
Before(t, l, r) == IF LettersOf(t, l) = LettersOf(t, r)
                   THEN Leq(AccentsOf(t, l), AccentsOf(t, r))
                   ELSE Leq(LettersOf(t, l), LettersOf(t, r))

LEMMA UnmarkedLetters ==
    ASSUME NEW t \in Types, NEW s, ValueOf(t, s), ~Marked(t, s)
    PROVE  /\ Primary(t, s) = LettersOf(t, s)
           /\ t = "nvarchar" => \A i \in 1..Len(LettersOf(t, s)) : LettersOf(t, s)[i] # 0
<1>1. CASE t # "nvarchar"
  BY <1>1, KeysOf
<1>2. CASE t = "nvarchar"
  <2>1. DOMAIN Units(s) = 1..Len(Units(s)) /\ Glyphs(t, s) = Units(s)
    BY <1>2, UnitsOf DEF ValueOf, Glyphs
  <2>2. \A i \in 1..Len(Units(s)) : Element(Units(s)[i]).letter # 0
    BY <1>2, <2>1 DEF Marked
  <2>3. /\ LettersOf(t, s) \in IntSeqs /\ Len(LettersOf(t, s)) = Len(Units(s))
        /\ \A i \in 1..Len(Units(s)) : LettersOf(t, s)[i] = Letter(t, Units(s)[i])
    BY <2>1, WeightsOf
  <2>4. \A i \in 1..Len(LettersOf(t, s)) : LettersOf(t, s)[i] # 0
    BY <1>2, <2>2, <2>3 DEF Letter
  <2>5. Primary(t, s) = LettersOf(t, s)
    BY <1>2, <2>3, <2>4, KeysOf, KeptAll
  <2> QED BY <2>4, <2>5
<1> QED BY <1>1, <1>2

LEMMA UnmarkedHolds ==
    ASSUME NEW t, NEW l, NEW r, t \in Types, ValueOf(t, l), ValueOf(t, r),
           ~Marked(t, l), ~Marked(t, r)
    PROVE  /\ Primary(t, l) = LettersOf(t, l) /\ Primary(t, r) = LettersOf(t, r)
           /\ Holds("=", t, l, r) <=> Same(t, l, r)
           /\ Holds("<=", t, l, r) <=> Before(t, l, r)
<1> DEFINE ls == LettersOf(t, l)
           ms == AccentsOf(t, l)
           bs == AccentsOf(t, r)
           v  == Secondary(t, l)
           w  == Secondary(t, r)
<1>1. Primary(t, l) = ls /\ Primary(t, r) = LettersOf(t, r)
  BY UnmarkedLetters
<1>2. /\ Holds("=", t, l, r) <=> ls = LettersOf(t, r) /\ v = w
      /\ Holds("<=", t, l, r) <=> IF ls = LettersOf(t, r)
                                  THEN Leq(v, w) ELSE Leq(ls, LettersOf(t, r))
  <2>1. Holds("=", t, l, r) <=> Compare(t, l, r) = 0
    BY DEF Holds
  <2>2. Holds("<=", t, l, r) <=> Compare(t, l, r) <= 0
    BY DEF Holds
  <2> QED BY <1>1, <2>1, <2>2, HoldsFor
<1>3. ASSUME ls = LettersOf(t, r)
      PROVE  (v = w <=> ms = bs) /\ (Leq(v, w) <=> Leq(ms, bs))
  <2>1. /\ ls \in IntSeqs /\ ms \in IntSeqs /\ bs \in IntSeqs
        /\ Len(ms) = Len(ls) /\ Len(bs) = Len(ls)
        /\ \A i \in 1..Len(ls) : ms[i] \in Nat \ {Unaccented}
        /\ \A i \in 1..Len(ls) : bs[i] \in Nat \ {Unaccented}
    <3>1. /\ ls \in IntSeqs /\ ms \in IntSeqs /\ Len(ms) = Len(ls)
          /\ \A i \in 1..Len(ls) : ms[i] \in Nat \ {Unaccented}
      BY WeightsOf
    <3>2. /\ bs \in IntSeqs /\ Len(bs) = Len(LettersOf(t, r))
          /\ \A i \in 1..Len(LettersOf(t, r)) : bs[i] \in Nat \ {Unaccented}
      BY WeightsOf
    <3> QED BY <1>3, <3>1, <3>2
  <2>2. CASE t # "nvarchar"
    <3>1. v = w /\ v \in IntSeqs
      BY <2>2, KeysOf
    <3>2. ms = bs
      <4>1. \A i \in 1..Len(ms) : ms[i] = bs[i]
        <5>1. \A i \in 1..Len(ms) : ms[i] = 0
          BY <2>2, WeightsOf DEF Accent
        <5>2. \A i \in 1..Len(bs) : bs[i] = 0
          BY <2>2, WeightsOf DEF Accent
        <5> QED BY <2>1, <5>1, <5>2
      <4> HIDE DEF ms, bs
      <4> QED BY <2>1, <4>1, SameSeq
    <3> QED BY <2>1, <3>1, <3>2, LeqReflexive
  <2>3. CASE t = "nvarchar"
    <3>1. \A i \in 1..Len(ls) : ls[i] # 0
      BY <2>3, UnmarkedLetters
    <3>2. /\ v = Kept(Accents(ls, ms)) /\ w = Kept(Accents(ls, bs))
          /\ v \in IntSeqs /\ w \in IntSeqs
      BY <1>3, <2>3, KeysOf
    <3> HIDE DEF ls, ms, bs, v, w
    <3>3. Leq(ms, bs) /\ ms # bs => Leq(v, w) /\ v # w
      BY <2>1, <3>1, <3>2, AccentsOrder
    <3>4. Leq(bs, ms) /\ ms # bs => Leq(w, v) /\ v # w
      BY <2>1, <3>1, <3>2, AccentsOrder
    <3>5. ms = bs => v = w
      BY <3>2
    <3>6. (Leq(ms, bs) \/ Leq(bs, ms)) /\ (Leq(v, w) /\ Leq(w, v) => v = w)
      BY <2>1, <3>2, LeqTotal
    <3>7. Leq(v, v) /\ Leq(ms, ms)
      BY <2>1, <3>2, LeqReflexive
    <3>8. v = w <=> ms = bs
      BY <3>3, <3>4, <3>5, <3>6
    <3>9. Leq(v, w) <=> Leq(ms, bs)
      BY <3>3, <3>4, <3>5, <3>6, <3>7
    <3> QED BY <3>8, <3>9
  <2> QED BY <2>2, <2>3
<1> HIDE DEF ls, ms, bs, v, w
<1>4. Same(t, l, r) <=> ls = LettersOf(t, r) /\ ms = bs
  BY DEF Same, ls, ms, bs
<1>5. Before(t, l, r) <=> IF ls = LettersOf(t, r) THEN Leq(ms, bs)
                                                  ELSE Leq(ls, LettersOf(t, r))
  BY DEF Before, ls, ms, bs
<1>6. Holds("=", t, l, r) <=> Same(t, l, r)
  BY <1>2, <1>3, <1>4
<1>7. Holds("<=", t, l, r) <=> Before(t, l, r)
  BY <1>2, <1>3, <1>5
<1> QED BY <1>1, <1>6, <1>7 DEF ls

----------------------------------------------------------------------------
(* What the functions do to letters and accents. *)

LEMMA WeightsCut ==
    ASSUME NEW t \in Types, NEW n \in Lengths, NEW s, ValueOf(t, s),
           NEW r, ValueOf(t, r), Glyphs(t, r) = CutTo(n, Glyphs(t, s))
    PROVE  /\ LettersOf(t, r) = CutTo(n, LettersOf(t, s))
           /\ AccentsOf(t, r) = CutTo(n, AccentsOf(t, s))
<1> DEFINE us == Glyphs(t, s)
           vs == Glyphs(t, r)
<1>1. /\ us \in Seq(Unit) /\ Len(us) \in Nat
      /\ Len(vs) = IF n = -1 \/ n > Len(us) THEN Len(us) ELSE n
      /\ \A i \in 1..Len(vs) : i \in 1..Len(us) /\ vs[i] = us[i]
  <2>1. us \in Seq(Unit) /\ Len(us) \in Nat
    BY GlyphsOf
  <2> HIDE DEF us
  <2>2. /\ Len(CutTo(n, us)) = IF n = -1 \/ n > Len(us) THEN Len(us) ELSE n
        /\ \A i \in 1..Len(CutTo(n, us)) : i \in 1..Len(us) /\ CutTo(n, us)[i] = us[i]
    BY <2>1, CutToOf
  <2> QED BY <2>1, <2>2 DEF us
<1>2. ASSUME NEW f \in IntSeqs, NEW g \in IntSeqs, Len(f) = Len(us), Len(g) = Len(vs),
             \A i \in 1..Len(vs) : g[i] = f[i]
      PROVE  g = CutTo(n, f)
  <2> DEFINE c == CutTo(n, f)
  <2>1. /\ c \in IntSeqs
        /\ Len(c) = IF n = -1 \/ n > Len(f) THEN Len(f) ELSE n
        /\ \A i \in 1..Len(c) : i \in 1..Len(f) /\ c[i] = f[i]
    BY CutToOf DEF IntSeqs
  <2> HIDE DEF c, us, vs
  <2>2. Len(g) = Len(c)
    BY <1>1, <1>2, <2>1
  <2>3. \A i \in 1..Len(g) : g[i] = c[i]
    BY <1>2, <2>1, <2>2
  <2> QED BY <2>1, <2>2, <2>3, SameSeq DEF c
<1>3. /\ LettersOf(t, s) \in IntSeqs /\ Len(LettersOf(t, s)) = Len(us)
      /\ AccentsOf(t, s) \in IntSeqs /\ Len(AccentsOf(t, s)) = Len(us)
      /\ \A i \in 1..Len(us) : /\ LettersOf(t, s)[i] = Letter(t, us[i])
                               /\ AccentsOf(t, s)[i] = Accent(t, us[i])
  BY WeightsOf
<1>4. /\ LettersOf(t, r) \in IntSeqs /\ Len(LettersOf(t, r)) = Len(vs)
      /\ AccentsOf(t, r) \in IntSeqs /\ Len(AccentsOf(t, r)) = Len(vs)
      /\ \A i \in 1..Len(vs) : /\ LettersOf(t, r)[i] = Letter(t, vs[i])
                               /\ AccentsOf(t, r)[i] = Accent(t, vs[i])
  BY WeightsOf
<1> HIDE DEF us, vs
<1>5. \A i \in 1..Len(vs) : /\ LettersOf(t, r)[i] = LettersOf(t, s)[i]
                            /\ AccentsOf(t, r)[i] = AccentsOf(t, s)[i]
  BY <1>1, <1>3, <1>4
<1> QED BY <1>2, <1>3, <1>4, <1>5

\* A varchar made an nvarchar, where its letters have the order of their codes.
LEMMA WeightsWidened ==
    ASSUME NEW n \in Lengths, NEW s \in Seq(Byte), Range(s) \subseteq InCollationOrder,
           NEW r, ValueOf("nvarchar", r), Glyphs("nvarchar", r) = CutTo(n, s)
    PROVE  /\ LettersOf("nvarchar", r) = CutTo(n, LettersOf("varchar", s))
           /\ AccentsOf("nvarchar", r) = CutTo(n, AccentsOf("varchar", s))
<1> DEFINE c == CutTo(n, s)
<1>1. /\ "varchar" \in Types /\ "nvarchar" \in Types /\ ValueOf("varchar", s)
      /\ Glyphs("varchar", s) = s
  BY DEF Types, ValueOf, Glyphs
<1>2. /\ c \in Seq(Byte) /\ Len(c) \in Nat
      /\ \A i \in 1..Len(c) : i \in 1..Len(s) /\ c[i] = s[i]
  BY CutToOf
<1> HIDE DEF c
<1>3. ValueOf("varchar", c) /\ Glyphs("varchar", c) = c
  BY <1>2 DEF ValueOf, Glyphs
<1>4. /\ LettersOf("varchar", c) = CutTo(n, LettersOf("varchar", s))
      /\ AccentsOf("varchar", c) = CutTo(n, AccentsOf("varchar", s))
  BY <1>1, <1>3, WeightsCut DEF c
<1>5. \A i \in 1..Len(c) : c[i] \in Nat /\ c[i] <= 127
  <2>1. \A i \in 1..Len(s) : s[i] \in InCollationOrder
    BY DEF Range
  <2>2. \A b \in InCollationOrder : b \in Nat /\ b <= 127
    BY DEF InCollationOrder
  <2> QED BY <1>2, <2>1, <2>2
<1>6. /\ LettersOf("nvarchar", r) = [i \in 1..Len(c) |-> Element(c[i]).letter]
      /\ AccentsOf("nvarchar", r) = [i \in 1..Len(c) |-> Element(c[i]).accent]
  BY DEF LettersOf, AccentsOf, Letter, Accent, c
<1>7. /\ LettersOf("varchar", c) = [i \in 1..Len(c) |-> ToLower(c[i])]
      /\ AccentsOf("varchar", c) = [i \in 1..Len(c) |-> 0]
  BY <1>3 DEF LettersOf, AccentsOf, Letter, Accent
<1>8. \A i \in 1..Len(c) : Element(c[i]).letter = ToLower(c[i]) /\ Element(c[i]).accent = 0
  BY <1>5, AsciiElement
<1> QED BY <1>4, <1>6, <1>7, <1>8

\* Equal varchars made nvarchars, whatever their letters.
LEMMA SameWidened ==
    ASSUME NEW n \in Lengths, NEW l \in Seq(Byte), NEW r \in Seq(Byte),
           Same("varchar", l, r),
           NEW u, Glyphs("nvarchar", u) = CutTo(n, l),
           NEW v, Glyphs("nvarchar", v) = CutTo(n, r)
    PROVE  Same("nvarchar", u, v)
<1> DEFINE a == CutTo(n, l)
           b == CutTo(n, r)
<1>1. "varchar" \in Types /\ ValueOf("varchar", l) /\ ValueOf("varchar", r)
  BY DEF Types, ValueOf
<1>2. /\ Len(l) \in Nat /\ Len(l) = Len(r)
      /\ \A i \in 1..Len(l) : ToLower(l[i]) = ToLower(r[i])
  <2>1. Glyphs("varchar", l) = l /\ Glyphs("varchar", r) = r
    BY DEF Glyphs
  <2>2. /\ LettersOf("varchar", l) \in IntSeqs /\ Len(LettersOf("varchar", l)) = Len(l)
        /\ \A i \in 1..Len(l) : LettersOf("varchar", l)[i] = Letter("varchar", l[i])
        /\ Len(l) \in Nat
    BY <1>1, <2>1, WeightsOf
  <2>3. /\ Len(LettersOf("varchar", r)) = Len(r)
        /\ \A i \in 1..Len(r) : LettersOf("varchar", r)[i] = Letter("varchar", r[i])
    BY <1>1, <2>1, WeightsOf
  <2>4. LettersOf("varchar", l) = LettersOf("varchar", r)
    BY DEF Same
  <2>5. Len(l) = Len(r)
    BY <2>2, <2>3, <2>4
  <2>6. \A i \in 1..Len(l) : Letter("varchar", l[i]) = Letter("varchar", r[i])
    BY <2>2, <2>3, <2>4, <2>5
  <2> QED BY <2>2, <2>5, <2>6 DEF Letter
<1>3. /\ a \in Seq(Byte) /\ Len(a) = IF n = -1 \/ n > Len(l) THEN Len(l) ELSE n
      /\ \A i \in 1..Len(a) : i \in 1..Len(l) /\ a[i] = l[i]
  BY CutToOf
<1>4. /\ b \in Seq(Byte) /\ Len(b) = IF n = -1 \/ n > Len(r) THEN Len(r) ELSE n
      /\ \A i \in 1..Len(b) : i \in 1..Len(r) /\ b[i] = r[i]
  BY CutToOf
<1> HIDE DEF a, b
<1>5. Len(a) = Len(b)
  BY <1>2, <1>3, <1>4
<1>6. \A i \in 1..Len(a) : a[i] \in Byte /\ b[i] \in Byte /\ ToLower(a[i]) = ToLower(b[i])
  BY <1>2, <1>3, <1>4, <1>5
<1>7. \A i \in 1..Len(a) : /\ Element(a[i]).letter = Element(b[i]).letter
                           /\ Element(a[i]).accent = Element(b[i]).accent
  BY <1>6, SameElement
<1>8. /\ LettersOf("nvarchar", u) = [i \in 1..Len(a) |-> Element(a[i]).letter]
      /\ AccentsOf("nvarchar", u) = [i \in 1..Len(a) |-> Element(a[i]).accent]
  BY DEF LettersOf, AccentsOf, Letter, Accent, a
<1>9. /\ LettersOf("nvarchar", v) = [i \in 1..Len(b) |-> Element(b[i]).letter]
      /\ AccentsOf("nvarchar", v) = [i \in 1..Len(b) |-> Element(b[i]).accent]
  BY DEF LettersOf, AccentsOf, Letter, Accent, b
<1> QED BY <1>5, <1>7, <1>8, <1>9 DEF Same

\* The case of a letter changes neither its weight nor its accent's.
LEMMA WeightsCased ==
    ASSUME NEW t \in Types, t # "varbinary", NEW case \in {"upper", "lower"},
           NEW s, ValueOf(t, s), ~HasWide(t, s)
    PROVE  ValueOf(t, Cased(case, s)) /\ Same(t, Cased(case, s), s)
<1> DEFINE r == Cased(case, s)
           us == Glyphs(t, s)
           vs == Glyphs(t, r)
<1>1. /\ ValueOf(t, r) /\ Len(vs) = Len(us)
      /\ \A i \in 1..Len(us) :
            /\ us[i] \in Byte
            /\ vs[i] = IF case = "upper" THEN ToUpper(us[i]) ELSE ToLower(us[i])
  BY GlyphsCased
<1> HIDE DEF r, us, vs
<1>2. \A i \in 1..Len(us) : vs[i] \in Byte /\ ToLower(vs[i]) = ToLower(us[i])
  BY <1>1, CasedByte
<1>3. \A i \in 1..Len(us) : /\ Element(vs[i]).letter = Element(us[i]).letter
                            /\ Element(vs[i]).accent = Element(us[i]).accent
  BY <1>1, <1>2, SameElement
<1>4. \A i \in 1..Len(us) : /\ Letter(t, vs[i]) = Letter(t, us[i])
                            /\ Accent(t, vs[i]) = Accent(t, us[i])
  BY <1>2, <1>3 DEF Letter, Accent, Types
<1>5. /\ LettersOf(t, s) = [i \in 1..Len(us) |-> Letter(t, us[i])]
      /\ AccentsOf(t, s) = [i \in 1..Len(us) |-> Accent(t, us[i])]
  BY DEF LettersOf, AccentsOf, us
<1>6. /\ LettersOf(t, r) = [i \in 1..Len(vs) |-> Letter(t, vs[i])]
      /\ AccentsOf(t, r) = [i \in 1..Len(vs) |-> Accent(t, vs[i])]
  BY DEF LettersOf, AccentsOf, vs
<1> QED BY <1>1, <1>4, <1>5, <1>6 DEF Same, r

\* The letters and accents of a concatenation.
LEMMA WeightsJoined ==
    ASSUME NEW t \in Types, NEW s, ValueOf(t, s), NEW z, ValueOf(t, z)
    PROVE  /\ LettersOf(t, s \o z) = LettersOf(t, s) \o LettersOf(t, z)
           /\ AccentsOf(t, s \o z) = AccentsOf(t, s) \o AccentsOf(t, z)
<1> DEFINE us == Glyphs(t, s)
           ws == Glyphs(t, z)
           vs == Glyphs(t, s \o z)
<1>1. ValueOf(t, s \o z) /\ vs = us \o ws
  BY GlyphsJoined
<1>2. us \in Seq(Unit) /\ ws \in Seq(Unit)
  BY GlyphsOf
<1>3. /\ LettersOf(t, s) \in IntSeqs /\ Len(LettersOf(t, s)) = Len(us)
      /\ AccentsOf(t, s) \in IntSeqs /\ Len(AccentsOf(t, s)) = Len(us)
      /\ \A i \in 1..Len(us) : /\ LettersOf(t, s)[i] = Letter(t, us[i])
                               /\ AccentsOf(t, s)[i] = Accent(t, us[i])
  BY WeightsOf
<1>4. /\ LettersOf(t, z) \in IntSeqs /\ Len(LettersOf(t, z)) = Len(ws)
      /\ AccentsOf(t, z) \in IntSeqs /\ Len(AccentsOf(t, z)) = Len(ws)
      /\ \A i \in 1..Len(ws) : /\ LettersOf(t, z)[i] = Letter(t, ws[i])
                               /\ AccentsOf(t, z)[i] = Accent(t, ws[i])
  BY WeightsOf
<1>5. /\ LettersOf(t, s \o z) \in IntSeqs /\ Len(LettersOf(t, s \o z)) = Len(vs)
      /\ AccentsOf(t, s \o z) \in IntSeqs /\ Len(AccentsOf(t, s \o z)) = Len(vs)
      /\ \A i \in 1..Len(vs) : /\ LettersOf(t, s \o z)[i] = Letter(t, vs[i])
                               /\ AccentsOf(t, s \o z)[i] = Accent(t, vs[i])
  BY <1>1, WeightsOf
<1> HIDE DEF us, ws, vs
<1>6. /\ Len(vs) = Len(us) + Len(ws) /\ Len(us) \in Nat /\ Len(ws) \in Nat
      /\ \A i \in 1..Len(us) : vs[i] = us[i]
      /\ \A i \in 1..Len(vs) :
            i \notin 1..Len(us) => i - Len(us) \in 1..Len(ws) /\ vs[i] = ws[i - Len(us)]
  BY <1>1, <1>2, Joined
<1>7. ASSUME NEW f \in IntSeqs, NEW g \in IntSeqs, NEW h \in IntSeqs,
             Len(f) = Len(us), Len(g) = Len(ws), Len(h) = Len(vs),
             \A i \in 1..Len(us) : h[i] = f[i],
             \A i \in 1..Len(vs) : i \notin 1..Len(us) => h[i] = g[i - Len(us)]
      PROVE  h = f \o g
  <2> DEFINE c == f \o g
  <2>1. /\ c \in IntSeqs /\ Len(c) = Len(f) + Len(g)
        /\ \A i \in 1..Len(f) : c[i] = f[i]
        /\ \A i \in 1..Len(c) :
              i \notin 1..Len(f) => i - Len(f) \in 1..Len(g) /\ c[i] = g[i - Len(f)]
    BY Joined DEF IntSeqs
  <2> HIDE DEF c
  <2>2. Len(h) = Len(c)
    BY <1>6, <1>7, <2>1
  <2>3. ASSUME NEW i \in 1..Len(h)
        PROVE  h[i] = c[i]
    <3>1. CASE i \in 1..Len(us)
      BY <1>6, <1>7, <2>1, <3>1
    <3>2. CASE i \notin 1..Len(us)
      BY <1>6, <1>7, <2>1, <2>2, <3>2
    <3> QED BY <3>1, <3>2
  <2> QED BY <2>1, <2>2, <2>3, SameSeq DEF c
<1>8. \A i \in 1..Len(us) :
         /\ i \in 1..Len(vs)
         /\ LettersOf(t, s \o z)[i] = LettersOf(t, s)[i]
         /\ AccentsOf(t, s \o z)[i] = AccentsOf(t, s)[i]
  <2>1. \A i \in 1..Len(us) : i \in 1..Len(vs) /\ vs[i] = us[i]
    BY <1>6
  <2> QED BY <1>3, <1>5, <2>1
<1>9. \A i \in 1..Len(vs) :
         i \notin 1..Len(us) =>
            /\ LettersOf(t, s \o z)[i] = LettersOf(t, z)[i - Len(us)]
            /\ AccentsOf(t, s \o z)[i] = AccentsOf(t, z)[i - Len(us)]
  BY <1>4, <1>5, <1>6
<1>10. LettersOf(t, s \o z) = LettersOf(t, s) \o LettersOf(t, z)
  BY <1>3, <1>4, <1>5, <1>7, <1>8, <1>9
<1>11. AccentsOf(t, s \o z) = AccentsOf(t, s) \o AccentsOf(t, z)
  BY <1>3, <1>4, <1>5, <1>7, <1>8, <1>9
<1> QED BY <1>10, <1>11

----------------------------------------------------------------------------
(* The steps. *)

Values(t, l, r) == t \in Types /\ ValueOf(t, l) /\ ValueOf(t, r)

\* Literals and parameters are values.
LEMMA PieceValue ==
    ASSUME NEW t \in Types, NEW z \in Pieces[t]
    PROVE  ValueOf(t, z)
<1>1. ASSUME NEW S, NEW n \in Nat, NEW q \in BoundedSeqs(S, n)
      PROVE  q \in Seq(S) /\ Len(q) \in Nat
  <2>1. PICK k \in 0..n : q \in [1..k -> S]
    BY DEF BoundedSeqs
  <2> QED BY <2>1
<1>2. /\ MaxPiece \in Nat /\ Letters \subseteq Byte
      /\ \A e \in Elements : e.unit \in OtherUnits
  BY StringAssumption
<1>3. CASE t = "nvarchar"
  <2> DEFINE S == Letters \cup {e.unit : e \in Elements}
  <2>1. PICK us \in BoundedSeqs(S, MaxPiece) : z = Bytes(us)
    BY <1>3 DEF Pieces
  <2>2. us \in Seq(S)
    BY <1>1, <1>2
  <2>3. \A u \in S : u \in Unit
    BY <1>2 DEF Byte, OtherUnits, Unit
  <2> HIDE DEF S
  <2>4. us \in Seq(Unit)
    BY <2>2, <2>3
  <2> QED BY <1>3, <2>1, <2>4, GlyphsOfBytes
<1>4. CASE t # "nvarchar"
  <2>1. PICK s \in BoundedSeqs(Letters, MaxPiece) : z = In(t, -1, s)
    BY <1>4 DEF Pieces
  <2>2. s \in Seq(Letters) /\ z = s
    BY <1>1, <1>2, <1>4, <2>1 DEF In, Truncated
  <2>3. s \in Seq(Byte)
    BY <1>2, <2>2
  <2> QED BY <1>4, <2>2, <2>3 DEF ValueOf
<1> QED BY <1>3, <1>4

\* left of a number of bytes, where it neither cuts a unit in two nor fails.
LEMMA ShortenedOf ==
    ASSUME NEW t \in Types, NEW n \in Lengths, NEW l, NEW r, Values(t, l, r),
           ~( /\ n >= 0 /\ (n <= Len(l) \/ n <= Len(r))
              /\ t = "nvarchar" /\ n % 2 = 1 )
    PROVE  \E m \in Lengths : /\ Shortened(n, l) = Truncated(t, m, l)
                              /\ Shortened(n, r) = Truncated(t, m, r)
<1>1. Len(l) \in Nat /\ Len(r) \in Nat
  BY DEF Values, ValueOf
<1>2. CASE n = -1 \/ (n > Len(l) /\ n > Len(r))
  <2>1. Shortened(n, l) = l /\ Shortened(n, r) = r
    BY <1>2 DEF Shortened
  <2>2. Truncated(t, -1, l) = l /\ Truncated(t, -1, r) = r
    BY DEF Truncated
  <2> QED BY <2>1, <2>2 DEF Lengths
<1>3. CASE t # "nvarchar"
  <2>1. /\ Shortened(n, l) = Truncated(t, n, l)
        /\ Shortened(n, r) = Truncated(t, n, r)
    BY <1>1, <1>3 DEF Shortened, Truncated, UnitSize, Lengths
  <2> QED BY <2>1
<1>4. CASE n \in Nat /\ t = "nvarchar" /\ n % 2 # 1
  <2> DEFINE m == n \div 2
  <2>1. m \in Nat /\ n = 2 * m
    BY <1>4
  <2> HIDE DEF m
  <2>2. /\ Shortened(n, l) = Truncated(t, m, l)
        /\ Shortened(n, r) = Truncated(t, m, r)
    BY <1>1, <1>4, <2>1 DEF Shortened, Truncated, UnitSize
  <2> QED BY <2>1, <2>2 DEF Lengths
<1> QED BY <1>1, <1>2, <1>3, <1>4 DEF Lengths

\* What a function with a defined result does to the two values.
Cuts == /\ type' = type \/ (type = "varchar" /\ type' = "nvarchar")
        /\ \E n \in Lengths : /\ Glyphs(type', x') = CutTo(n, Glyphs(type, x))
                              /\ Glyphs(type', y') = CutTo(n, Glyphs(type, y))

Recases == type' = type /\ Same(type, x', x) /\ Same(type, y', y)

Adds == \E z : /\ ValueOf(type, z) /\ type' = type
               /\ \/ x' = z \o x /\ y' = z \o y
                  \/ x' = x \o z /\ y' = y \o z

Picks == \E z : /\ ValueOf(type, z) /\ type' = type
                /\ x' = Greater(type, x, z) /\ y' = Greater(type, y, z)

Forgets == type' = type /\ x' = y'

\* A coercion of both values is a cut.
LEMMA TruncatedBoth ==
    ASSUME Values(type, x, y), type' = type, NEW n \in Lengths,
           x' = Truncated(type, n, x), y' = Truncated(type, n, y)
    PROVE  Values(type', x', y') /\ Cuts
<1>1. /\ type \in Types
      /\ ValueOf(type, x') /\ Glyphs(type, x') = CutTo(n, Glyphs(type, x))
      /\ ValueOf(type, y') /\ Glyphs(type, y') = CutTo(n, Glyphs(type, y))
  BY GlyphsTruncated DEF Values
<1> QED BY <1>1 DEF Values, Cuts

\* Every function fails or does one of the five, and leaves values.
LEMMA Effect ==
    ASSUME Values(type, x, y), Next
    PROVE  /\ Values(type', x', y')
           /\ status' = "ok" => Cuts \/ Recases \/ Adds \/ Picks \/ Forgets
<1>1. type \in Types /\ ValueOf(type, x) /\ ValueOf(type, y)
  BY DEF Values
<1>2. ASSUME NEW why, why # "ok", Fails(why)
      PROVE  Values(type', x', y') /\ status' # "ok"
  <2>1. << >> \in Seq(Byte) /\ Len(<< >>) % 2 = 0
    OBVIOUS
  <2> QED BY <1>1, <1>2, <2>1 DEF Fails, Values, ValueOf
<1>3. \A n \in Limits : n \in Lengths
  BY StringAssumption DEF Lengths
<1>4. ASSUME NEW n \in Limits, Cast(n)
      PROVE  Values(type', x', y') /\ Cuts
  BY <1>3, <1>4, TruncatedBoth DEF Cast, Both
<1>5. ASSUME NEW n \in Limits, Widen(n)
      PROVE  Values(type', x', y') /\ Cuts
  <2>1. /\ type = "varchar" /\ type' = "nvarchar" /\ "nvarchar" \in Types
        /\ x' = In("nvarchar", n, x) /\ y' = In("nvarchar", n, y)
    BY <1>5 DEF Widen, Both, Types
  <2>2. x \in Seq(Byte) /\ y \in Seq(Byte)
    BY <1>1 DEF ValueOf
  <2> QED BY <1>3, <2>1, <2>2, GlyphsWidened DEF Values, Cuts, Glyphs
<1>6. ASSUME NEW n \in Limits, Reload(n)
      PROVE  Values(type', x', y') /\ (status' = "ok" => Cuts)
  <2>1. CASE HasWide(type, x) \/ HasWide(type, y)
    BY <1>2, <1>6, <2>1 DEF Reload
  <2>2. CASE ~HasWide(type, x) /\ ~HasWide(type, y)
    <3>1. /\ type' = type
          /\ x' = In(type, n, Out(type, x)) /\ y' = In(type, n, Out(type, y))
      BY <1>6, <2>2 DEF Reload, Both
    <3> QED BY <1>1, <1>3, <2>2, <3>1, GlyphsReloaded DEF Values, Cuts
  <2> QED BY <2>1, <2>2
<1>7. ASSUME NEW n \in Limits, Left(n)
      PROVE  Values(type', x', y') /\ (status' = "ok" => Cuts)
  <2> DEFINE cuts == n >= 0 /\ (n <= Len(x) \/ n <= Len(y))
  <2>1. CASE Fails("error") \/ Fails("overrun") \/ Fails("garbled")
    BY <1>2, <2>1
  <2>2. CASE /\ ~(cuts /\ type = "nvarchar" /\ n % 2 = 1)
             /\ x' = Shortened(n, x) /\ y' = Shortened(n, y) /\ type' = type
    <3>1. PICK m \in Lengths : /\ Shortened(n, x) = Truncated(type, m, x)
                               /\ Shortened(n, y) = Truncated(type, m, y)
      BY <1>1, <1>3, <2>2, ShortenedOf
    <3> QED BY <2>2, <3>1, TruncatedBoth
  <2> QED BY <1>7, <2>1, <2>2 DEF Left, Both
<1>8. ASSUME NEW case \in {"upper", "lower"}, ChangeCase(case)
      PROVE  Values(type', x', y') /\ (status' = "ok" => Recases)
  <2>1. CASE HasWide(type, x) \/ HasWide(type, y)
    BY <1>2, <1>8, <2>1 DEF ChangeCase
  <2>2. CASE ~HasWide(type, x) /\ ~HasWide(type, y)
    <3>1. /\ type' = type /\ type # "varbinary"
          /\ x' = Cased(case, x) /\ y' = Cased(case, y)
      BY <1>8, <2>2 DEF ChangeCase, Both
    <3>2. /\ ValueOf(type, x') /\ Same(type, x', x)
          /\ ValueOf(type, y') /\ Same(type, y', y)
      BY <1>1, <2>2, <3>1, WeightsCased
    <3> QED BY <1>1, <3>1, <3>2 DEF Values, Recases
  <2> QED BY <2>1, <2>2
<1>9. ASSUME NEW z \in Pieces[type], AddRight(z) \/ AddLeft(z)
      PROVE  Values(type', x', y') /\ Adds
  <2>1. ValueOf(type, z)
    BY <1>1, PieceValue
  <2>2. /\ ValueOf(type, x \o z) /\ ValueOf(type, y \o z)
        /\ ValueOf(type, z \o x) /\ ValueOf(type, z \o y)
    BY <1>1, <2>1, GlyphsJoined
  <2> QED BY <1>1, <1>9, <2>1, <2>2 DEF AddRight, AddLeft, Both, Values, Adds
<1>10. ASSUME NEW z \in Pieces[type], Largest(z)
       PROVE  Values(type', x', y') /\ (status' = "ok" => Picks)
  <2>1. ValueOf(type, z)
    BY <1>1, PieceValue
  <2>2. CASE Fails("crash")
    BY <1>2, <2>2
  <2>3. CASE /\ type' = type
             /\ x' = Greater(type, x, z) /\ y' = Greater(type, y, z)
    <3>1. ValueOf(type, x') /\ ValueOf(type, y')
      BY <1>1, <2>1, <2>3 DEF Greater
    <3> QED BY <1>1, <2>1, <2>3, <3>1 DEF Values, Picks
  <2> QED BY <1>10, <2>2, <2>3 DEF Largest, Both
<1>11. CASE Trim \/ Replace
  BY <1>2, <1>11 DEF Trim, Replace
<1>12. CASE Coalesce
  <2>1. type' = type /\ x' = <<52, 50>> /\ y' = <<52, 50>>
    BY <1>12 DEF Coalesce, Both
  <2>2. 52 \in Byte /\ 50 \in Byte
    BY DEF Byte
  <2>3. <<52, 50>> \in Seq(Byte) /\ Len(<<52, 50>>) = 2 /\ 2 % 2 = 0
    BY <2>2
  <2> QED BY <1>1, <2>1, <2>3 DEF Values, ValueOf, Forgets
<1> QED BY <1>4, <1>5, <1>6, <1>7, <1>8, <1>9, <1>10, <1>11, <1>12 DEF Next

----------------------------------------------------------------------------
(* The theorems. *)

\* The first values are literals or parameters.
LEMMA InitValues == Init => TypeOK
<1> SUFFICES ASSUME Init PROVE TypeOK
  OBVIOUS
<1>1. type \in Types /\ x \in Pieces[type] /\ y \in Pieces[type] /\ status = "ok"
  BY DEF Init
<1>2. ValueOf(type, x) /\ ValueOf(type, y)
  BY <1>1, PieceValue
<1> QED BY <1>1, <1>2 DEF TypeOK, ValueOf, Byte

\* A type invariant says that there are two values.
LEMMA TypedValues ==
    /\ TypeOK => Values(type, x, y)
    /\ Values(type', x', y')
       /\ status' \in {"ok", "garbled", "crash", "error", "overrun"} => TypeOK'
BY DEF TypeOK, Values, ValueOf, Byte

\* What becomes of the last function.
LEMMA StatusStep ==
    ASSUME TypeOK, Next
    PROVE  status' \in {"ok", "garbled", "crash", "error", "overrun"}
BY DEF TypeOK, Next, Cast, Widen, Reload, Left, ChangeCase, AddRight, AddLeft,
       Largest, Trim, Replace, Coalesce, Fails, Fine

\* Every variable keeps its type: the functions leave whole units of nvarchar.
THEOREM TypeCorrect == Spec => []TypeOK
<1>1. TypeOK /\ [Next]_vars => TypeOK'
  <2> SUFFICES ASSUME TypeOK, [Next]_vars PROVE TypeOK'
    OBVIOUS
  <2>1. CASE Next
    <3>1. Values(type', x', y')
      BY <2>1, TypedValues, Effect
    <3>2. status' \in {"ok", "garbled", "crash", "error", "overrun"}
      BY <2>1, StatusStep
    <3> QED BY <3>1, <3>2, TypedValues
  <2>2. CASE UNCHANGED vars
    BY <2>2 DEF vars, TypeOK
  <2> QED BY <2>1, <2>2
<1> QED BY <1>1, InitValues, PTL DEF Spec

\* varchar, nvarchar and varbinary: what the installation scripts declare of
\* the comparison operators holds of all values that Compare models (texts
\* without a zero byte, where strncasecmp stops), those with combining marks
\* too.  Each operator has the commutator and the negator it is given there,
\* and a btree operator class may take them for one total order: of two values
\* one is <= the other, both are if they are equal and only then, and what is
\* <= in two steps is <= in one.
THEOREM OperatorsCorrect ==
    ASSUME NEW t, NEW l, NEW r, NEW s, Values(t, l, r), ValueOf(t, s)
    PROVE  /\ Holds("=", t, l, r) <=> Holds("=", t, r, l)
           /\ Holds("<", t, l, r) <=> Holds(">", t, r, l)
           /\ Holds("<=", t, l, r) <=> Holds(">=", t, r, l)
           /\ Holds("!=", t, l, r) <=> ~Holds("=", t, l, r)
           /\ Holds("<", t, l, r) <=> ~Holds(">=", t, l, r)
           /\ Holds(">", t, l, r) <=> ~Holds("<=", t, l, r)
           /\ Holds("<=", t, l, r) \/ Holds("<=", t, r, l)
           /\ Holds("=", t, l, r) <=> Holds("<=", t, l, r) /\ Holds("<=", t, r, l)
           /\ Holds("<=", t, l, r) /\ Holds("<=", t, r, s) => Holds("<=", t, l, s)
<1> DEFINE c == Compare(t, l, r)
           d == Compare(t, r, l)
<1>1. t \in Types /\ ValueOf(t, l) /\ ValueOf(t, r) /\ ValueOf(t, s)
  BY DEF Values
<1>2. c \in {-1, 0, 1} /\ d = -c
  BY <1>1, HoldsFor
<1>3. /\ Holds("=", t, l, r) <=> c = 0
      /\ Holds("!=", t, l, r) <=> c # 0
      /\ Holds("<", t, l, r) <=> c < 0
      /\ Holds("<=", t, l, r) <=> c <= 0
      /\ Holds(">", t, l, r) <=> c > 0
      /\ Holds(">=", t, l, r) <=> c >= 0
  BY DEF Holds
<1>4. /\ Holds("=", t, r, l) <=> d = 0
      /\ Holds(">", t, r, l) <=> d > 0
      /\ Holds("<=", t, r, l) <=> d <= 0
      /\ Holds(">=", t, r, l) <=> d >= 0
  BY DEF Holds
<1>5. Holds("<=", t, l, r) /\ Holds("<=", t, r, s) => Holds("<=", t, l, s)
  <2> DEFINE pl == Primary(t, l)
             pr == Primary(t, r)
             ps == Primary(t, s)
             sl == Secondary(t, l)
             sr == Secondary(t, r)
             ss == Secondary(t, s)
  <2>1. /\ pl \in IntSeqs /\ pr \in IntSeqs /\ ps \in IntSeqs
        /\ sl \in IntSeqs /\ sr \in IntSeqs /\ ss \in IntSeqs
    BY <1>1, KeysOf
  <2>2. Holds("<=", t, l, r) <=> IF pl = pr THEN Leq(sl, sr) ELSE Leq(pl, pr)
    BY <1>1, HoldsFor DEF Holds
  <2>3. Holds("<=", t, r, s) <=> IF pr = ps THEN Leq(sr, ss) ELSE Leq(pr, ps)
    BY <1>1, HoldsFor DEF Holds
  <2>4. Holds("<=", t, l, s) <=> IF pl = ps THEN Leq(sl, ss) ELSE Leq(pl, ps)
    BY <1>1, HoldsFor DEF Holds
  <2> HIDE DEF pl, pr, ps, sl, sr, ss
  <2>5. /\ Leq(sl, sr) /\ Leq(sr, ss) => Leq(sl, ss)
        /\ Leq(pl, pr) /\ Leq(pr, ps) => Leq(pl, ps)
    BY <2>1, LeqTransitive
  <2>6. Leq(pl, pr) /\ Leq(pr, pl) => pl = pr
    BY <2>1, LeqTotal
  <2> QED BY <2>2, <2>3, <2>4, <2>5, <2>6
<1> HIDE DEF c, d
<1> QED BY <1>2, <1>3, <1>4, <1>5

----------------------------------------------------------------------------
(* What the functions do to the letters and accents keeps their order. *)

\* The accents of a type that has none say nothing.
LEMMA PlainAccents ==
    ASSUME NEW t, NEW l, NEW r, Values(t, l, r), t # "nvarchar",
           LettersOf(t, l) = LettersOf(t, r)
    PROVE  AccentsOf(t, l) = AccentsOf(t, r)
<1>1. t \in Types /\ ValueOf(t, l) /\ ValueOf(t, r)
  BY DEF Values
<1>2. /\ AccentsOf(t, l) \in IntSeqs /\ Len(AccentsOf(t, l)) = Len(LettersOf(t, l))
      /\ \A i \in 1..Len(AccentsOf(t, l)) : AccentsOf(t, l)[i] = 0
  BY <1>1, WeightsOf DEF Accent
<1>3. /\ AccentsOf(t, r) \in IntSeqs /\ Len(AccentsOf(t, r)) = Len(LettersOf(t, r))
      /\ \A i \in 1..Len(AccentsOf(t, r)) : AccentsOf(t, r)[i] = 0
  BY <1>1, WeightsOf DEF Accent
<1> QED BY <1>2, <1>3, SameSeq

\* A cut, also one that makes a varchar an nvarchar.
LEMMA CutKeepsBefore ==
    ASSUME NEW t, NEW l, NEW r, Values(t, l, r), Before(t, l, r),
           NEW u, NEW a, NEW b, Values(u, a, b), NEW n \in Lengths,
           LettersOf(u, a) = CutTo(n, LettersOf(t, l)),
           LettersOf(u, b) = CutTo(n, LettersOf(t, r)),
           AccentsOf(u, a) = CutTo(n, AccentsOf(t, l)),
           AccentsOf(u, b) = CutTo(n, AccentsOf(t, r)),
           u = "nvarchar" /\ LettersOf(u, a) = LettersOf(u, b)
              => LettersOf(t, l) = LettersOf(t, r)
    PROVE  Before(u, a, b)
<1>1. /\ t \in Types /\ ValueOf(t, l) /\ ValueOf(t, r)
      /\ u \in Types /\ ValueOf(u, a) /\ ValueOf(u, b)
  BY DEF Values
<1>2. /\ LettersOf(t, l) \in IntSeqs /\ LettersOf(t, r) \in IntSeqs
      /\ AccentsOf(t, l) \in IntSeqs /\ AccentsOf(t, r) \in IntSeqs
      /\ AccentsOf(u, b) \in IntSeqs
  BY <1>1, WeightsOf
<1>3. CASE LettersOf(t, l) = LettersOf(t, r)
  <2>1. Leq(AccentsOf(t, l), AccentsOf(t, r))
    BY <1>3 DEF Before
  <2>2. Leq(AccentsOf(u, a), AccentsOf(u, b))
    BY <1>2, <2>1, CutToKeepsOrder
  <2> QED BY <1>3, <2>2 DEF Before
<1>4. CASE LettersOf(t, l) # LettersOf(t, r)
  <2>1. Leq(LettersOf(t, l), LettersOf(t, r))
    BY <1>4 DEF Before
  <2>2. Leq(LettersOf(u, a), LettersOf(u, b))
    BY <1>2, <2>1, CutToKeepsOrder
  <2>3. LettersOf(u, a) = LettersOf(u, b) => AccentsOf(u, a) = AccentsOf(u, b)
    BY <1>4, PlainAccents
  <2> QED BY <1>2, <2>2, <2>3, LeqReflexive DEF Before
<1> QED BY <1>3, <1>4

\* A text added to both of two values with the same letters and accents.
LEMMA JoinKeepsSame ==
    ASSUME NEW t, NEW l, NEW r, Values(t, l, r), Same(t, l, r),
           NEW z, ValueOf(t, z)
    PROVE  Same(t, z \o l, z \o r) /\ Same(t, l \o z, r \o z)
<1>1. t \in Types /\ ValueOf(t, l) /\ ValueOf(t, r)
  BY DEF Values
<1>2. LettersOf(t, l) = LettersOf(t, r) /\ AccentsOf(t, l) = AccentsOf(t, r)
  BY DEF Same
<1>3. /\ LettersOf(t, z \o l) = LettersOf(t, z) \o LettersOf(t, l)
      /\ AccentsOf(t, z \o l) = AccentsOf(t, z) \o AccentsOf(t, l)
  BY <1>1, WeightsJoined
<1>4. /\ LettersOf(t, z \o r) = LettersOf(t, z) \o LettersOf(t, r)
      /\ AccentsOf(t, z \o r) = AccentsOf(t, z) \o AccentsOf(t, r)
  BY <1>1, WeightsJoined
<1>5. /\ LettersOf(t, l \o z) = LettersOf(t, l) \o LettersOf(t, z)
      /\ AccentsOf(t, l \o z) = AccentsOf(t, l) \o AccentsOf(t, z)
  BY <1>1, WeightsJoined
<1>6. /\ LettersOf(t, r \o z) = LettersOf(t, r) \o LettersOf(t, z)
      /\ AccentsOf(t, r \o z) = AccentsOf(t, r) \o AccentsOf(t, z)
  BY <1>1, WeightsJoined
<1>7. Same(t, z \o l, z \o r)
  BY <1>2, <1>3, <1>4 DEF Same
<1>8. Same(t, l \o z, r \o z)
  BY <1>2, <1>5, <1>6 DEF Same
<1> QED BY <1>7, <1>8

\* The same in front of two sequences does not make them equal.
LEMMA InFrontTellsApart ==
    ASSUME NEW z \in IntSeqs, NEW s \in IntSeqs, NEW t \in IntSeqs
    PROVE  z \o s = z \o t => s = t
<1> DEFINE a == z \o s
           b == z \o t
<1>1. /\ Len(a) = Len(z) + Len(s) /\ Len(z) \in Nat /\ Len(s) \in Nat
      /\ Len(b) = Len(z) + Len(t) /\ Len(t) \in Nat
      /\ \A i \in 1..Len(s) : a[Len(z) + i] = s[i]
      /\ \A i \in 1..Len(t) : b[Len(z) + i] = t[i]
  BY Joined DEF IntSeqs
<1> HIDE DEF a, b
<1>2. ASSUME a = b PROVE s = t
  <2>1. Len(s) = Len(t)
    BY <1>1, <1>2
  <2> QED BY <1>1, <1>2, <2>1, SameSeq
<1> QED BY <1>2 DEF a, b

\* Sequences that differ at a position do so with the same behind them.
LEMMA BehindTellsApart ==
    ASSUME NEW z \in IntSeqs, NEW s \in IntSeqs, NEW t \in IntSeqs,
           Differ(s, t) # {}
    PROVE  s \o z # t \o z
<1>1. PICK i \in Common(s, t) : s[i] # t[i]
  BY DEF Differ
<1>2. i \in 1..Len(s) /\ i \in 1..Len(t)
  BY CommonPlaces
<1>3. (s \o z)[i] = s[i] /\ (t \o z)[i] = t[i]
  BY <1>2, Joined DEF IntSeqs
<1> QED BY <1>1, <1>3

\* Sequences of one length differ at a position, or not at all.
LEMMA DifferSomewhere ==
    ASSUME NEW s \in IntSeqs, NEW t \in IntSeqs, Len(s) = Len(t), s # t
    PROVE  Differ(s, t) # {}
<1>1. PICK i \in 1..Len(s) : s[i] # t[i]
  BY SameSeq
<1>2. i \in Common(s, t)
  BY CommonPlaces
<1> QED BY <1>1, <1>2 DEF Differ

\* A text added in front of both.
LEMMA InFrontKeepsBefore ==
    ASSUME NEW t, NEW l, NEW r, Values(t, l, r), Before(t, l, r),
           NEW z, ValueOf(t, z)
    PROVE  Before(t, z \o l, z \o r)
<1>1. t \in Types /\ ValueOf(t, l) /\ ValueOf(t, r)
  BY DEF Values
<1>2. /\ LettersOf(t, l) \in IntSeqs /\ AccentsOf(t, l) \in IntSeqs
      /\ LettersOf(t, r) \in IntSeqs /\ AccentsOf(t, r) \in IntSeqs
      /\ LettersOf(t, z) \in IntSeqs /\ AccentsOf(t, z) \in IntSeqs
  BY <1>1, WeightsOf
<1>3. /\ LettersOf(t, z \o l) = LettersOf(t, z) \o LettersOf(t, l)
      /\ AccentsOf(t, z \o l) = AccentsOf(t, z) \o AccentsOf(t, l)
  BY <1>1, WeightsJoined
<1>4. /\ LettersOf(t, z \o r) = LettersOf(t, z) \o LettersOf(t, r)
      /\ AccentsOf(t, z \o r) = AccentsOf(t, z) \o AccentsOf(t, r)
  BY <1>1, WeightsJoined
<1>5. CASE LettersOf(t, l) = LettersOf(t, r)
  <2>1. Leq(AccentsOf(t, l), AccentsOf(t, r))
    BY <1>5 DEF Before
  <2>2. Leq(AccentsOf(t, z \o l), AccentsOf(t, z \o r))
    BY <1>2, <1>3, <1>4, <2>1, InFrontKeepsOrder
  <2>3. LettersOf(t, z \o l) = LettersOf(t, z \o r)
    BY <1>3, <1>4, <1>5
  <2> QED BY <2>2, <2>3 DEF Before
<1>6. CASE LettersOf(t, l) # LettersOf(t, r)
  <2>1. Leq(LettersOf(t, l), LettersOf(t, r))
    BY <1>6 DEF Before
  <2>2. Leq(LettersOf(t, z \o l), LettersOf(t, z \o r))
    BY <1>2, <1>3, <1>4, <2>1, InFrontKeepsOrder
  <2>3. LettersOf(t, z \o l) # LettersOf(t, z \o r)
    BY <1>2, <1>3, <1>4, <1>6, InFrontTellsApart
  <2> QED BY <2>2, <2>3 DEF Before
<1> QED BY <1>5, <1>6

\* A text added behind both, where a letter that both have tells them apart.
LEMMA BehindKeepsBefore ==
    ASSUME NEW t, NEW l, NEW r, Values(t, l, r), Before(t, l, r),
           NEW z, ValueOf(t, z),
           LettersOf(t, l) # LettersOf(t, r)
              => Differ(LettersOf(t, l), LettersOf(t, r)) # {}
    PROVE  Before(t, l \o z, r \o z)
<1>1. t \in Types /\ ValueOf(t, l) /\ ValueOf(t, r)
  BY DEF Values
<1>2. /\ LettersOf(t, l) \in IntSeqs /\ AccentsOf(t, l) \in IntSeqs
      /\ LettersOf(t, r) \in IntSeqs /\ AccentsOf(t, r) \in IntSeqs
      /\ LettersOf(t, z) \in IntSeqs /\ AccentsOf(t, z) \in IntSeqs
      /\ Len(AccentsOf(t, l)) = Len(LettersOf(t, l))
      /\ Len(AccentsOf(t, r)) = Len(LettersOf(t, r))
  BY <1>1, WeightsOf
<1>3. /\ LettersOf(t, l \o z) = LettersOf(t, l) \o LettersOf(t, z)
      /\ AccentsOf(t, l \o z) = AccentsOf(t, l) \o AccentsOf(t, z)
  BY <1>1, WeightsJoined
<1>4. /\ LettersOf(t, r \o z) = LettersOf(t, r) \o LettersOf(t, z)
      /\ AccentsOf(t, r \o z) = AccentsOf(t, r) \o AccentsOf(t, z)
  BY <1>1, WeightsJoined
<1>5. CASE LettersOf(t, l) = LettersOf(t, r)
  <2>1. Leq(AccentsOf(t, l), AccentsOf(t, r))
    BY <1>5 DEF Before
  <2>2. LettersOf(t, l \o z) = LettersOf(t, r \o z)
    BY <1>3, <1>4, <1>5
  <2>3. CASE AccentsOf(t, l) = AccentsOf(t, r)
    <3>1. AccentsOf(t, l \o z) = AccentsOf(t, r \o z)
      BY <1>3, <1>4, <2>3
    <3>2. AccentsOf(t, r \o z) \in IntSeqs
      BY <1>2, <1>4, Joined DEF IntSeqs
    <3> QED BY <2>2, <3>1, <3>2, LeqReflexive DEF Before
  <2>4. CASE AccentsOf(t, l) # AccentsOf(t, r)
    <3>1. Differ(AccentsOf(t, l), AccentsOf(t, r)) # {}
      BY <1>2, <1>5, <2>4, DifferSomewhere
    <3>2. Leq(AccentsOf(t, l \o z), AccentsOf(t, r \o z))
      BY <1>2, <1>3, <1>4, <2>1, <3>1, BehindKeepsOrder
    <3> QED BY <2>2, <3>2 DEF Before
  <2> QED BY <2>3, <2>4
<1>6. CASE LettersOf(t, l) # LettersOf(t, r)
  <2>1. Leq(LettersOf(t, l), LettersOf(t, r))
    BY <1>6 DEF Before
  <2>2. Leq(LettersOf(t, l \o z), LettersOf(t, r \o z))
    BY <1>2, <1>3, <1>4, <1>6, <2>1, BehindKeepsOrder
  <2>3. LettersOf(t, l \o z) # LettersOf(t, r \o z)
    BY <1>2, <1>3, <1>4, <1>6, BehindTellsApart
  <2> QED BY <2>2, <2>3 DEF Before
<1> QED BY <1>5, <1>6

\* The larger of each and a third.
LEMMA GreaterKeepsOrder ==
    ASSUME NEW t, NEW l, NEW r, Values(t, l, r), NEW z, ValueOf(t, z),
           Holds("<=", t, l, r)
    PROVE  Holds("<=", t, Greater(t, l, z), Greater(t, r, z))
<1>1. Values(t, z, l) /\ Values(t, z, r) /\ Values(t, z, z) /\ Values(t, l, z)
  BY DEF Values
<1>2. ValueOf(t, l) /\ ValueOf(t, r)
  BY DEF Values
<1>3. /\ Greater(t, l, z) = IF Holds(">", t, z, l) THEN z ELSE l
      /\ Greater(t, r, z) = IF Holds(">", t, z, r) THEN z ELSE r
  BY DEF Greater, Holds
<1>4. Holds(">", t, z, l) <=> ~Holds("<=", t, z, l)
  BY <1>1, <1>2, OperatorsCorrect
<1>5. Holds(">", t, z, r) <=> ~Holds("<=", t, z, r)
  BY <1>1, <1>2, OperatorsCorrect
<1>6. Holds("<=", t, z, z)
  BY <1>1, OperatorsCorrect
<1>7. Holds("<=", t, z, l) => Holds("<=", t, z, r)
  BY <1>1, <1>2, OperatorsCorrect
<1> QED BY <1>3, <1>4, <1>5, <1>6, <1>7

----------------------------------------------------------------------------
(* The theorems about the functions. *)

\* varchar, nvarchar and varbinary: two values that compare equal stay equal,
\* and of one length, through every function with a defined result, whatever
\* letters and accents they have, if neither has a combining mark.
THEOREM EqualStaysEqualCorrect == Spec => EqualStaysEqual
<1>1. ASSUME TypeOK, Next, Holds("=", type, x, y), status' = "ok",
             ~Marked(type, x), ~Marked(type, y)
      PROVE  Holds("=", type', x', y') /\ Length(x') = Length(y')
  <2>1. Values(type, x, y) /\ Values(type', x', y')
    BY <1>1, TypedValues, Effect
  <2>2. /\ type \in Types /\ ValueOf(type, x) /\ ValueOf(type, y)
        /\ type' \in Types /\ ValueOf(type', x') /\ ValueOf(type', y')
    BY <2>1 DEF Values
  <2>3. Same(type, x, y)
    BY <1>1, <2>2, UnmarkedHolds
  <2>4. Same(type', x', y')
    <3>1. CASE Cuts
      <4>1. PICK n \in Lengths : /\ Glyphs(type', x') = CutTo(n, Glyphs(type, x))
                                 /\ Glyphs(type', y') = CutTo(n, Glyphs(type, y))
        BY <3>1 DEF Cuts
      <4>2. CASE type' = type
        <5>1. /\ LettersOf(type, x') = CutTo(n, LettersOf(type, x))
              /\ AccentsOf(type, x') = CutTo(n, AccentsOf(type, x))
          BY <2>2, <4>1, <4>2, WeightsCut
        <5>2. /\ LettersOf(type, y') = CutTo(n, LettersOf(type, y))
              /\ AccentsOf(type, y') = CutTo(n, AccentsOf(type, y))
          BY <2>2, <4>1, <4>2, WeightsCut
        <5> QED BY <2>3, <4>2, <5>1, <5>2 DEF Same
      <4>3. CASE type = "varchar" /\ type' = "nvarchar"
        <5>1. x \in Seq(Byte) /\ y \in Seq(Byte)
          BY <2>2 DEF ValueOf
        <5>2. Glyphs(type, x) = x /\ Glyphs(type, y) = y
          BY <4>3 DEF Glyphs
        <5> QED BY <2>3, <4>1, <4>3, <5>1, <5>2, SameWidened
      <4> QED BY <3>1, <4>2, <4>3 DEF Cuts
    <3>2. CASE Recases
      BY <2>3, <3>2 DEF Recases, Same
    <3>3. CASE Adds
      <4>1. PICK z : /\ ValueOf(type, z) /\ type' = type
                     /\ \/ x' = z \o x /\ y' = z \o y
                        \/ x' = x \o z /\ y' = y \o z
        BY <3>3 DEF Adds
      <4>2. Same(type, z \o x, z \o y)
        BY <2>1, <2>3, <4>1, JoinKeepsSame
      <4>3. Same(type, x \o z, y \o z)
        BY <2>1, <2>3, <4>1, JoinKeepsSame
      <4> QED BY <4>1, <4>2, <4>3
    <3>4. CASE Picks
      <4>1. PICK z : /\ ValueOf(type, z) /\ type' = type
                     /\ x' = Greater(type, x, z) /\ y' = Greater(type, y, z)
        BY <3>4 DEF Picks
      <4>2. Primary(type, x) = Primary(type, y) /\ Secondary(type, x) = Secondary(type, y)
        BY <2>2, <2>3, SameEqual
      <4>3. Compare(type, z, x) = Compare(type, z, y)
        BY <4>2 DEF Compare
      <4>4. (x' = z /\ y' = z) \/ (x' = x /\ y' = y)
        BY <4>1, <4>3 DEF Greater
      <4> QED BY <2>3, <4>1, <4>4 DEF Same
    <3>5. CASE Forgets
      BY <3>5 DEF Forgets, Same
    <3> QED BY <1>1, <2>1, <3>1, <3>2, <3>3, <3>4, <3>5, Effect
  <2>5. Holds("=", type', x', y') /\ Len(x') = Len(y')
    BY <2>2, <2>4, SameEqual
  <2> QED BY <2>5 DEF Length
<1>2. TypeOK /\ [Next]_vars =>
         [ /\ Holds("=", type, x, y) /\ status' = "ok"
           /\ ~Marked(type, x) /\ ~Marked(type, y)
           => /\ Holds("=", type', x', y')
              /\ Length(x') = Length(y') ]_vars
  BY <1>1
<1> QED BY <1>2, TypeCorrect, PTL DEF Spec, EqualStaysEqual

\* A value that something is added to at its end starts the new one.
LEMMA ExtendedBy ==
    ASSUME NEW s \in Seq(Byte), NEW z \in Seq(Byte), z # << >>
    PROVE  IsStrictPrefix(s, s \o z)
<1> DEFINE r == s \o z
<1>1. /\ r \in Seq(Byte) /\ Len(r) = Len(s) + Len(z) /\ Len(s) \in Nat
      /\ Len(z) \in Nat /\ \A i \in 1..Len(s) : r[i] = s[i]
  BY Joined
<1>2. Len(z) # 0
  OBVIOUS
<1> HIDE DEF r
<1>3. s # r /\ Len(s) <= Len(r)
  BY <1>1, <1>2
<1>4. SubSeq(s, 1, Len(s)) = SubSeq(r, 1, Len(s))
  <2> DEFINE a == SubSeq(s, 1, Len(s))
             b == SubSeq(r, 1, Len(s))
  <2>1. a \in Seq(Byte) /\ Len(a) = Len(s) /\ \A i \in 1..Len(s) : a[i] = s[i]
    BY <1>1
  <2>2. b \in Seq(Byte) /\ Len(b) = Len(s) /\ \A i \in 1..Len(s) : b[i] = r[i]
    BY <1>1, <1>3
  <2> HIDE DEF a, b
  <2>3. a \in IntSeqs /\ b \in IntSeqs
    BY <2>1, <2>2, NumberSeqs
  <2>4. a = b
    BY <1>1, <2>1, <2>2, <2>3, SameSeq
  <2> QED BY <2>4 DEF a, b
<1> QED BY <1>3, <1>4 DEF r, IsStrictPrefix, IsPrefix

\* varchar, nvarchar and varbinary: the order of two values is kept by every
\* function with a defined result, whatever letters and accents they have, with
\* the exceptions that OrderKept names and no other.
THEOREM OrderKeptCorrect == Spec => OrderKept
<1>1. ASSUME TypeOK, Next, Holds("<=", type, x, y), status' = "ok",
             ~Marked(type, x), ~Marked(type, y),
             ~Marked(type', x'), ~Marked(type', y'),
             ~Extended, ~Recollated, ~AccentsLeft
      PROVE  Holds("<=", type', x', y')
  <2>1. Values(type, x, y) /\ Values(type', x', y')
    BY <1>1, TypedValues, Effect
  <2>2. /\ type \in Types /\ ValueOf(type, x) /\ ValueOf(type, y)
        /\ type' \in Types /\ ValueOf(type', x') /\ ValueOf(type', y')
    BY <2>1 DEF Values
  <2>3. /\ Primary(type, x) = LettersOf(type, x) /\ Primary(type, y) = LettersOf(type, y)
        /\ Before(type, x, y)
    BY <1>1, <2>2, UnmarkedHolds
  <2>4. /\ Primary(type', x') = LettersOf(type', x')
        /\ Primary(type', y') = LettersOf(type', y')
        /\ Holds("<=", type', x', y') <=> Before(type', x', y')
    BY <1>1, <2>2, UnmarkedHolds
  <2>5. CASE Cuts
    <3>1. PICK n \in Lengths : /\ Glyphs(type', x') = CutTo(n, Glyphs(type, x))
                               /\ Glyphs(type', y') = CutTo(n, Glyphs(type, y))
      BY <2>5 DEF Cuts
    <3>2. /\ LettersOf(type', x') = CutTo(n, LettersOf(type, x))
          /\ AccentsOf(type', x') = CutTo(n, AccentsOf(type, x))
          /\ LettersOf(type', y') = CutTo(n, LettersOf(type, y))
          /\ AccentsOf(type', y') = CutTo(n, AccentsOf(type, y))
      <4>1. CASE type' = type
        BY <2>2, <3>1, <4>1, WeightsCut
      <4>2. CASE type = "varchar" /\ type' = "nvarchar"
        <5>1. x \in Seq(Byte) /\ y \in Seq(Byte)
          BY <2>2 DEF ValueOf
        <5>2. Glyphs(type, x) = x /\ Glyphs(type, y) = y
          BY <4>2 DEF Glyphs
        <5>3. Range(x) \subseteq InCollationOrder /\ Range(y) \subseteq InCollationOrder
          BY <1>1, <4>2 DEF Recollated
        <5>4. /\ LettersOf(type', x') = CutTo(n, LettersOf(type, x))
              /\ AccentsOf(type', x') = CutTo(n, AccentsOf(type, x))
          BY <2>2, <3>1, <4>2, <5>1, <5>2, <5>3, WeightsWidened
        <5>5. /\ LettersOf(type', y') = CutTo(n, LettersOf(type, y))
              /\ AccentsOf(type', y') = CutTo(n, AccentsOf(type, y))
          BY <2>2, <3>1, <4>2, <5>1, <5>2, <5>3, WeightsWidened
        <5> QED BY <5>4, <5>5
      <4> QED BY <2>5, <4>1, <4>2 DEF Cuts
    <3>3. type' = "nvarchar" /\ LettersOf(type', x') = LettersOf(type', y')
             => LettersOf(type, x) = LettersOf(type, y)
      BY <1>1, <2>3, <2>4 DEF AccentsLeft
    <3> QED BY <2>1, <2>3, <2>4, <3>2, <3>3, CutKeepsBefore
  <2>6. CASE Recases
    BY <2>3, <2>4, <2>6 DEF Recases, Same, Before
  <2>7. CASE Adds
    <3>1. PICK z : /\ ValueOf(type, z) /\ type' = type
                   /\ \/ x' = z \o x /\ y' = z \o y
                      \/ x' = x \o z /\ y' = y \o z
      BY <2>7 DEF Adds
    <3>2. CASE x' = z \o x /\ y' = z \o y
      <4>1. Before(type, z \o x, z \o y)
        BY <2>1, <2>3, <3>1, InFrontKeepsBefore
      <4> QED BY <2>4, <3>1, <3>2, <4>1
    <3>3. CASE x' = x \o z /\ y' = y \o z /\ z # << >>
      <4>1. x \in Seq(Byte) /\ y \in Seq(Byte) /\ z \in Seq(Byte)
        BY <2>2, <3>1 DEF ValueOf
      <4>2. IsStrictPrefix(x, x') /\ IsStrictPrefix(y, y')
        BY <3>3, <4>1, ExtendedBy
      <4>3. LettersOf(type, x) # LettersOf(type, y)
               => Differ(LettersOf(type, x), LettersOf(type, y)) # {}
        BY <1>1, <2>3, <4>2 DEF Extended
      <4>4. Before(type, x \o z, y \o z)
        BY <2>1, <2>3, <3>1, <4>3, BehindKeepsBefore
      <4> QED BY <2>4, <3>1, <3>3, <4>4
    <3>4. CASE x' = x \o z /\ y' = y \o z /\ z = << >>
      <4>1. x' = x /\ y' = y
        BY <2>2, <3>4 DEF ValueOf
      <4> QED BY <1>1, <3>1, <4>1
    <3> QED BY <3>1, <3>2, <3>3, <3>4
  <2>8. CASE Picks
    <3>1. PICK z : /\ ValueOf(type, z) /\ type' = type
                   /\ x' = Greater(type, x, z) /\ y' = Greater(type, y, z)
      BY <2>8 DEF Picks
    <3> QED BY <1>1, <2>1, <3>1, GreaterKeepsOrder
  <2>9. CASE Forgets
    <3>1. type' = type /\ x' = y'
      BY <2>9 DEF Forgets
    <3> QED BY <2>1, <2>2, <3>1, OperatorsCorrect
  <2> QED BY <1>1, <2>1, <2>5, <2>6, <2>7, <2>8, <2>9, Effect
<1>2. TypeOK /\ [Next]_vars =>
         [ /\ Holds("<=", type, x, y) /\ status' = "ok"
           /\ ~Marked(type, x) /\ ~Marked(type, y)
           /\ ~Marked(type', x') /\ ~Marked(type', y')
           /\ ~Extended /\ ~Recollated /\ ~AccentsLeft
           => Holds("<=", type', x', y') ]_vars
  BY <1>1
<1> QED BY <1>2, TypeCorrect, PTL DEF Spec, OrderKept
=============================================================================
