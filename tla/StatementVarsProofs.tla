------------------------ MODULE StatementVarsProofs -------------------------
(***************************************************************************)
(* Proofs about StatementVars: whatever the tokens and however deep the    *)
(* statements, every placeholder is bound to the variable that is written  *)
(* in its place, and a statement has the variables of its own text.        *)
(***************************************************************************)
EXTENDS StatementVars, SequenceTheorems, WellFoundedInduction, TLAPS

----------------------------------------------------------------------------
\* A list that belongs to a text: Bound and OnlyItsOwn for the two.

Fits(written, list) ==
    \A i \in DOMAIN written :
        /\ written[i].at \in DOMAIN list
        /\ list[written[i].at] = Lower[written[i].name]

Covers(written, list) ==
    ToSet(list) = {Lower[written[i].name] : i \in DOMAIN written}

Matches(written, list) ==
    Fits(written, list) /\ IsInjective(list) /\ Covers(written, list)

\* The text that is being read, those put aside and the one reduced last all
\* have their list; between statements nothing is left in stmt_vars.
IInv ==
    /\ TypeOK
    /\ Matches(text, stmt_vars)
    /\ \A k \in 1 .. Len(stack) : Matches(stack[k].text, stack[k].saved)
    /\ Matches(stmt.text, stmt.vars)
    /\ state \in {"statement", "reduced"} => text = << >>

----------------------------------------------------------------------------
\* Every set of natural numbers that is not empty has a least element.
LEMMA LeastNat ==
    ASSUME NEW T, T \subseteq Nat, T # {}
    PROVE  \E n \in T : \A m \in T : n <= m
<1>1. PICK n \in T : \A m \in T : <<m, n>> \notin OpToRel(<, Nat)
  BY NatLessThanWellFounded, WFMin
<1>2. \A m \in T : ~(m < n)
  BY <1>1 DEF OpToRel
<1>3. \A m \in T : n <= m
  BY <1>2
<1> QED BY <1>3

\* Place finds a variable that is in the list, or the position behind it.
LEMMA PlaceFound ==
    ASSUME NEW S, NEW list \in Seq(S), NEW v
    PROVE  /\ Place(list, v) \in 1 .. Len(list) + 1
           /\ Place(list, v) <= Len(list) => list[Place(list, v)] = v
           /\ \A j \in 1 .. Place(list, v) - 1 : list[j] # v
<1> DEFINE Fit(i) == /\ i <= Len(list) => list[i] = v
                     /\ \A j \in 1 .. i - 1 : list[j] # v
           Stops  == {i \in 1 .. Len(list) + 1 : i <= Len(list) => list[i] = v}
<1>1. Len(list) + 1 \in Stops /\ Stops \subseteq Nat
  BY LenProperties
<1>2. PICK i \in Stops : \A m \in Stops : i <= m
  <2> HIDE DEF Stops
  <2> QED BY <1>1, LeastNat
<1>3. \A j \in 1 .. i - 1 : list[j] # v
  <2> SUFFICES ASSUME NEW j \in 1 .. i - 1, list[j] = v PROVE FALSE
    OBVIOUS
  <2>1. j \in Stops
    BY LenProperties
  <2> QED BY <1>1, <1>2, <2>1
<1>4. i \in 1 .. Len(list) + 1 /\ Fit(i)
  BY <1>2, <1>3
<1>5. Place(list, v) \in 1 .. Len(list) + 1 /\ Fit(Place(list, v))
  BY <1>4 DEF Place
<1> QED BY <1>5

LEMMA MatchesEmpty == Matches(<< >>, << >>)
BY DEF Matches, Fits, Covers, IsInjective, ToSet

\* An empty text has an empty list.
LEMMA EmptyList ==
    ASSUME NEW S, NEW list \in Seq(S), Matches(<< >>, list)
    PROVE  list = << >>
<1>1. ToSet(list) = {}
  BY DEF Matches, Covers
<1>2. DOMAIN list = 1 .. Len(list) /\ Len(list) \in Nat
  BY LenProperties
<1>3. Len(list) = 0
  <2> SUFFICES ASSUME Len(list) # 0 PROVE FALSE
    OBVIOUS
  <2>1. list[1] \in ToSet(list)
    BY <1>2 DEF ToSet
  <2> QED BY <1>1, <2>1
<1> QED BY <1>3, EmptySeq

----------------------------------------------------------------------------
\* A variable is read: it has its place in the list already, or gets the next.

Listed(list, v) == IF Place(list, v) > Len(list) THEN Append(list, v) ELSE list

LEMMA VarMatches ==
    ASSUME NEW written \in Seq(Uses), NEW list \in Seq(Lowered),
           Matches(written, list), NEW name \in Names
    PROVE  LET v == Lower[name]
               longer == Append(written, [name |-> name, at |-> Place(list, v)])
           IN  /\ longer \in Seq(Uses)
               /\ Listed(list, v) \in Seq(Lowered)
               /\ Matches(longer, Listed(list, v))
<1> DEFINE v      == Lower[name]
           at     == Place(list, v)
           use    == [name |-> name, at |-> at]
           longer == Append(written, use)
           new    == Listed(list, v)
<1>1. /\ at \in 1 .. Len(list) + 1
      /\ at <= Len(list) => list[at] = v
      /\ \A j \in 1 .. at - 1 : list[j] # v
  BY PlaceFound
<1>2. v \in Lowered
  BY DEF Lowered
<1>3. /\ Len(list) \in Nat /\ DOMAIN list = 1 .. Len(list)
      /\ Len(written) \in Nat /\ DOMAIN written = 1 .. Len(written)
  BY LenProperties
<1>4. use \in Uses
  BY <1>1, <1>3 DEF Uses
<1>5. /\ longer \in Seq(Uses)
      /\ DOMAIN longer = 1 .. Len(written) + 1
      /\ \A i \in 1 .. Len(written) : longer[i] = written[i]
      /\ longer[Len(written) + 1] = use
  BY <1>3, <1>4, AppendProperties, LenProperties
<1>6. /\ new \in Seq(Lowered)
      /\ DOMAIN new = 1 .. Len(new)
      /\ Len(new) = IF at > Len(list) THEN Len(list) + 1 ELSE Len(list)
      /\ \A i \in 1 .. Len(list) : new[i] = list[i]
      /\ at \in 1 .. Len(new) /\ new[at] = v
  BY <1>1, <1>2, <1>3, AppendProperties, LenProperties DEF Listed
<1> HIDE DEF at, longer, new, v
<1>7. Fits(longer, new)
  <2> SUFFICES ASSUME NEW i \in 1 .. Len(written) + 1
               PROVE  /\ longer[i].at \in DOMAIN new
                      /\ new[longer[i].at] = Lower[longer[i].name]
    BY <1>5 DEF Fits
  <2>1. CASE i = Len(written) + 1
    BY <1>5, <1>6, <2>1 DEF v
  <2>2. CASE i \in 1 .. Len(written)
    <3>1. /\ written[i].at \in 1 .. Len(list)
          /\ list[written[i].at] = Lower[written[i].name]
      BY <1>3, <2>2 DEF Matches, Fits
    <3> QED BY <1>3, <1>5, <1>6, <2>2, <3>1
  <2> QED BY <1>3, <2>1, <2>2
<1>8. IsInjective(new)
  <2> SUFFICES ASSUME NEW i \in 1 .. Len(new), NEW j \in 1 .. Len(new),
                      new[i] = new[j]
               PROVE  i = j
    BY <1>6 DEF IsInjective
  <2>1. \A k, l \in 1 .. Len(list) : list[k] = list[l] => k = l
    BY <1>3 DEF Matches, IsInjective
  <2>2. CASE at <= Len(list)
    BY <1>1, <1>3, <1>6, <2>1, <2>2
  <2>3. CASE at = Len(list) + 1
    BY <1>1, <1>3, <1>6, <2>1, <2>3
  <2> QED BY <1>1, <1>3, <2>2, <2>3
<1>9. Covers(longer, new)
  <2>1. ToSet(list) = {Lower[written[i].name] : i \in 1 .. Len(written)}
    BY <1>3 DEF Matches, Covers
  <2>2. ToSet(new) = ToSet(list) \cup {v}
    BY <1>1, <1>3, <1>6 DEF ToSet
  <2>3. {Lower[longer[i].name] : i \in 1 .. Len(written) + 1}
           = {Lower[written[i].name] : i \in 1 .. Len(written)} \cup {v}
    BY <1>3, <1>5 DEF v
  <2> QED BY <1>5, <2>1, <2>2, <2>3 DEF Covers
<1> QED BY <1>5, <1>6, <1>7, <1>8, <1>9 DEF Matches, at, longer, new, v

----------------------------------------------------------------------------
\* The stack: what is pushed, replaced at the top and left below it.

Frame == [op : {"block", "if", "else", "while"},
          text : Seq(Uses), saved : Seq(Lowered)]

Aside(frames) ==
    /\ frames \in Seq(Frame)
    /\ \A k \in 1 .. Len(frames) : Matches(frames[k].text, frames[k].saved)

LEMMA PrefixFacts ==
    ASSUME NEW S, NEW s \in Seq(S), NEW n \in Nat, n <= Len(s)
    PROVE  /\ SubSeq(s, 1, n) \in Seq(S)
           /\ Len(SubSeq(s, 1, n)) = n
           /\ \A k \in 1 .. n : SubSeq(s, 1, n)[k] = s[k]
BY LenProperties

LEMMA FrontFacts ==
    ASSUME NEW S, NEW s \in Seq(S), Len(s) > 0
    PROVE  /\ Front(s) \in Seq(S)
           /\ Len(Front(s)) = Len(s) - 1
           /\ \A k \in 1 .. Len(s) - 1 : Front(s)[k] = s[k]
<1>1. PICK n \in Nat : n = Len(s) - 1
  BY LenProperties
<1>2. Front(s) = SubSeq(s, 1, n)
  BY <1>1 DEF Front
<1>3. n <= Len(s)
  BY <1>1, LenProperties
<1> QED BY <1>1, <1>2, <1>3, PrefixFacts

LEMMA AsidePush ==
    ASSUME NEW frames, Aside(frames),
           NEW f \in Frame, Matches(f.text, f.saved)
    PROVE  Aside(Append(frames, f))
BY AppendProperties DEF Aside

LEMMA AsidePop ==
    ASSUME NEW frames, Aside(frames), frames # << >>
    PROVE  /\ Aside(Front(frames))
           /\ Last(frames) \in Frame
           /\ Matches(Last(frames).text, Last(frames).saved)
<1>1. Len(frames) \in Nat \ {0} /\ \A k \in 1 .. Len(frames) : frames[k] \in Frame
  BY EmptySeq, LenProperties DEF Aside
<1>2. /\ Front(frames) \in Seq(Frame)
      /\ Len(Front(frames)) = Len(frames) - 1
      /\ \A k \in 1 .. Len(frames) - 1 : Front(frames)[k] = frames[k]
  BY <1>1, FrontFacts DEF Aside
<1> QED BY <1>1, <1>2 DEF Aside, Last

\* IInv in the terms of these lemmas.
LEMMA InvAs ==
    IInv <=> /\ TypeOK
             /\ Matches(text, stmt_vars)
             /\ Aside(stack)
             /\ Matches(stmt.text, stmt.vars)
             /\ state \in {"statement", "reduced"} => text = << >>
BY DEF IInv, Aside, TypeOK, Frame

----------------------------------------------------------------------------
LEMMA InvInit == Init => IInv
<1> SUFFICES ASSUME Init PROVE IInv
  OBVIOUS
<1>1. TypeOK
  BY EmptySeq DEF Init, TypeOK, NoStmt
<1>2. Aside(stack)
  BY EmptySeq DEF Init, Aside
<1> QED BY <1>1, <1>2, MatchesEmpty, InvAs DEF Init, NoStmt

\* A statement is reduced with a text and the list that belongs to it.
LEMMA ReduceKeeps ==
    ASSUME IInv, NEW written \in Seq(Uses), NEW list \in Seq(Lowered),
           Matches(written, list), Reduce(written, list),
           text' = << >>, Aside(stack')
    PROVE  IInv'
<1>1. /\ stmt_vars' = << >> /\ state' = "reduced"
      /\ stmt' = [text |-> written, vars |-> list]
  BY DEF Reduce
<1>2. TypeOK'
  BY <1>1, EmptySeq DEF Aside, TypeOK, Frame
<1>3. Matches(text', stmt_vars') /\ Matches(stmt'.text, stmt'.vars)
  BY <1>1, MatchesEmpty
<1> QED BY <1>1, <1>2, <1>3 DEF IInv, Aside

LEMMA InvStep == IInv /\ [Next]_vars => IInv'
<1> SUFFICES ASSUME IInv, [Next]_vars PROVE IInv'
  OBVIOUS
<1>1. /\ TypeOK /\ Matches(text, stmt_vars) /\ Aside(stack)
      /\ Matches(stmt.text, stmt.vars)
      /\ state \in {"statement", "reduced"} => text = << >>
  BY InvAs
<1>2. text \in Seq(Uses) /\ stmt_vars \in Seq(Lowered)
  BY <1>1 DEF TypeOK
<1>3. text = << >> => stmt_vars = << >>
  BY <1>1, <1>2, EmptyList
<1>4. CASE Start
  BY <1>1, <1>4 DEF Start, StartStatement, TypeOK, IInv, Aside
<1>5. ASSUME NEW name \in Names, Var(name) PROVE IInv'
  <2>1. /\ text' \in Seq(Uses) /\ stmt_vars' \in Seq(Lowered)
        /\ Matches(text', stmt_vars')
    BY <1>1, <1>2, <1>5, VarMatches DEF Var, Listed
  <2>2. state' = state /\ stack' = stack /\ stmt' = stmt
    BY <1>5 DEF Var
  <2>3. state \notin {"statement", "reduced"}
    BY <1>5 DEF Var
  <2> QED BY <1>1, <2>1, <2>2, <2>3 DEF IInv, TypeOK, Aside
<1>6. CASE LeafEnd
  BY <1>1, <1>2, <1>6, ReduceKeeps DEF LeafEnd
<1>7. CASE ConditionEnd
  <2> DEFINE f == [op |-> state, text |-> text, saved |-> stmt_vars]
  <2>1. f \in Frame /\ Matches(f.text, f.saved)
    BY <1>1, <1>2, <1>7 DEF ConditionEnd, Frame
  <2>2. Aside(stack')
    BY <1>1, <1>7, <2>1, AsidePush DEF ConditionEnd
  <2>3. /\ text' = << >> /\ stmt_vars' = << >>
        /\ state' = "statement" /\ stmt' = stmt
    BY <1>7 DEF ConditionEnd
  <2> QED BY <1>1, <2>2, <2>3, MatchesEmpty, EmptySeq
          DEF IInv, TypeOK, Aside, Frame
<1>8. CASE BlockStart
  <2> DEFINE f == [op |-> "block", text |-> << >>, saved |-> << >>]
  <2>1. f \in Frame /\ Matches(f.text, f.saved)
    BY MatchesEmpty, EmptySeq DEF Frame
  <2>2. Aside(stack')
    BY <1>1, <1>8, <2>1, AsidePush DEF BlockStart
  <2>3. UNCHANGED <<state, stmt_vars, text, stmt>>
    BY <1>8 DEF BlockStart
  <2> QED BY <1>1, <2>2, <2>3 DEF IInv, TypeOK, Aside, Frame
<1>9. CASE AnotherStatement
  BY <1>1, <1>9 DEF AnotherStatement, TypeOK, IInv, Aside
<1>10. CASE BlockEnd
  <2>1. Aside(stack') /\ text' = << >> /\ stmt_vars = << >>
    BY <1>1, <1>3, <1>10, AsidePop DEF BlockEnd, Inside, Pop
  <2>2. Reduce(<< >>, stmt_vars) /\ Matches(<< >>, stmt_vars)
    BY <1>10, <2>1, MatchesEmpty DEF BlockEnd
  <2>3. << >> \in Seq(Uses)
    BY EmptySeq
  <2> QED BY <1>2, <2>1, <2>2, <2>3, ReduceKeeps
<1>11. CASE Else
  <2> DEFINE f == [Top EXCEPT !.op = "else"]
  <2>1. Aside(Front(stack)) /\ Top \in Frame /\ Matches(Top.text, Top.saved)
    BY <1>1, <1>11, AsidePop DEF Else, Inside, Top
  <2>2. f \in Frame /\ f.text = Top.text /\ f.saved = Top.saved
    BY <2>1 DEF Frame
  <2>3. stack' = Append(Front(stack), f)
    BY <1>11 DEF Else
  <2>4. Aside(stack')
    <3> HIDE DEF f
    <3> QED BY <2>1, <2>2, <2>3, AsidePush
  <2>5. state = "reduced" /\ state' = "statement"
        /\ UNCHANGED <<stmt_vars, text, stmt>>
    BY <1>11 DEF Else
  <2> QED BY <1>1, <2>4, <2>5 DEF IInv, TypeOK, Aside, Frame
<1>12. CASE OuterEnd
  <2>1. /\ Aside(stack') /\ text' = << >>
        /\ Top \in Frame /\ Matches(Top.text, Top.saved)
    BY <1>1, <1>12, AsidePop DEF OuterEnd, Inside, Pop, Top
  <2>2. Top.text \in Seq(Uses) /\ Top.saved \in Seq(Lowered)
    BY <2>1 DEF Frame
  <2> QED BY <1>12, <2>1, <2>2, ReduceKeeps DEF OuterEnd
<1>13. CASE ProgramEnd
  BY <1>1, <1>13 DEF ProgramEnd, TypeOK, IInv, Aside
<1>14. CASE SyntaxError
  BY <1>1, <1>14 DEF SyntaxError, TypeOK, IInv, Aside
<1>15. CASE UNCHANGED vars
  BY <1>1, <1>15 DEF vars, TypeOK, IInv, Aside
<1> QED
  BY <1>4, <1>5, <1>6, <1>7, <1>8, <1>9, <1>10, <1>11, <1>12, <1>13, <1>14,
     <1>15 DEF Next

LEMMA Invariant == Spec => []IInv
BY InvInit, InvStep, PTL DEF Spec

----------------------------------------------------------------------------
\* stmt_vars, the texts and the statements put aside keep their types.
THEOREM TypeCorrect == Spec => []TypeOK
BY Invariant, PTL DEF IInv

\* A placeholder $k of a statement stands for the variable that was written
\* there, however many statements were read between its condition and its end.
THEOREM BoundCorrect == Spec => []Bound
<1>1. IInv => Bound
  BY DEF IInv, Matches, Fits, Bound
<1> QED BY <1>1, Invariant, PTL

\* A statement gets the variables of its own text, each once, and no other's.
THEOREM OnlyItsOwnCorrect == Spec => []OnlyItsOwn
<1>1. IInv => OnlyItsOwn
  BY DEF IInv, Matches, Covers, OnlyItsOwn
<1> QED BY <1>1, Invariant, PTL
=============================================================================
