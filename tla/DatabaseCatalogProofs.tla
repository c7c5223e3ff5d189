----------------------- MODULE DatabaseCatalogProofs -----------------------
(***************************************************************************)
(* Proofs about DatabaseCatalog: types, that the catalogue holds whole     *)
(* databases, how a session loses its database, and that the sessions      *)
(* implement DatabaseSet.                                                  *)
(***************************************************************************)
EXTENDS DatabaseCatalog, TLAPS

----------------------------------------------------------------------------
\* Objects and schemas.

Info(d) == <<d, "information_schema">>
Sys(d)  == <<d, "sys">>

LEMMA SchemaObjects ==
    ASSUME NEW x \in Schemas
    PROVE  /\ x \in Objects
           /\ x[1] \in Databases
           /\ x \in Contents[x]
           /\ Contents[x] \subseteq ObjectsOf[x[1]]
<1>1. PICK d \in Databases, k \in Kinds : x = <<d, k>>
  BY DEF Schemas
<1>2. x \in Objects /\ SchemaOf(x) = x
  BY <1>1 DEF Objects, Parts, Kinds, After, LastPart, SchemaOf
<1>3. \A o \in Objects : SchemaOf(o) = x => o[1] = d
  BY <1>1 DEF SchemaOf
<1> QED BY <1>1, <1>2, <1>3 DEF Contents, ObjectsOf

LEMMA ContentsDisjoint ==
    ASSUME NEW x \in Schemas, NEW y \in Schemas, x # y
    PROVE  Contents[x] \cap Contents[y] = {}
BY DEF Contents

LEMMA ObjectPlace ==
    ASSUME NEW o \in Objects
    PROVE  /\ o[1] \in Databases
           /\ \A d \in Databases : o \in ObjectsOf[d] <=> o[1] = d
BY DEF Objects, ObjectsOf

LEMMA ObjectsOfObjects ==
    /\ \A d \in Databases : ObjectsOf[d] \subseteq Objects
    /\ \A d, e \in Databases : d # e => ObjectsOf[d] \cap ObjectsOf[e] = {}
BY DEF ObjectsOf

LEMMA DboObject ==
    ASSUME NEW d \in Databases
    PROVE  /\ Dbo(d) \in Objects /\ Dbo(d) \in Schemas
           /\ Dbo(d) \in ObjectsOf[d]
           /\ Dbo(d)[1] = d
BY DEF Dbo, Objects, ObjectsOf, Parts, After, LastPart, Schemas, Kinds

\* The schemas of a shape of d: dbo and one more.
Pair(d, x) == {Dbo(d), x}

LEMMA ShapeFacts ==
    ASSUME NEW d \in Databases, NEW O \in Shapes[d]
    PROVE  /\ O \subseteq ObjectsOf[d]
           /\ Dbo(d) \in O
           /\ \A x \in Schemas, o \in O : o \in Contents[x] => x \in O
           /\ {o \in O : o \in Schemas} \in {Pair(d, Info(d)), Pair(d, Sys(d))}
           /\ \A P \in Shapes[d] : O \subseteq P => O = P
<1>1. O = Created[d] \/ O = Shipped[d]
  BY DEF Shapes
<1>2. /\ Created[d] = {<<d, "dbo">>, <<d, "information_schema">>, <<d, "tables">>,
                       <<d, "sysusers">>, <<d, "sysobjects">>,
                       <<d, "syscolumns">>, <<d, "sysindexes">>}
      /\ Shipped[d] = {<<d, "dbo">>, <<d, "sys">>}
  BY DEF Created, Shipped, Parts, After, LastPart
<1>3. O \subseteq ObjectsOf[d] /\ Dbo(d) \in O
  BY <1>1, <1>2 DEF ObjectsOf, Objects, Parts, After, LastPart, Dbo
<1>4. ASSUME NEW x \in Schemas, NEW o \in O, o \in Contents[x] PROVE x \in O
  <2>1. x = SchemaOf(o)
    BY <1>4 DEF Contents
  <2>2. CASE O = Created[d]
    BY <1>2, <2>1, <2>2 DEF SchemaOf
  <2>3. CASE O = Shipped[d]
    BY <1>2, <2>1, <2>3 DEF SchemaOf
  <2> QED BY <1>1, <2>2, <2>3
<1>5. {o \in O : o \in Schemas} \in {Pair(d, Info(d)), Pair(d, Sys(d))}
  <2>1. CASE O = Created[d]
    BY <1>2, <2>1 DEF Schemas, Kinds, Pair, Dbo, Info
  <2>2. CASE O = Shipped[d]
    BY <1>2, <2>2 DEF Schemas, Kinds, Pair, Dbo, Sys
  <2> QED BY <1>1, <2>1, <2>2
<1>6. \A P \in Shapes[d] : O \subseteq P => O = P
  <2>1. <<d, "tables">> \in Created[d] /\ <<d, "tables">> \notin Shipped[d]
    BY <1>2
  <2>2. <<d, "sys">> \in Shipped[d] /\ <<d, "sys">> \notin Created[d]
    BY <1>2
  <2> QED BY <1>1, <2>1, <2>2 DEF Shapes
<1> QED BY <1>3, <1>4, <1>5, <1>6

LEMMA CreatedShape ==
    ASSUME NEW d \in Databases
    PROVE  Created[d] \in Shapes[d] /\ {} \notin Shapes[d]
BY ShapeFacts DEF Shapes

\* Its two schemas share the objects of a shape between them, and what is left
\* when one is dropped is no shape.
LEMMA Halves ==
    ASSUME NEW d \in Databases, NEW O \in Shapes[d],
           NEW k \in Schemas, k \in O, NEW r \in Schemas, r \in O, k # r
    PROVE  /\ O \ Contents[r] = O \cap Contents[k]
           /\ (O \cap Contents[r]) \cup (O \cap Contents[k]) = O
<1>1. \A o \in O : o \in Contents[k] \/ o \in Contents[r]
  <2> SUFFICES ASSUME NEW o \in O PROVE o \in Contents[k] \/ o \in Contents[r]
    OBVIOUS
  <2>1. o \in Objects /\ o[1] = d
    BY ShapeFacts DEF ObjectsOf
  <2>2. SchemaOf(o) \in Schemas /\ o \in Contents[SchemaOf(o)]
    <3>1. SchemaOf(o) \in Schemas
      BY <2>1 DEF SchemaOf, Schemas, Kinds
    <3> QED BY <2>1, <3>1 DEF Contents
  <2>3. SchemaOf(o) \in O
    BY <2>2, ShapeFacts
  <2>4. PICK x : {q \in O : q \in Schemas} = Pair(d, x)
    BY ShapeFacts
  <2> QED BY <2>2, <2>3, <2>4 DEF Pair
<1>2. Contents[k] \cap Contents[r] = {}
  BY ContentsDisjoint
<1> QED BY <1>1, <1>2

LEMMA HalfIsNoShape ==
    ASSUME NEW d \in Databases, NEW O \in Shapes[d], NEW r \in Schemas, r \in O
    PROVE  /\ O \ Contents[r] \notin Shapes[d]
           /\ O \cap Contents[r] \notin Shapes[d]
<1>1. r \in Contents[r]
  BY SchemaObjects
<1>2. PICK k \in Schemas : k \in O /\ k # r
  <2>1. PICK x \in {Info(d), Sys(d)} : {q \in O : q \in Schemas} = Pair(d, x)
    BY ShapeFacts
  <2>2. x # Dbo(d)
    BY DEF Dbo, Info, Sys
  <2> QED BY <2>1, <2>2 DEF Pair
<1>3. k \notin Contents[r]
  BY <1>2, SchemaObjects, ContentsDisjoint
<1> QED BY <1>1, <1>2, <1>3, ShapeFacts

----------------------------------------------------------------------------
\* Types.

\* Where the commands of a statement are.
Facing ==
    \A s \in Sessions :
        /\ pc[s] = "use" => facing[s] = Dbo(facing[s][1])
        /\ pc[s] = "create" => facing[s][2] \in Parts
        /\ pc[s] = "drop" => facing[s] \in doomed[s]
        /\ pc[s] # "drop" => doomed[s] = {}

LEMMA NextPartObject ==
    ASSUME NEW o \in Objects, o[2] \in Parts, o[2] # LastPart
    PROVE  <<o[1], After[o[2]]>> \in Objects /\ After[o[2]] \in Parts
BY DEF Objects, Parts, After, LastPart

LEMMA RollbackType ==
    ASSUME TypeOK, NEW s \in Sessions, Rollback(s)
    PROVE  /\ own' \in [Sessions -> SUBSET Objects]
           /\ gone' \in [Sessions -> SUBSET Objects]
           /\ doomed' \in [Sessions -> SUBSET Schemas]
           /\ committed' = committed /\ facing' = facing /\ started' = started
BY DEF TypeOK, Rollback

LEMMA PgErrorType ==
    ASSUME TypeOK, NEW s \in Sessions, PgError(s)
    PROVE  TypeOK'
BY RollbackType DEF TypeOK, PgError, Goto, Places

LEMMA DropNextType ==
    ASSUME TypeOK, NEW s \in Sessions, NEW left \in SUBSET Schemas,
           DropNext(s, left)
    PROVE  /\ doomed' \in [Sessions -> SUBSET Schemas]
           /\ facing' \in [Sessions -> Objects]
           /\ pc' \in [Sessions -> Places]
<1>1. \A x \in left : x \in Objects
  BY SchemaObjects
<1> QED BY <1>1 DEF TypeOK, DropNext, Goto, Places

LEMMA FacedSchema ==
    ASSUME NEW x \in Schemas
    PROVE  Contents[x] \subseteq Objects
BY SchemaObjects, ObjectsOfObjects

LEMMA TypeInit == Init => TypeOK
<1> SUFFICES ASSUME Init PROVE TypeOK
  OBVIOUS
<1>1. committed \in SUBSET Objects
  BY DEF Init
<1>2. facing \in [Sessions -> Objects]
  BY DboObject DEF Init
<1> QED BY <1>1, <1>2 DEF Init, TypeOK, Places

LEMMA TypeStep == TypeOK /\ Facing /\ [Next]_vars => TypeOK'
<1> SUFFICES ASSUME TypeOK, Facing, [Next]_vars PROVE TypeOK'
  OBVIOUS
<1>1. ASSUME NEW s \in Sessions, NEW d \in Databases, Login(s, d) PROVE TypeOK'
  BY <1>1, RollbackType DEF TypeOK, Login, Goto, Places
<1>2. ASSUME NEW s \in Sessions, NEW d \in Databases, UseCount(s, d)
      PROVE  TypeOK'
  BY <1>2, DboObject DEF TypeOK, UseCount, Start, Goto, Places, catalogVars
<1>3. ASSUME NEW s \in Sessions, NEW d \in Databases, UseUnknown(s, d)
      PROVE  TypeOK'
  BY <1>3 DEF TypeOK, UseUnknown, Start, Goto, Places, catalogVars
<1>4. ASSUME NEW s \in Sessions, NEW d \in Databases, CreateStart(s, d)
      PROVE  TypeOK'
  BY <1>4, DboObject DEF TypeOK, CreateStart, Start, Goto, Places, catalogVars
<1>5. ASSUME NEW s \in Sessions, NEW d \in Databases, DropStart(s, d)
      PROVE  TypeOK'
  <2>1. Listed(s, d) \in SUBSET Schemas
    BY DEF Listed
  <2>2. /\ doomed' \in [Sessions -> SUBSET Schemas]
        /\ facing' \in [Sessions -> Objects]
        /\ pc' \in [Sessions -> Places]
    BY <1>5, <2>1, DropNextType DEF DropStart
  <2> QED BY <1>5, <2>2 DEF TypeOK, DropStart, Start, catalogVars
<1>6. ASSUME NEW s \in Sessions, Begin(s) PROVE TypeOK'
  BY <1>6 DEF TypeOK, Begin, Goto, Places, catalogVars, stmtVars
<1>7. ASSUME NEW s \in Sessions, PgError(s) PROVE TypeOK'
  BY <1>7, PgErrorType
<1>8. ASSUME NEW s \in Sessions, UseSwitch(s) PROVE TypeOK'
  <2>1. facing[s][1] \in Databases
    BY ObjectPlace DEF TypeOK
  <2> QED BY <1>8, <2>1 DEF TypeOK, UseSwitch, Goto, Places, catalogVars, stmtVars
<1>9. ASSUME NEW s \in Sessions, CreateCommand(s) PROVE TypeOK'
  <2>1. CASE facing[s][2] = LastPart
    BY <1>9, <2>1 DEF TypeOK, CreateCommand, Goto, Places
  <2>2. CASE facing[s][2] # LastPart
    <3>1. <<facing[s][1], After[facing[s][2]]>> \in Objects
      BY <1>9, <2>2, NextPartObject DEF TypeOK, Facing, CreateCommand
    <3> QED BY <1>9, <2>2, <3>1 DEF TypeOK, CreateCommand
  <2> QED BY <2>1, <2>2
<1>10. ASSUME NEW s \in Sessions, DropCommand(s) PROVE TypeOK'
  <2>1. doomed[s] \ {facing[s]} \in SUBSET Schemas
    BY DEF TypeOK
  <2>2. /\ doomed' \in [Sessions -> SUBSET Schemas]
        /\ facing' \in [Sessions -> Objects]
        /\ pc' \in [Sessions -> Places]
    BY <1>10, <2>1, DropNextType DEF DropCommand
  <2>3. facing[s][1] \in Databases
    BY ObjectPlace DEF TypeOK
  <2> QED BY <1>10, <2>2, <2>3 DEF TypeOK, DropCommand
<1>11. ASSUME NEW s \in Sessions, Commit(s) PROVE TypeOK'
  BY <1>11 DEF TypeOK, Commit, Visible, Goto, Places, stmtVars
<1>13. ASSUME NEW s \in Sessions, EndBatch(s) PROVE TypeOK'
  BY <1>13 DEF TypeOK, EndBatch, Goto, Places, catalogVars, stmtVars
<1>12. CASE UNCHANGED vars
  BY <1>12 DEF TypeOK, vars, catalogVars, stmtVars
<1> QED
  BY <1>1, <1>2, <1>3, <1>4, <1>5, <1>6, <1>7, <1>8, <1>9, <1>10, <1>11, <1>12,
     <1>13
  DEF Next, Progress, CreateFails, DropFails, DeadlockDetected

LEMMA FacingInit == Init => Facing
BY DEF Init, Facing

LEMMA DropNextFacing ==
    ASSUME TypeOK, Facing, NEW s \in Sessions, NEW left \in SUBSET Schemas,
           DropNext(s, left)
    PROVE  Facing'
<1>1. CASE left = {} /\ Goto(s, "run") /\ UNCHANGED facing
  BY <1>1 DEF TypeOK, Facing, DropNext, Goto
<1>2. ASSUME NEW x \in left, Goto(s, "drop"), facing' = [facing EXCEPT ![s] = x]
      PROVE  Facing'
  BY <1>2 DEF TypeOK, Facing, DropNext, Goto
<1> QED BY <1>1, <1>2 DEF DropNext

LEMMA FacingStep == TypeOK /\ Facing /\ [Next]_vars => Facing'
<1> SUFFICES ASSUME TypeOK, Facing, [Next]_vars PROVE Facing'
  OBVIOUS
<1>1. ASSUME NEW s \in Sessions, NEW d \in Databases, Login(s, d) PROVE Facing'
  BY <1>1 DEF TypeOK, Facing, Login, Rollback, Goto
<1>2. ASSUME NEW s \in Sessions, NEW d \in Databases, UseCount(s, d)
      PROVE  Facing'
  BY <1>2, DboObject DEF TypeOK, Facing, UseCount, Start, Goto
<1>3. ASSUME NEW s \in Sessions, NEW d \in Databases, UseUnknown(s, d)
      PROVE  Facing'
  BY <1>3 DEF TypeOK, Facing, UseUnknown, Start, Goto
<1>4. ASSUME NEW s \in Sessions, NEW d \in Databases, CreateStart(s, d)
      PROVE  Facing'
  BY <1>4 DEF TypeOK, Facing, CreateStart, Start, Goto, Dbo, Parts, After
<1>5. ASSUME NEW s \in Sessions, NEW d \in Databases, DropStart(s, d)
      PROVE  Facing'
  BY <1>5, DropNextFacing DEF DropStart, Listed
<1>6. ASSUME NEW s \in Sessions, Begin(s) PROVE Facing'
  BY <1>6 DEF TypeOK, Facing, Begin, Goto, stmtVars
<1>7. ASSUME NEW s \in Sessions, PgError(s) PROVE Facing'
  BY <1>7 DEF TypeOK, Facing, PgError, Rollback, Goto
<1>8. ASSUME NEW s \in Sessions, UseSwitch(s) PROVE Facing'
  BY <1>8 DEF TypeOK, Facing, UseSwitch, Goto, stmtVars
<1>9. ASSUME NEW s \in Sessions, CreateCommand(s) PROVE Facing'
  <2>1. CASE facing[s][2] = LastPart
    BY <1>9, <2>1 DEF TypeOK, Facing, CreateCommand, Goto
  <2>2. CASE facing[s][2] # LastPart
    <3>1. After[facing[s][2]] \in Parts
      BY <1>9, <2>2, NextPartObject DEF TypeOK, Facing, CreateCommand
    <3> QED BY <1>9, <2>2, <3>1 DEF TypeOK, Facing, CreateCommand
  <2> QED BY <2>1, <2>2
<1>10. ASSUME NEW s \in Sessions, DropCommand(s) PROVE Facing'
  BY <1>10, DropNextFacing DEF DropCommand, TypeOK
<1>11. ASSUME NEW s \in Sessions, Commit(s) PROVE Facing'
  BY <1>11 DEF TypeOK, Facing, Commit, Goto, stmtVars
<1>13. ASSUME NEW s \in Sessions, EndBatch(s) PROVE Facing'
  BY <1>13 DEF TypeOK, Facing, EndBatch, Goto, stmtVars
<1>12. CASE UNCHANGED vars
  BY <1>12 DEF Facing, vars, stmtVars
<1> QED
  BY <1>1, <1>2, <1>3, <1>4, <1>5, <1>6, <1>7, <1>8, <1>9, <1>10, <1>11, <1>12,
     <1>13
  DEF Next, Progress, CreateFails, DropFails, DeadlockDetected

\* Every variable keeps its type.
THEOREM TypeCorrect == Spec => []TypeOK
<1>1. Init => TypeOK /\ Facing
  BY TypeInit, FacingInit
<1>2. TypeOK /\ Facing /\ [Next]_vars => (TypeOK /\ Facing)'
  BY TypeStep, FacingStep
<1> QED BY <1>1, <1>2, PTL DEF Spec

----------------------------------------------------------------------------
\* How a session loses its database.

Held(t, d) == Exists(t, d) \/ d \in lost[t]

\* Only a new login makes a session forget what it has seen.
LEMMA HeldStep ==
    ASSUME TypeOK, Facing, NEW s \in Sessions, NEW t \in Sessions,
           NEW d \in Databases, Held(t, d),
           \/ \E e \in Databases :
                  \/ t # s /\ Login(s, e)
                  \/ UseCount(s, e)
                  \/ UseUnknown(s, e)
                  \/ CreateStart(s, e)
                  \/ DropStart(s, e)
           \/ Begin(s) \/ PgError(s) \/ UseSwitch(s) \/ EndBatch(s)
           \/ CreateCommand(s) \/ DropCommand(s) \/ Commit(s)
    PROVE  Held(t, d)'
<1> DEFINE o == Dbo(d)
<1>0. o \in Objects
  BY DboObject
<1>1. ASSUME NEW e \in Databases, t # s, Login(s, e) PROVE Held(t, d)'
  BY <1>1 DEF TypeOK, Login, Rollback, Held, Exists, Visible
<1>2. ASSUME NEW e \in Databases, UseCount(s, e) PROVE Held(t, d)'
  BY <1>2 DEF TypeOK, UseCount, Held, Exists, Visible, catalogVars
<1>3. ASSUME NEW e \in Databases,
             UseUnknown(s, e) \/ CreateStart(s, e) \/ DropStart(s, e)
      PROVE  Held(t, d)'
  BY <1>3 DEF UseUnknown, CreateStart, DropStart, Held, Exists, Visible, catalogVars
<1>4. CASE Begin(s) \/ UseSwitch(s) \/ EndBatch(s)
  BY <1>4 DEF Begin, UseSwitch, EndBatch, Held, Exists, Visible, catalogVars
<1>5. CASE PgError(s)
  <2>1. CASE t = s
    BY <1>5, <2>1, <1>0 DEF TypeOK, PgError, Rollback, Held, Exists, Visible
  <2>2. CASE t # s
    BY <1>5, <2>2 DEF TypeOK, PgError, Rollback, Held, Exists, Visible
  <2> QED BY <2>1, <2>2
<1>6. CASE CreateCommand(s)
  BY <1>6 DEF TypeOK, CreateCommand, Held, Exists, Visible
<1>7. CASE DropCommand(s)
  <2>1. /\ facing[s] \in Schemas
        /\ o \in Contents[facing[s]] => facing[s][1] = d
    <3>1. facing[s] \in Schemas
      BY <1>7 DEF TypeOK, Facing, DropCommand
    <3>2. /\ facing[s][1] \in Databases
          /\ Contents[facing[s]] \subseteq ObjectsOf[facing[s][1]]
      BY <3>1, SchemaObjects
    <3> QED BY <3>1, <3>2, DboObject, ObjectPlace
  <2>2. CASE t # s
    BY <1>7, <2>2 DEF TypeOK, DropCommand, Held, Exists, Visible
  <2>3. CASE t = s
    BY <1>7, <2>1, <2>3 DEF TypeOK, DropCommand, Held, Exists, Visible
  <2> QED BY <2>2, <2>3
<1>8. CASE Commit(s)
  <2>1. /\ committed' = Visible(s)
        /\ own'[s] = {} /\ gone'[s] = {}
        /\ t # s => own'[t] = own[t] /\ gone'[t] = gone[t]
        /\ lost'[t] = lost[t] \cup {e \in Databases : Dbo(e) \in gone[s] \ own[s]}
    BY <1>8 DEF TypeOK, Commit
  <2>2. CASE t = s
    BY <2>1, <2>2 DEF Held, Exists, Visible
  <2>3. CASE t # s
    BY <2>1, <2>3 DEF Held, Exists, Visible
  <2> QED BY <2>2, <2>3
<1> QED BY <1>1, <1>2, <1>3, <1>4, <1>5, <1>6, <1>7, <1>8

LEMMA StrandedAs ==
    StrandedOnlyByLoss <=>
        \A t \in Sessions : /\ Held(t, database[t])
                            /\ pc[t] = "use" => Held(t, facing[t][1])
BY DEF StrandedOnlyByLoss, Held

LEMMA StrandedInit == Init => StrandedOnlyByLoss
<1> SUFFICES ASSUME Init, NEW t \in Sessions
             PROVE  Held(t, database[t]) /\ pc[t] # "use"
  BY StrandedAs
<1> QED BY DEF Init, Held, Exists, Visible

LEMMA StrandedStep ==
    TypeOK /\ Facing /\ StrandedOnlyByLoss /\ [Next]_vars => StrandedOnlyByLoss'
<1> SUFFICES ASSUME TypeOK, Facing, StrandedOnlyByLoss, [Next]_vars,
                    NEW t \in Sessions
             PROVE  /\ Held(t, database[t])'
                    /\ pc'[t] = "use" => Held(t, facing[t][1])'
  BY DEF StrandedOnlyByLoss, Held
<1>0. /\ database[t] \in Databases /\ facing[t][1] \in Databases
      /\ Held(t, database[t])
      /\ pc[t] = "use" => Held(t, facing[t][1])
  BY StrandedAs, ObjectPlace DEF TypeOK
<1>1. ASSUME NEW s \in Sessions, NEW d \in Databases, Login(s, d)
      PROVE  /\ Held(t, database[t])'
             /\ pc'[t] = "use" => Held(t, facing[t][1])'
  <2>1. CASE t = s
    BY <1>1, <2>1 DEF TypeOK, Login, Rollback, Goto, Held, Exists, Visible
  <2>2. CASE t # s
    <3>1. /\ Held(t, database[t])'
          /\ pc[t] = "use" => Held(t, facing[t][1])'
      <4>1. database'[t] = database[t] /\ facing'[t] = facing[t]
        BY <1>1, <2>2 DEF TypeOK, Login, Rollback
      <4>2. \A e \in Databases : Held(t, e) => Held(t, e)'
        BY <1>1, <2>2, HeldStep
      <4> QED BY <1>0, <4>1, <4>2 DEF Held, Exists
    <3> QED BY <1>1, <2>2, <3>1 DEF TypeOK, Login, Goto
  <2> QED BY <2>1, <2>2
<1>2. ASSUME NEW s \in Sessions,
             \/ \E e \in Databases : \/ UseCount(s, e) \/ UseUnknown(s, e)
                                     \/ CreateStart(s, e) \/ DropStart(s, e)
             \/ Begin(s) \/ PgError(s) \/ UseSwitch(s) \/ EndBatch(s)
             \/ CreateCommand(s) \/ DropCommand(s) \/ Commit(s)
      PROVE  /\ Held(t, database[t])'
             /\ pc'[t] = "use" => Held(t, facing[t][1])'
  <2>1. \A e \in Databases : Held(t, e) => Held(t, e)'
    BY <1>2, HeldStep
  <2>2. /\ \/ database'[t] = database[t]
           \/ pc[t] = "use" /\ database'[t] = facing[t][1]
        /\ \/ pc'[t] # "use"
           \/ pc[t] = "use" /\ facing'[t] = facing[t]
           \/ \E e \in Databases : Held(t, e) /\ facing'[t] = Dbo(e)
    <3>1. ASSUME NEW e \in Databases, UseCount(s, e)
          PROVE  /\ database' = database
                 /\ \/ pc'[t] # "use"
                    \/ pc[t] = "use" /\ facing'[t] = facing[t]
                    \/ Held(t, e) /\ facing'[t] = Dbo(e)
      <4>1. CASE t = s
        BY <3>1, <4>1 DEF TypeOK, UseCount, Goto, Held
      <4>2. CASE t # s
        BY <3>1, <4>2 DEF TypeOK, UseCount, Goto
      <4> QED BY <3>1, <4>1, <4>2 DEF UseCount
    <3>2. ASSUME NEW e \in Databases, UseUnknown(s, e) \/ CreateStart(s, e)
          PROVE  /\ database' = database
                 /\ pc'[t] # "use" \/ (pc[t] = "use" /\ facing'[t] = facing[t])
      BY <3>2 DEF TypeOK, UseUnknown, CreateStart, Goto
    <3>3. ASSUME NEW left \in SUBSET Schemas, DropNext(s, left)
          PROVE  pc'[t] # "use" \/ (pc[t] = "use" /\ facing'[t] = facing[t])
      <4>1. CASE t = s
        BY <3>3, <4>1 DEF TypeOK, DropNext, Goto
      <4>2. CASE t # s
        BY <3>3, <4>2 DEF TypeOK, DropNext, Goto
      <4> QED BY <4>1, <4>2
    <3>4. ASSUME NEW e \in Databases, DropStart(s, e)
          PROVE  /\ database' = database
                 /\ pc'[t] # "use" \/ (pc[t] = "use" /\ facing'[t] = facing[t])
      BY <3>3, <3>4 DEF DropStart, Listed
    <3>5. CASE DropCommand(s)
      BY <3>3, <3>5 DEF DropCommand, TypeOK
    <3>6. CASE Begin(s) \/ PgError(s) \/ Commit(s) \/ EndBatch(s)
      BY <3>6 DEF TypeOK, Begin, PgError, Rollback, Commit, EndBatch, Goto, stmtVars
    <3>7. CASE UseSwitch(s)
      BY <3>7 DEF TypeOK, UseSwitch, Goto, stmtVars
    <3>8. CASE CreateCommand(s)
      BY <3>8 DEF TypeOK, CreateCommand, Goto
    <3> QED BY <1>2, <3>1, <3>2, <3>4, <3>5, <3>6, <3>7, <3>8
  <2>3. Held(t, database[t])'
    BY <1>0, <2>1, <2>2 DEF Held, Exists
  <2>4. \A e \in Databases : Dbo(e)[1] = e
    BY DboObject
  <2>5. pc'[t] = "use" => Held(t, facing[t][1])'
    BY <1>0, <2>1, <2>2, <2>4 DEF Held, Exists
  <2> QED BY <2>3, <2>5
<1>3. CASE UNCHANGED vars
  BY <1>0, <1>3 DEF Held, Exists, Visible, vars, catalogVars, stmtVars
<1> QED
  BY <1>1, <1>2, <1>3 DEF Next, Progress, CreateFails, DropFails, DeadlockDetected

\* A session is in a database that does not exist only if it had lost it.
THEOREM StrandedOnlyByLossCorrect == Spec => []StrandedOnlyByLoss
<1>1. Init => TypeOK /\ Facing /\ StrandedOnlyByLoss
  BY TypeInit, FacingInit, StrandedInit
<1>2. TypeOK /\ Facing /\ StrandedOnlyByLoss /\ [Next]_vars
      => (TypeOK /\ Facing /\ StrandedOnlyByLoss)'
  BY TypeStep, FacingStep, StrandedStep
<1> QED BY <1>1, <1>2, PTL DEF Spec
----------------------------------------------------------------------------
\* What is pending: what two sessions have done and not committed can be
\* committed in either order, and the shape of what a session has pending at
\* each database: whole, or in the middle of CREATE DATABASE or DROP DATABASE.

Composes(s, t) == /\ own[s] \cap own[t] = {}
                  /\ gone[s] \cap gone[t] = {}

Fits(s) == /\ gone[s] \subseteq committed
           /\ own[s] \cap (committed \ gone[s]) = {}

CommitsCompose ==
    \A s \in Sessions : /\ Fits(s)
                        /\ \A t \in Sessions \ {s} : Composes(s, t)

At(S, d) == ObjectsOf[d] \cap S

WholeAt(S, d) == At(S, d) \in Shapes[d] \cup {{}}

Before == [dbo |-> {},
           information_schema |-> {"dbo"},
           tables     |-> {"dbo", "information_schema"},
           sysusers   |-> {"dbo", "information_schema", "tables"},
           sysobjects |-> {"dbo", "information_schema", "tables", "sysusers"},
           syscolumns |-> {"dbo", "information_schema", "tables", "sysusers",
                           "sysobjects"},
           sysindexes |-> {"dbo", "information_schema", "tables", "sysusers",
                           "sysobjects", "syscolumns"}]

MadeBefore(o) == {<<o[1], p>> : p \in Before[o[2]]}

Steady(s, d) == At(own[s], d) \in {{}, Created[d]} /\ WholeAt(gone[s], d)

Making(s, d) ==
    /\ pc[s] = "create" /\ facing[s][1] = d /\ facing[s] # Dbo(d)
    /\ At(own[s], d) = MadeBefore(facing[s])
    /\ WholeAt(gone[s], d)

DoomedAt(s, d) == {x \in doomed[s] : x[1] = d}

\* The schema r of a database that s has made is dropped, k is listed.
HalfOwn(s, d, k, r) ==
    /\ DoomedAt(s, d) = {k} /\ k # r
    /\ r \in Created[d] /\ At(own[s], d) = Created[d] \ Contents[r]
    /\ WholeAt(gone[s], d) /\ At(committed, d) \subseteq gone[s]

\* The schema r of a committed database is dropped, k is listed.
HalfGone(s, d, k, r) ==
    /\ DoomedAt(s, d) = {k} /\ k # r
    /\ r \in At(committed, d) /\ At(own[s], d) = {}
    /\ At(gone[s], d) = At(committed, d) \cap Contents[r]

Settled(s, d) ==
    /\ Steady(s, d)
    /\ DoomedAt(s, d) \in {{}, Pair(d, Info(d)), Pair(d, Sys(d))}
    /\ (pc[s] = "create" /\ facing[s][1] = d) => facing[s] = Dbo(d)

Shape(s, d) ==
    \/ Settled(s, d)
    \/ Making(s, d)
    \/ \E k, r \in Schemas : HalfOwn(s, d, k, r) \/ HalfGone(s, d, k, r)

Shaped == \A s \in Sessions : \A d \in Databases : Shape(s, d)

Pending == CommitsCompose /\ Whole /\ Shaped

LEMMA WholeAsWholeAt ==
    ASSUME NEW S
    PROVE  WholeSet(S) <=> \A d \in Databases : WholeAt(S, d)
BY DEF WholeSet, WholeAt, At

\* What is committed is of a shape where there is any of it.
LEMMA CommittedShape ==
    ASSUME Pending, NEW d \in Databases, NEW o, o \in At(committed, d)
    PROVE  At(committed, d) \in Shapes[d]
BY WholeAsWholeAt DEF Pending, Whole, WholeAt

\* CREATE DATABASE goes through all parts.
LEMMA PartsInOrder ==
    ASSUME NEW o \in Objects, o[2] \in Parts
    PROVE  /\ o[2] = "dbo" <=> o = Dbo(o[1])
           /\ o[2] = "dbo" => MadeBefore(o) = {}
           /\ o \notin MadeBefore(o) /\ o \in Created[o[1]]
           /\ MadeBefore(o) \subseteq Created[o[1]]
           /\ o[2] # LastPart =>
                /\ <<o[1], After[o[2]]>> # Dbo(o[1])
                /\ MadeBefore(<<o[1], After[o[2]]>>) = MadeBefore(o) \cup {o}
           /\ o[2] = LastPart => MadeBefore(o) \cup {o} = Created[o[1]]
           /\ o[2] # "dbo" => Dbo(o[1]) \in MadeBefore(o)
<1>1. PICK d \in Databases, p \in Parts : o = <<d, p>>
  BY DEF Objects
<1>2. \/ p = "dbo" \/ p = "information_schema" \/ p = "tables" \/ p = "sysusers"
      \/ p = "sysobjects" \/ p = "syscolumns" \/ p = "sysindexes"
  BY DEF Parts, After, LastPart
<1>3. Created[d] = {<<d, "dbo">>, <<d, "information_schema">>, <<d, "tables">>,
                    <<d, "sysusers">>, <<d, "sysobjects">>,
                    <<d, "syscolumns">>, <<d, "sysindexes">>}
  BY DEF Created, Parts, After, LastPart
<1>4. \A q \in Parts : MadeBefore(<<d, q>>) = {<<d, r>> : r \in Before[q]}
  BY DEF MadeBefore
<1> QED BY <1>1, <1>2, <1>3, <1>4 DEF Parts, After, LastPart, Before, Dbo

\* A database that is being made is of no shape yet.
LEMMA MakingIsNoShape ==
    ASSUME NEW o \in Objects, o[2] \in Parts
    PROVE  MadeBefore(o) \notin Shapes[o[1]]
<1>1. o[1] \in Databases
  BY ObjectPlace
<1>2. /\ MadeBefore(o) \subseteq Created[o[1]]
      /\ o \notin MadeBefore(o) /\ o \in Created[o[1]]
  BY PartsInOrder
<1>3. ASSUME MadeBefore(o) \in Shapes[o[1]] PROVE FALSE
  <2>1. MadeBefore(o) = Created[o[1]]
    BY <1>1, <1>2, <1>3, ShapeFacts, CreatedShape
  <2> QED BY <1>2, <2>1
<1> QED BY <1>3

LEMMA ShapeElsewhere ==
    ASSUME NEW s \in Sessions, NEW d \in Databases, Shape(s, d),
           At(own'[s], d) = At(own[s], d), At(gone'[s], d) = At(gone[s], d),
           At(committed', d) = At(committed, d),
           DoomedAt(s, d)' = DoomedAt(s, d),
           \/ pc'[s] = pc[s] /\ facing'[s] = facing[s]
           \/ /\ pc[s] # "create" \/ facing[s][1] # d
              /\ pc'[s] # "create" \/ facing'[s][1] # d
    PROVE  Shape(s, d)'
<1>1. WholeAt(gone[s], d) => WholeAt(gone'[s], d)
  BY DEF WholeAt
<1>2. At(committed, d) \subseteq gone[s] => At(committed', d) \subseteq gone'[s]
  BY DEF At
<1>3. CASE Settled(s, d)
  BY <1>1, <1>3 DEF Shape, Settled, Steady
<1>4. CASE Making(s, d)
  BY <1>1, <1>4 DEF Shape, Making
<1>5. ASSUME NEW k \in Schemas, NEW r \in Schemas,
             HalfOwn(s, d, k, r) \/ HalfGone(s, d, k, r)
      PROVE  Shape(s, d)'
  BY <1>1, <1>2, <1>5 DEF Shape, HalfOwn, HalfGone
<1> QED BY <1>3, <1>4, <1>5 DEF Shape

LEMMA ShapeCancelled ==
    ASSUME NEW s \in Sessions, NEW d \in Databases, own'[s] = {}, gone'[s] = {},
           doomed'[s] = {}, pc'[s] # "create"
    PROVE  Shape(s, d)'
BY DEF Shape, Settled, Steady, WholeAt, At, DoomedAt

LEMMA ShapeSettled ==
    ASSUME NEW s \in Sessions, NEW d \in Databases, Facing, Shape(s, d),
           pc[s] \notin {"create", "drop"}
    PROVE  Settled(s, d)
BY DEF Shape, Facing, Making, HalfOwn, HalfGone, DoomedAt

\* Schemas are dropped whole.
LEMMA GoneBySchema ==
    ASSUME Pending, NEW t \in Sessions, NEW x \in Schemas, x \notin gone[t]
    PROVE  Contents[x] \cap gone[t] = {}
<1>1. PICK d \in Databases : d = x[1] /\ Contents[x] \subseteq ObjectsOf[d]
  BY SchemaObjects
<1>2. SUFFICES ASSUME NEW o \in At(gone[t], d), o \in Contents[x] PROVE x \in gone[t]
  BY <1>1 DEF At
<1>3. CASE WholeAt(gone[t], d)
  BY <1>2, <1>3, ShapeFacts DEF WholeAt, At
<1>4. ASSUME NEW k \in Schemas, NEW r \in Schemas, HalfGone(t, d, k, r)
      PROVE  x \in gone[t]
  <2>1. o \in Contents[r]
    BY <1>2, <1>4 DEF HalfGone
  <2>2. x = r
    BY <1>2, <2>1, ContentsDisjoint
  <2>3. r \in At(committed, d) \cap Contents[r]
    BY <1>4, SchemaObjects DEF HalfGone
  <2> QED BY <1>4, <2>2, <2>3 DEF HalfGone, At
<1> QED BY <1>3, <1>4 DEF Pending, Shaped, Shape, Settled, Steady, Making, HalfOwn
----------------------------------------------------------------------------
\* The two commands of DROP DATABASE on one database.

\* What a settled session has dropped of a database is all of it, and so is what
\* is committed of one that it has made.
LEMMA PendingGone ==
    ASSUME Pending, NEW s \in Sessions, NEW d \in Databases, Settled(s, d)
    PROVE  /\ \/ At(gone[s], d) = {}
              \/ /\ At(committed, d) \in Shapes[d]
                 /\ At(gone[s], d) = At(committed, d)
           /\ At(own[s], d) = Created[d] => At(committed, d) \subseteq gone[s]
<1>1. gone[s] \subseteq committed /\ own[s] \cap (committed \ gone[s]) = {}
  BY DEF Pending, CommitsCompose, Fits
<1>2. \/ At(gone[s], d) = {}
      \/ At(committed, d) \in Shapes[d] /\ At(gone[s], d) = At(committed, d)
  <2>1. CASE At(gone[s], d) \in Shapes[d]
    <3>1. At(gone[s], d) \subseteq At(committed, d) /\ Dbo(d) \in At(gone[s], d)
      BY <1>1, <2>1, ShapeFacts DEF At
    <3>2. At(committed, d) \in Shapes[d]
      BY <3>1, CommittedShape
    <3> QED BY <2>1, <3>1, <3>2, ShapeFacts
  <2> QED BY <2>1 DEF Settled, Steady, WholeAt
<1>3. ASSUME At(own[s], d) = Created[d] PROVE At(committed, d) \subseteq gone[s]
  <2>1. Dbo(d) \in own[s]
    BY <1>3, CreatedShape, ShapeFacts DEF At
  <2>2. CASE At(gone[s], d) = {}
    <3>1. Dbo(d) \notin At(committed, d)
      BY <1>1, <2>1, <2>2 DEF At
    <3>2. At(committed, d) \notin Shapes[d]
      BY <3>1, ShapeFacts
    <3> QED BY <3>2, CommittedShape
  <2> QED BY <1>2, <2>2 DEF At
<1> QED BY <1>2, <1>3

\* The first: what it drops is made by the session, or committed.
LEMMA DropFirst ==
    ASSUME TypeOK, Facing, Pending, NEW s \in Sessions, DropCommand(s),
           NEW d \in Databases, d = facing[s][1], Settled(s, d)
    PROVE  /\ \E k \in Schemas : k # facing[s] /\ DoomedAt(s, d)' = {k}
           /\ \/ /\ At(own[s], d) = Created[d] /\ facing[s] \in Created[d]
                 /\ At(own'[s], d) = Created[d] \ Contents[facing[s]]
                 /\ At(gone'[s], d) = At(gone[s], d)
                 /\ At(committed, d) \subseteq gone[s]
              \/ /\ At(own[s], d) = {} /\ At(own'[s], d) = {}
                 /\ At(gone[s], d) = {}
                 /\ facing[s] \in At(committed, d)
                 /\ At(gone'[s], d) = At(committed, d) \cap Contents[facing[s]]
<1> DEFINE k == facing[s]
<1>1. /\ own'[s] = own[s] \ Contents[k]
      /\ gone'[s] = gone[s] \cup (Contents[k] \cap committed)
      /\ k \in doomed[s] /\ k \in Schemas
      /\ k \in (committed \ gone[s]) \cup own[s]
  BY DEF TypeOK, Facing, DropCommand, Visible
<1>2. k \in ObjectsOf[d] /\ Contents[k] \subseteq ObjectsOf[d] /\ k \in Contents[k]
  BY <1>1, SchemaObjects
<1>3. \E j \in Schemas : j # k /\ DoomedAt(s, d)' = {j}
  <2>1. doomed'[s] = doomed[s] \ {k}
    BY DEF TypeOK, DropCommand, DropNext
  <2>2. k \in DoomedAt(s, d)
    BY <1>1 DEF DoomedAt
  <2>3. /\ Dbo(d) \in Schemas /\ Info(d) \in Schemas /\ Sys(d) \in Schemas
        /\ Dbo(d) # Info(d) /\ Dbo(d) # Sys(d)
    BY DEF Dbo, Info, Sys, Schemas, Kinds
  <2>4. DoomedAt(s, d)' = DoomedAt(s, d) \ {k}
    BY <2>1 DEF DoomedAt
  <2> HIDE DEF k
  <2>5. DoomedAt(s, d) = Pair(d, Info(d)) \/ DoomedAt(s, d) = Pair(d, Sys(d))
    BY <2>2 DEF Settled
  <2> QED BY <2>2, <2>3, <2>4, <2>5 DEF Pair
<1>6. At(gone[s], d) = {} \/ At(gone[s], d) = At(committed, d)
  BY PendingGone
<1> HIDE DEF k
<1>7. CASE At(own[s], d) = Created[d]
  <2>1. At(committed, d) \subseteq gone[s]
    BY <1>7, PendingGone
  <2>2. k \in Created[d]
    BY <1>1, <1>2, <1>7, <2>1 DEF At
  <2>3. At(own'[s], d) = Created[d] \ Contents[k]
    BY <1>1, <1>7 DEF At
  <2>4. At(gone'[s], d) = At(gone[s], d)
    BY <1>1, <1>2, <2>1 DEF At
  <2> QED BY <1>3, <1>7, <2>1, <2>2, <2>3, <2>4 DEF k
<1>8. CASE At(own[s], d) = {}
  <2>1. k \in committed \ gone[s]
    BY <1>1, <1>2, <1>8 DEF At
  <2>2. At(gone[s], d) = {} /\ k \in At(committed, d)
    BY <1>2, <1>6, <2>1 DEF At
  <2>3. /\ At(own'[s], d) = {}
        /\ At(gone'[s], d) = At(committed, d) \cap Contents[k]
    BY <1>1, <1>8, <2>2 DEF At
  <2> QED BY <1>3, <1>8, <2>2, <2>3 DEF k
<1> QED BY <1>7, <1>8 DEF Settled, Steady

\* The second drops the rest.  (A schema that is listed and not there any more
\* is not dropped: the command fails.)
LEMMA DropSecond ==
    ASSUME TypeOK, Facing, Pending, NEW s \in Sessions, DropCommand(s),
           NEW d \in Databases, d = facing[s][1],
           NEW k \in Schemas, NEW r \in Schemas,
           HalfOwn(s, d, k, r) \/ HalfGone(s, d, k, r)
    PROVE  /\ DoomedAt(s, d)' = {}
           /\ \/ /\ HalfOwn(s, d, k, r) /\ At(own'[s], d) = {}
                 /\ At(gone'[s], d) = At(gone[s], d)
              \/ /\ HalfGone(s, d, k, r) /\ At(own'[s], d) = {}
                 /\ At(committed, d) \in Shapes[d]
                 /\ At(gone'[s], d) = At(committed, d)
<1>1. /\ own'[s] = own[s] \ Contents[facing[s]]
      /\ gone'[s] = gone[s] \cup (Contents[facing[s]] \cap committed)
      /\ facing[s] \in doomed[s]
      /\ doomed'[s] = doomed[s] \ {facing[s]}
      /\ facing[s] \in (committed \ gone[s]) \cup own[s]
  BY DEF TypeOK, Facing, DropCommand, DropNext, Visible
<1>2. facing[s] = k /\ DoomedAt(s, d)' = {}
  BY <1>1 DEF DoomedAt, HalfOwn, HalfGone
<1>3. k \in ObjectsOf[d] /\ Contents[k] \subseteq ObjectsOf[d] /\ k \in Contents[k]
  BY <1>2, SchemaObjects
<1>4. CASE HalfOwn(s, d, k, r)
  <2>1. k \in Created[d] \ Contents[r]
    BY <1>1, <1>2, <1>3, <1>4 DEF HalfOwn, At
  <2>2. Created[d] \ Contents[r] = Created[d] \cap Contents[k]
    BY <1>4, <2>1, CreatedShape, Halves DEF HalfOwn
  <2>3. At(own'[s], d) = {}
    BY <1>1, <1>2, <1>4, <2>2 DEF HalfOwn, At
  <2>4. At(gone'[s], d) = At(gone[s], d)
    BY <1>1, <1>2, <1>3, <1>4 DEF HalfOwn, At
  <2> QED BY <1>2, <1>4, <2>3, <2>4
<1>5. CASE HalfGone(s, d, k, r)
  <2> DEFINE O == At(committed, d)
  <2>1. O \in Shapes[d]
    BY <1>5, CommittedShape DEF HalfGone
  <2>2. k \in O /\ r \in O /\ k # r
    BY <1>1, <1>2, <1>3, <1>5 DEF HalfGone, At
  <2>3. (O \cap Contents[r]) \cup (O \cap Contents[k]) = O
    BY <2>1, <2>2, Halves
  <2>4. At(own'[s], d) = {}
    BY <1>1, <1>5 DEF HalfGone, At
  <2>5. At(gone'[s], d) = O
    <3>1. At(gone'[s], d) = At(gone[s], d) \cup (O \cap Contents[k])
      BY <1>1, <1>2 DEF At
    <3> QED BY <1>5, <2>3, <3>1 DEF HalfGone
  <2> QED BY <1>2, <1>5, <2>1, <2>4, <2>5
<1> QED BY <1>4, <1>5

\* A session that drops is settled or half way with the database it faces.
LEMMA DropPlaces ==
    ASSUME Pending, NEW s \in Sessions, DropCommand(s), NEW d \in Databases
    PROVE  \/ Settled(s, d)
           \/ \E k, r \in Schemas : HalfOwn(s, d, k, r) \/ HalfGone(s, d, k, r)
BY DEF Pending, Shaped, Shape, Making, DropCommand
----------------------------------------------------------------------------
\* What is pending composes and keeps its shape.

Step(s) ==
    \/ \E d \in Databases :
           \/ Login(s, d)
           \/ UseCount(s, d)
           \/ UseUnknown(s, d)
           \/ CreateStart(s, d)
           \/ DropStart(s, d)
    \/ Begin(s) \/ PgError(s) \/ UseSwitch(s) \/ EndBatch(s)
    \/ CreateCommand(s) \/ DropCommand(s) \/ Commit(s)

LEMMA NextIsStep ==
    ASSUME [Next]_vars
    PROVE  (\E s \in Sessions : Step(s)) \/ UNCHANGED vars
BY DEF Next, Step, Progress, CreateFails, DropFails, DeadlockDetected

LEMMA OthersKeep ==
    ASSUME TypeOK, NEW s \in Sessions, Step(s), NEW t \in Sessions, t # s
    PROVE  /\ own'[t] = own[t] /\ gone'[t] = gone[t]
           /\ pc'[t] = pc[t] /\ facing'[t] = facing[t] /\ doomed'[t] = doomed[t]
<1>1. ASSUME NEW left \in SUBSET Schemas, DropNext(s, left)
      PROVE  /\ pc'[t] = pc[t] /\ facing'[t] = facing[t]
             /\ doomed'[t] = doomed[t]
  BY <1>1 DEF TypeOK, DropNext, Goto
<1>2. CASE \E d \in Databases : DropStart(s, d)
  BY <1>1, <1>2 DEF DropStart, Listed, catalogVars
<1>3. CASE DropCommand(s)
  BY <1>1, <1>3 DEF DropCommand, TypeOK
<1>4. CASE \E d \in Databases : Login(s, d) \/ UseCount(s, d) \/ UseUnknown(s, d)
                                \/ CreateStart(s, d)
  BY <1>4 DEF TypeOK, Login, Rollback, UseCount, UseUnknown, CreateStart, Goto,
              catalogVars, stmtVars
<1>5. CASE \/ Begin(s) \/ PgError(s) \/ UseSwitch(s) \/ EndBatch(s)
           \/ CreateCommand(s) \/ Commit(s)
  BY <1>5 DEF TypeOK, Begin, PgError, Rollback, UseSwitch, EndBatch, CreateCommand,
              Commit, Goto, catalogVars, stmtVars
<1> QED BY <1>2, <1>3, <1>4, <1>5 DEF Step

LEMMA OnlyCommitsPublish ==
    ASSUME NEW s \in Sessions, Step(s), ~Commit(s)
    PROVE  committed' = committed
BY DEF Step, Begin, UseSwitch, EndBatch, UseCount, UseUnknown, CreateStart, DropStart,
       PgError, Login, Rollback, CreateCommand, DropCommand, catalogVars

LEMMA CancelledPending ==
    ASSUME TypeOK, NEW s \in Sessions,
           PgError(s) \/ \E d \in Databases : Login(s, d)
    PROVE  /\ own'[s] = {} /\ gone'[s] = {} /\ doomed'[s] = {}
           /\ pc'[s] # "create" /\ committed' = committed
BY DEF TypeOK, PgError, Login, Rollback, Goto

\* A session that commits has whole databases pending.
LEMMA CommitSettled ==
    ASSUME TypeOK, Facing, Pending, NEW s \in Sessions, Commit(s), NEW d \in Databases
    PROVE  /\ Settled(s, d)
           /\ own'[s] = {} /\ gone'[s] = {} /\ doomed[s] = {}
           /\ committed' = (committed \ gone[s]) \cup own[s]
           /\ \/ At(gone[s], d) = {}
              \/ /\ At(committed, d) \in Shapes[d]
                 /\ At(gone[s], d) = At(committed, d)
           /\ At(own[s], d) = Created[d] => At(committed, d) \subseteq gone[s]
<1>1. Settled(s, d)
  BY ShapeSettled DEF Commit, Pending, Shaped
<1>2. /\ own'[s] = {} /\ gone'[s] = {} /\ doomed[s] = {}
      /\ committed' = (committed \ gone[s]) \cup own[s]
  BY DEF TypeOK, Commit, Visible, Facing
<1> QED BY <1>1, <1>2, PendingGone

LEMMA ComposeStep ==
    ASSUME TypeOK, Facing, Pending, NEW s \in Sessions, Step(s)
    PROVE  CommitsCompose'
<1>0. \A t \in Sessions : /\ Fits(t)
                          /\ \A u \in Sessions \ {t} : Composes(t, u)
  BY DEF Pending, CommitsCompose
<1>1. SUFFICES /\ Fits(s)'
               /\ \A t \in Sessions \ {s} : Fits(t)' /\ Composes(s, t)'
  <2>1. \A t, u \in Sessions \ {s} : t # u => Composes(t, u)'
    BY <1>0, OthersKeep DEF Composes
  <2>2. \A t \in Sessions \ {s} : Composes(s, t)' => Composes(t, s)'
    BY DEF Composes
  <2>3. \A t \in Sessions : /\ Fits(t)'
                            /\ \A u \in Sessions \ {t} : Composes(t, u)'
    BY <1>1, <2>1, <2>2
  <2> QED BY <2>3 DEF CommitsCompose, Fits, Composes
<1>2. CASE own'[s] = own[s] /\ gone'[s] = gone[s] /\ committed' = committed
  BY <1>0, <1>2, OthersKeep DEF Fits, Composes
<1>3. CASE own'[s] = {} /\ gone'[s] = {} /\ committed' = committed
  BY <1>0, <1>3, OthersKeep DEF Fits, Composes
<1>4. CASE CreateCommand(s)
  <2>1. /\ own'[s] = own[s] \cup {facing[s]}
        /\ gone'[s] = gone[s] /\ committed' = committed
    BY <1>4 DEF TypeOK, CreateCommand
  <2>2. facing[s] \notin committed \ gone[s]
    BY <1>4 DEF CreateCommand, Visible
  <2>3. \A t \in Sessions \ {s} : facing[s] \notin own[t]
    BY <1>4 DEF CreateCommand, WaitsToCreate
  <2> QED BY <1>0, <2>1, <2>2, <2>3, OthersKeep DEF Fits, Composes
<1>5. CASE DropCommand(s)
  <2>1. /\ own'[s] = own[s] \ Contents[facing[s]]
        /\ gone'[s] = gone[s] \cup (Contents[facing[s]] \cap committed)
        /\ committed' = committed
    BY <1>5 DEF TypeOK, DropCommand
  <2>2. facing[s] \in Schemas
    BY <1>5 DEF TypeOK, Facing, DropCommand
  <2>3. \A t \in Sessions \ {s} : Contents[facing[s]] \cap gone[t] = {}
    <3> SUFFICES ASSUME NEW t \in Sessions \ {s}
                 PROVE  Contents[facing[s]] \cap gone[t] = {}
      OBVIOUS
    <3>1. facing[s] \notin gone[t]
      BY <1>5 DEF DropCommand, WaitsToDrop
    <3> QED BY <2>2, <3>1, GoneBySchema
  <2> QED BY <1>0, <2>1, <2>3, OthersKeep DEF Fits, Composes
<1>6. CASE Commit(s)
  <2>1. /\ own'[s] = {} /\ gone'[s] = {}
        /\ committed' = (committed \ gone[s]) \cup own[s]
    BY <1>6 DEF TypeOK, Commit, Visible
  <2>2. ASSUME NEW t \in Sessions \ {s} PROVE Fits(t)' /\ Composes(s, t)'
    BY <1>0, <2>1, OthersKeep DEF Fits, Composes
  <2> QED BY <2>1, <2>2 DEF Fits
<1>7. CASE PgError(s) \/ \E d \in Databases : Login(s, d)
  BY <1>3, <1>7, CancelledPending
<1>8. CASE Begin(s) \/ UseSwitch(s) \/ EndBatch(s)
           \/ \E d \in Databases : UseCount(s, d) \/ UseUnknown(s, d)
                                   \/ CreateStart(s, d) \/ DropStart(s, d)
  BY <1>2, <1>8 DEF Begin, UseSwitch, EndBatch, UseCount, UseUnknown, CreateStart,
                    DropStart, catalogVars
<1> QED BY <1>4, <1>5, <1>6, <1>7, <1>8 DEF Step

LEMMA WholeStep ==
    ASSUME TypeOK, Facing, Pending, NEW s \in Sessions, Step(s)
    PROVE  Whole'
<1>1. CASE Commit(s)
  <2> SUFFICES ASSUME NEW d \in Databases PROVE WholeAt(committed', d)
    BY WholeAsWholeAt DEF Whole
  <2>1. At(committed', d) = (At(committed, d) \ At(gone[s], d)) \cup At(own[s], d)
    BY <1>1, CommitSettled DEF At
  <2>2. CASE At(own[s], d) = Created[d]
    <3>1. At(committed', d) = Created[d]
      BY <1>1, <2>1, <2>2, CommitSettled DEF At
    <3> QED BY <3>1, CreatedShape DEF WholeAt
  <2>3. CASE At(own[s], d) = {}
    <3>1. At(committed', d) = At(committed, d) \/ At(committed', d) = {}
      BY <1>1, <2>1, <2>3, CommitSettled
    <3> QED BY <3>1, WholeAsWholeAt DEF WholeAt, Pending, Whole
  <2> QED BY <1>1, <2>2, <2>3, CommitSettled DEF Settled, Steady
<1>2. CASE ~Commit(s)
  BY <1>2, OnlyCommitsPublish DEF Pending, Whole
<1> QED BY <1>1, <1>2

\* A commit does not touch a database another session is half way with.
LEMMA CommitElsewhere ==
    ASSUME TypeOK, Facing, Pending, NEW s \in Sessions, Commit(s),
           NEW t \in Sessions, t # s, NEW d \in Databases, Shape(t, d)
    PROVE  Shape(t, d)'
<1>1. /\ own'[t] = own[t] /\ gone'[t] = gone[t]
      /\ pc'[t] = pc[t] /\ facing'[t] = facing[t] /\ doomed'[t] = doomed[t]
  BY OthersKeep DEF Step
<1>2. DoomedAt(t, d)' = DoomedAt(t, d)
  BY <1>1 DEF DoomedAt
<1>3. own[t] \cap own[s] = {} /\ gone[t] \cap gone[s] = {} /\ gone[t] \subseteq committed
  BY DEF Pending, CommitsCompose, Composes, Fits
<1>4. At(committed', d) = (At(committed, d) \ At(gone[s], d)) \cup At(own[s], d)
  BY CommitSettled DEF At
<1>5. At(own[s], d) = {} \/ At(own[s], d) = Created[d]
  BY CommitSettled DEF Settled, Steady
<1>6. CASE Settled(t, d) \/ Making(t, d)
  BY <1>1, <1>2, <1>6 DEF Shape, Settled, Steady, Making
<1>7. ASSUME NEW k \in Schemas, NEW r \in Schemas, HalfOwn(t, d, k, r)
      PROVE  Shape(t, d)'
  <2>1. PICK o : o \in Created[d] \ Contents[r]
    <3>1. Created[d] \ Contents[r] # {}
      <4>1. PICK x \in {Info(d), Sys(d)} :
                {q \in Created[d] : q \in Schemas} = Pair(d, x)
        BY CreatedShape, ShapeFacts
      <4>2. PICK q \in Schemas : q \in Created[d] /\ q # r
        <5>1. x # Dbo(d)
          BY DEF Dbo, Info, Sys
        <5> QED BY <4>1, <5>1 DEF Pair
      <4>3. q \notin Contents[r]
        BY <4>2, SchemaObjects, ContentsDisjoint
      <4> QED BY <4>2, <4>3
    <3> QED BY <3>1
  <2>2. At(own[s], d) = {}
    BY <1>3, <1>5, <1>7, <2>1 DEF HalfOwn, At
  <2>3. At(committed', d) \subseteq gone[t]
    BY <1>4, <1>7, <2>2 DEF HalfOwn
  <2>4. HalfOwn(t, d, k, r)'
    BY <1>1, <1>2, <1>7, <2>3 DEF HalfOwn
  <2> QED BY <2>4 DEF Shape
<1>8. ASSUME NEW k \in Schemas, NEW r \in Schemas, HalfGone(t, d, k, r)
      PROVE  Shape(t, d)'
  <2>1. r \in gone[t] /\ r \in At(committed, d)
    <3>1. r \in At(committed, d) \cap Contents[r]
      BY <1>8, SchemaObjects DEF HalfGone
    <3> QED BY <1>8, <3>1 DEF HalfGone, At
  <2>2. At(gone[s], d) = {}
    <3>1. r \notin gone[s]
      BY <1>3, <2>1
    <3> QED BY <2>1, <3>1, CommitSettled DEF At
  <2>3. At(own[s], d) = {}
    <3>1. CASE At(own[s], d) = Created[d]
      <4>1. At(committed, d) \subseteq gone[s]
        BY <3>1, CommitSettled
      <4> QED BY <2>1, <2>2, <4>1 DEF At
    <3> QED BY <1>5, <3>1
  <2>4. At(committed', d) = At(committed, d)
    BY <1>4, <2>2, <2>3
  <2>5. HalfGone(t, d, k, r)'
    BY <1>1, <1>2, <1>8, <2>4 DEF HalfGone
  <2> QED BY <2>5 DEF Shape
<1> QED BY <1>6, <1>7, <1>8 DEF Shape

\* A CREATE DATABASE that goes on has made all parts before the one it faces.
LEMMA CreateBefore ==
    ASSUME TypeOK, Facing, Pending, NEW s \in Sessions, CreateCommand(s),
           NEW d \in Databases, d = facing[s][1]
    PROVE  /\ At(own[s], d) = MadeBefore(facing[s])
           /\ WholeAt(gone[s], d)
<1> DEFINE o == facing[s]
<1>1. pc[s] = "create" /\ doomed[s] = {} /\ o \in Objects /\ o[2] \in Parts
  BY DEF TypeOK, Facing, CreateCommand
<1>2. CASE Settled(s, d)
  <2>1. o = Dbo(d) /\ o[2] = "dbo"
    BY <1>1, <1>2, PartsInOrder DEF Settled
  <2>2. o \notin own[s]
    BY DEF CreateCommand, Visible
  <2>3. At(own[s], d) = {}
    <3>1. Dbo(d) \in Created[d]
      BY CreatedShape, ShapeFacts
    <3> QED BY <1>2, <2>1, <2>2, <3>1 DEF Settled, Steady, At
  <2> QED BY <1>1, <1>2, <2>1, <2>3, PartsInOrder DEF Settled, Steady
<1>3. CASE ~Settled(s, d)
  BY <1>1, <1>3 DEF Pending, Shaped, Shape, Making, HalfOwn, HalfGone, DoomedAt
<1> QED BY <1>2, <1>3

LEMMA CreateShape ==
    ASSUME TypeOK, Facing, Pending, NEW s \in Sessions, CreateCommand(s),
           NEW d \in Databases
    PROVE  Shape(s, d)'
<1> DEFINE o == facing[s]
<1>1. /\ pc[s] = "create" /\ doomed[s] = {} /\ o \in Objects /\ o[2] \in Parts
      /\ own'[s] = own[s] \cup {o} /\ gone'[s] = gone[s] /\ doomed'[s] = doomed[s]
      /\ committed' = committed
  BY DEF TypeOK, Facing, CreateCommand
<1>2. IF o[2] = LastPart
      THEN pc'[s] = "run" /\ facing'[s] = o
      ELSE pc'[s] = "create" /\ facing'[s] = <<o[1], After[o[2]]>>
  BY DEF TypeOK, CreateCommand, Goto
<1>0. DoomedAt(s, d)' = DoomedAt(s, d) /\ DoomedAt(s, d)' = {}
  BY <1>1 DEF DoomedAt
<1>3. CASE o[1] # d
  <2>1. o \notin ObjectsOf[d]
    BY <1>1, <1>3, ObjectPlace
  <2>2. At(own'[s], d) = At(own[s], d) /\ At(gone'[s], d) = At(gone[s], d)
    BY <1>1, <2>1 DEF At
  <2>3. At(committed', d) = At(committed, d) /\ Shape(s, d)
    BY <1>1 DEF Pending, Shaped
  <2>4. facing'[s][1] # d /\ facing[s][1] # d
    BY <1>2, <1>3
  <2> QED BY <1>0, <2>2, <2>3, <2>4, ShapeElsewhere
<1>4. CASE o[1] = d
  <2>1. /\ At(own[s], d) = MadeBefore(o)
        /\ WholeAt(gone[s], d)
    BY <1>4, CreateBefore
  <2>2. o \in ObjectsOf[d]
    BY <1>1, <1>4, ObjectPlace
  <2>3. At(own'[s], d) = MadeBefore(o) \cup {o}
    BY <1>1, <2>1, <2>2 DEF At
  <2>4. CASE o[2] = LastPart
    <3>1. At(own'[s], d) = Created[d]
      BY <1>1, <1>4, <2>3, <2>4, PartsInOrder
    <3> QED BY <1>0, <1>1, <1>2, <2>1, <2>4, <3>1 DEF Shape, Settled, Steady
  <2>5. CASE o[2] # LastPart
    <3>1. /\ facing'[s] # Dbo(d)
          /\ MadeBefore(facing'[s]) = MadeBefore(o) \cup {o}
      BY <1>1, <1>2, <1>4, <2>5, PartsInOrder
    <3>2. facing'[s][1] = d
      BY <1>2, <1>4, <2>5
    <3>3. pc'[s] = "create"
      BY <1>2, <2>5
    <3>4. WholeAt(gone'[s], d)
      BY <1>1, <2>1
    <3>5. At(own'[s], d) = MadeBefore(facing'[s])
      BY <2>3, <3>1
    <3>6. Making(s, d)'
      BY <3>1, <3>2, <3>3, <3>4, <3>5 DEF Making
    <3> QED BY <3>6 DEF Shape
  <2> QED BY <2>4, <2>5
<1> QED BY <1>3, <1>4

\* What is doomed after the next schema has been chosen.
LEMMA DropNextDoomed ==
    ASSUME TypeOK, NEW s \in Sessions, NEW left, DropNext(s, left)
    PROVE  doomed'[s] = left /\ pc'[s] # "create"
BY DEF TypeOK, DropNext, Goto

LEMMA DropShape ==
    ASSUME TypeOK, Facing, Pending, NEW s \in Sessions, DropCommand(s),
           NEW d \in Databases
    PROVE  Shape(s, d)'
<1>1. /\ doomed'[s] = doomed[s] \ {facing[s]}
      /\ pc[s] = "drop" /\ pc'[s] # "create" /\ committed' = committed
      /\ facing[s] \in Schemas /\ facing[s][1] \in Databases
      /\ Contents[facing[s]] \subseteq ObjectsOf[facing[s][1]]
  BY DropNextDoomed, SchemaObjects DEF DropCommand, TypeOK, Facing
<1>2. CASE facing[s][1] # d
  <2>1. /\ own'[s] = own[s] \ Contents[facing[s]]
        /\ gone'[s] = gone[s] \cup (Contents[facing[s]] \cap committed)
    BY DEF TypeOK, DropCommand
  <2>2. ObjectsOf[d] \cap Contents[facing[s]] = {}
    BY <1>1, <1>2, ObjectsOfObjects
  <2>3. DoomedAt(s, d)' = DoomedAt(s, d)
    BY <1>1, <1>2 DEF DoomedAt
  <2>4. At(own'[s], d) = At(own[s], d) /\ At(gone'[s], d) = At(gone[s], d)
    BY <2>1, <2>2 DEF At
  <2> QED BY <1>1, <2>3, <2>4, ShapeElsewhere DEF Pending, Shaped
<1>3. CASE facing[s][1] = d
  <2>1. PICK r \in Schemas : r = facing[s]
    BY <1>1
  <2>2. CASE Settled(s, d)
    <3>1. PICK k \in Schemas : k # r /\ DoomedAt(s, d)' = {k}
      BY <1>3, <2>1, <2>2, DropFirst
    <3>2. CASE /\ r \in Created[d]
               /\ At(own'[s], d) = Created[d] \ Contents[r]
               /\ At(gone'[s], d) = At(gone[s], d)
               /\ At(committed, d) \subseteq gone[s]
      <4>1. WholeAt(gone'[s], d) /\ At(committed', d) \subseteq gone'[s]
        BY <1>1, <2>2, <3>2 DEF WholeAt, At, Settled, Steady
      <4>2. HalfOwn(s, d, k, r)'
        BY <3>1, <3>2, <4>1 DEF HalfOwn
      <4> QED BY <4>2 DEF Shape
    <3>3. CASE /\ At(own'[s], d) = {}
               /\ r \in At(committed, d)
               /\ At(gone'[s], d) = At(committed, d) \cap Contents[r]
      <4>1. HalfGone(s, d, k, r)'
        BY <1>1, <3>1, <3>3 DEF HalfGone
      <4> QED BY <4>1 DEF Shape
    <3> QED BY <1>3, <2>1, <2>2, <3>2, <3>3, DropFirst
  <2>3. ASSUME NEW j \in Schemas, NEW q \in Schemas,
               HalfOwn(s, d, j, q) \/ HalfGone(s, d, j, q)
        PROVE  Shape(s, d)'
    <3>1. DoomedAt(s, d)' = {} /\ At(own'[s], d) = {}
      BY <1>3, <2>3, DropSecond
    <3>2. WholeAt(gone'[s], d)
      BY <1>3, <2>3, DropSecond DEF WholeAt, HalfOwn
    <3> QED BY <1>1, <3>1, <3>2 DEF Shape, Settled, Steady
  <2> QED BY <2>2, <2>3, DropPlaces
<1> QED BY <1>2, <1>3

\* What a settled session sees of a database is of a shape.
LEMMA PendingView ==
    ASSUME Pending, NEW s \in Sessions, NEW d \in Databases, Settled(s, d)
    PROVE  At(Visible(s), d) \in Shapes[d] \cup {{}}
<1>1. At(Visible(s), d) = (At(committed, d) \ At(gone[s], d)) \cup At(own[s], d)
  BY DEF Visible, At
<1>2. \/ At(gone[s], d) = {}
      \/ /\ At(committed, d) \in Shapes[d]
         /\ At(gone[s], d) = At(committed, d)
  BY PendingGone
<1>3. CASE At(own[s], d) = {}
  BY <1>1, <1>2, <1>3, WholeAsWholeAt DEF WholeAt, Pending, Whole
<1>4. CASE At(own[s], d) = Created[d]
  <2>1. At(committed, d) \subseteq gone[s]
    BY <1>4, PendingGone
  <2>2. At(Visible(s), d) = Created[d]
    BY <1>1, <1>4, <2>1 DEF At
  <2> QED BY <2>2, CreatedShape
<1> QED BY <1>3, <1>4 DEF Settled, Steady

LEMMA ShapedStep ==
    ASSUME TypeOK, Facing, Pending, NEW s \in Sessions, Step(s)
    PROVE  Shaped'
<1> SUFFICES ASSUME NEW d \in Databases PROVE Shape(s, d)'
  <2>1. ASSUME NEW t \in Sessions, t # s, NEW d \in Databases PROVE Shape(t, d)'
    <3>1. CASE Commit(s)
      BY <2>1, <3>1, CommitElsewhere DEF Pending, Shaped
    <3>2. CASE ~Commit(s)
      <4>1. committed' = committed
        BY <3>2, OnlyCommitsPublish
      <4>2. /\ own'[t] = own[t] /\ gone'[t] = gone[t] /\ pc'[t] = pc[t]
            /\ facing'[t] = facing[t] /\ doomed'[t] = doomed[t]
        BY <2>1, OthersKeep
      <4>3. DoomedAt(t, d)' = DoomedAt(t, d)
        BY <4>2 DEF DoomedAt
      <4> QED BY <4>1, <4>2, <4>3, ShapeElsewhere DEF Pending, Shaped
    <3> QED BY <3>1, <3>2
  <2> QED BY <2>1 DEF Shaped
<1>1. CASE PgError(s) \/ \E e \in Databases : Login(s, e)
  BY <1>1, CancelledPending, ShapeCancelled
<1>2. CASE Commit(s)
  <2>1. own'[s] = {} /\ gone'[s] = {} /\ pc'[s] = "idle" /\ doomed'[s] = doomed[s]
    BY <1>2 DEF TypeOK, Commit, Goto, stmtVars
  <2>2. doomed[s] = {}
    BY <1>2 DEF Commit, Facing
  <2> QED BY <2>1, <2>2, ShapeCancelled
<1>3. CASE Begin(s) \/ UseSwitch(s) \/ EndBatch(s)
           \/ \E e \in Databases : UseCount(s, e) \/ UseUnknown(s, e)
  <2>1. /\ own' = own /\ gone' = gone /\ doomed' = doomed /\ committed' = committed
        /\ pc[s] # "create" /\ pc'[s] # "create"
    BY <1>3 DEF TypeOK, Begin, UseSwitch, EndBatch, UseCount, UseUnknown, Start, Goto,
                catalogVars, stmtVars
  <2>2. DoomedAt(s, d)' = DoomedAt(s, d)
    BY <2>1 DEF DoomedAt
  <2> QED BY <2>1, <2>2, ShapeElsewhere DEF Pending, Shaped
<1>4. ASSUME NEW e \in Databases, CreateStart(s, e) PROVE Shape(s, d)'
  <2>1. /\ own' = own /\ gone' = gone /\ doomed' = doomed
        /\ pc[s] = "run" /\ facing'[s] = Dbo(e)
    BY <1>4 DEF TypeOK, CreateStart, Start, catalogVars
  <2>2. Settled(s, d)
    BY <2>1, ShapeSettled DEF Pending, Shaped
  <2>3. facing'[s][1] = d => facing'[s] = Dbo(d)
    BY <2>1, DboObject
  <2>4. DoomedAt(s, d)' = DoomedAt(s, d)
    BY <2>1 DEF DoomedAt
  <2> QED BY <2>1, <2>2, <2>3, <2>4 DEF Shape, Settled, Steady
<1>5. ASSUME NEW e \in Databases, DropStart(s, e) PROVE Shape(s, d)'
  <2>1. /\ own' = own /\ gone' = gone
        /\ pc[s] = "run" /\ pc'[s] # "create"
        /\ doomed'[s] = Listed(s, e)
    BY <1>5, DropNextDoomed DEF DropStart, Start, catalogVars
  <2>2. Settled(s, d)
    BY <2>1, ShapeSettled DEF Pending, Shaped
  <2>3. At(Visible(s), d) \in Shapes[d] \cup {{}}
    BY <2>2, PendingView
  <2>4. DoomedAt(s, d)' \in {{}, {o \in At(Visible(s), d) : o \in Schemas}}
    <3>1. DoomedAt(s, d)' = {x \in Schemas \cap Visible(s) : x[1] \in Like[e] /\ x[1] = d}
      BY <2>1 DEF DoomedAt, Listed
    <3>2. \A x \in Schemas : x[1] = d <=> x \in ObjectsOf[d]
      BY SchemaObjects, ObjectPlace
    <3>3. CASE d \in Like[e]
      BY <3>1, <3>2, <3>3 DEF At
    <3>4. CASE d \notin Like[e]
      BY <3>1, <3>4
    <3> QED BY <3>3, <3>4
  <2>5. DoomedAt(s, d)' \in {{}, Pair(d, Info(d)), Pair(d, Sys(d))}
    <3>1. PICK O \in Shapes[d] \cup {{}} : O = At(Visible(s), d)
      BY <2>3
    <3>0. DoomedAt(s, d)' \in {{}, {o \in O : o \in Schemas}}
      BY <2>4, <3>1
    <3>2. CASE O = {}
      BY <3>0, <3>2
    <3>3. CASE O \in Shapes[d]
      <4>1. {o \in O : o \in Schemas} \in {Pair(d, Info(d)), Pair(d, Sys(d))}
        BY <3>3, ShapeFacts
      <4> QED BY <3>0, <4>1
    <3> QED BY <3>2, <3>3
  <2> QED BY <2>1, <2>2, <2>5 DEF Shape, Settled, Steady
<1>6. CASE CreateCommand(s)
  BY <1>6, CreateShape
<1>7. CASE DropCommand(s)
  BY <1>7, DropShape
<1> QED BY <1>1, <1>2, <1>3, <1>4, <1>5, <1>6, <1>7 DEF Step

IInv == TypeOK /\ Facing /\ Pending

LEMMA InvInit == Init => IInv
<1> SUFFICES ASSUME Init PROVE IInv
  OBVIOUS
<1>1. Whole
  <2> SUFFICES ASSUME NEW d \in Databases PROVE WholeAt(committed, d)
    BY WholeAsWholeAt DEF Whole
  <2>1. PICK D \in SUBSET Databases, I \in SUBSET Installed :
            committed = {o \in Objects : \/ o[1] \in I /\ o \in Shipped[o[1]]
                                         \/ o[1] \in D \ I /\ o \in Created[o[1]]}
    BY DEF Init
  <2>2. /\ Created[d] \subseteq ObjectsOf[d]
        /\ d \in I => Shipped[d] \subseteq ObjectsOf[d] /\ Shipped[d] \in Shapes[d]
    <3>1. d \in I => Shipped[d] \in Shapes[d]
      BY CatalogAssumption DEF Shapes
    <3> QED BY <3>1, CreatedShape, ShapeFacts
  <2>6. \A o \in ObjectsOf[d] :
            o \in committed <=> \/ (d \in D \ I /\ o \in Created[d])
                               \/ (d \in I /\ o \in Shipped[d])
    BY <2>1 DEF ObjectsOf
  <2>3. CASE d \in I
    <3>1. At(committed, d) = Shipped[d]
      BY <2>2, <2>3, <2>6 DEF At
    <3> QED BY <2>2, <2>3, <3>1 DEF WholeAt
  <2>4. CASE d \in D \ I
    <3>1. At(committed, d) = Created[d]
      BY <2>2, <2>4, <2>6 DEF At
    <3> QED BY <3>1, CreatedShape DEF WholeAt
  <2>5. CASE d \notin D /\ d \notin I
    <3>1. At(committed, d) = {}
      BY <2>5, <2>6 DEF At
    <3> QED BY <3>1 DEF WholeAt
  <2> QED BY <2>3, <2>4, <2>5
<1>2. CommitsCompose
  BY DEF Init, CommitsCompose, Fits, Composes
<1>3. Shaped
  BY DEF Init, Shaped, Shape, Settled, Steady, WholeAt, At, DoomedAt
<1> QED BY <1>1, <1>2, <1>3, TypeInit, FacingInit DEF IInv, Pending

LEMMA InvStep == IInv /\ [Next]_vars => IInv'
<1> SUFFICES ASSUME IInv, [Next]_vars PROVE IInv'
  OBVIOUS
<1>1. CASE UNCHANGED vars
  <2>1. CommitsCompose' /\ Whole'
    BY <1>1 DEF IInv, Pending, CommitsCompose, Fits, Composes, Whole, WholeSet,
                vars, catalogVars
  <2>2. Shaped'
    <3> SUFFICES ASSUME NEW s \in Sessions, NEW d \in Databases PROVE Shape(s, d)'
      BY DEF Shaped
    <3>1. DoomedAt(s, d)' = DoomedAt(s, d)
      BY <1>1 DEF DoomedAt, vars, stmtVars
    <3> QED BY <1>1, <3>1, ShapeElsewhere
            DEF IInv, Pending, Shaped, vars, catalogVars, stmtVars
  <2> QED BY <2>1, <2>2, TypeStep, FacingStep DEF IInv, Pending
<1>2. ASSUME NEW s \in Sessions, Step(s) PROVE IInv'
  BY <1>2, TypeStep, FacingStep, ComposeStep, WholeStep, ShapedStep DEF IInv, Pending
<1> QED BY <1>1, <1>2, NextIsStep

LEMMA Invariant == Spec => []IInv
BY InvInit, InvStep, PTL DEF Spec

\* The committed catalogue holds whole databases.
THEOREM WholeCorrect == Spec => []Whole
<1>1. IInv => Whole
  BY DEF IInv, Pending
<1> QED BY <1>1, Invariant, PTL
----------------------------------------------------------------------------
\* The sessions implement DatabaseSet.

DbsOf == Present(committed)

MadeOf(t) == Present(own[t])

DroppedOf(t) == Present(gone[t])

LEMMA PresentAt ==
    ASSUME NEW S, NEW d \in Databases
    PROVE  d \in Present(S) <=> At(S, d) \in Shapes[d]
BY DEF Present, At

LEMMA SetOthers ==
    ASSUME TypeOK, NEW s \in Sessions, Step(s), NEW t \in Sessions, t # s
    PROVE  MadeOf(t)' = MadeOf(t) /\ DroppedOf(t)' = DroppedOf(t)
BY OthersKeep DEF MadeOf, DroppedOf, Present

LEMMA SetStutter ==
    ASSUME TypeOK, NEW s \in Sessions, Step(s), committed' = committed,
           MadeOf(s)' = MadeOf(s), DroppedOf(s)' = DroppedOf(s)
    PROVE  UNCHANGED Set!vars
<1>1. \A t \in Sessions : /\ MadeOf(t)' = MadeOf(t)
                          /\ DroppedOf(t)' = DroppedOf(t)
  BY SetOthers
<1>2. Present(committed)' = Present(committed)
  BY DEF Present
<1> QED BY <1>1, <1>2 DEF Set!vars, MadeOf, DroppedOf

LEMMA SetExcept ==
    ASSUME TypeOK, NEW s \in Sessions, Step(s), NEW m, NEW g,
           MadeOf(s)' = m, DroppedOf(s)' = g
    PROVE  /\ [t \in Sessions |-> MadeOf(t)]'
              = [[t \in Sessions |-> MadeOf(t)] EXCEPT ![s] = m]
           /\ [t \in Sessions |-> DroppedOf(t)]'
              = [[t \in Sessions |-> DroppedOf(t)] EXCEPT ![s] = g]
BY SetOthers

\* What other sessions have made or dropped of a database that s is half way with.
LEMMA OthersAway ==
    ASSUME IInv, NEW s \in Sessions, NEW t \in Sessions, t # s, NEW d \in Databases
    PROVE  /\ Dbo(d) \in own[s] => d \notin MadeOf(t)
           /\ At(committed, d) \subseteq gone[s] => d \notin DroppedOf(t)
           /\ (\E o \in At(committed, d) : o \in gone[s]) => d \notin DroppedOf(t)
<1>1. own[s] \cap own[t] = {} /\ gone[s] \cap gone[t] = {} /\ gone[t] \subseteq committed
  BY DEF IInv, Pending, CommitsCompose, Composes, Fits
<1>2. Dbo(d) \in own[s] => d \notin MadeOf(t)
  <2>1. d \in MadeOf(t) => Dbo(d) \in At(own[t], d)
    BY PresentAt, ShapeFacts DEF MadeOf
  <2> QED BY <1>1, <2>1 DEF At
<1>3. ASSUME d \in DroppedOf(t)
      PROVE  /\ Dbo(d) \in At(committed, d) /\ Dbo(d) \in gone[t]
             /\ At(gone[t], d) = At(committed, d)
  <2>1. At(gone[t], d) \in Shapes[d]
    BY <1>3, PresentAt DEF DroppedOf
  <2>2. At(gone[t], d) \subseteq At(committed, d) /\ Dbo(d) \in At(gone[t], d)
    BY <1>1, <2>1, ShapeFacts DEF At
  <2>3. At(committed, d) \in Shapes[d]
    BY <2>2, CommittedShape DEF IInv
  <2> QED BY <2>1, <2>2, <2>3, ShapeFacts DEF At
<1> QED BY <1>1, <1>2, <1>3 DEF At

\* A CREATE DATABASE makes nothing until its last command.
LEMMA SetCreate ==
    ASSUME IInv, NEW s \in Sessions, CreateCommand(s),
           NEW d \in Databases, d = facing[s][1]
    PROVE  [Set!Next]_Set!vars
<1> DEFINE o == facing[s]
<1>0. TypeOK /\ Facing /\ Pending /\ Step(s)
  BY DEF IInv, Step
<1>1. /\ o \in Objects /\ o[2] \in Parts /\ d \in Databases /\ o \in ObjectsOf[d]
      /\ own'[s] = own[s] \cup {o} /\ gone'[s] = gone[s]
      /\ committed' = committed
  BY <1>0, ObjectPlace DEF TypeOK, Facing, CreateCommand
<1>2. /\ At(own[s], d) = MadeBefore(o)
      /\ WholeAt(gone[s], d)
      /\ o \notin MadeBefore(o)
  BY <1>0, <1>1, CreateBefore, PartsInOrder
<1>3. \A e \in Databases \ {d} : e \in MadeOf(s)' <=> e \in MadeOf(s)
  <2>1. \A e \in Databases \ {d} : At(own'[s], e) = At(own[s], e)
    <3>1. \A e \in Databases \ {d} : o \notin ObjectsOf[e]
      BY <1>1, ObjectPlace
    <3> QED BY <1>1, <3>1 DEF At
  <2> QED BY <2>1 DEF MadeOf, Present, At
<1>4. d \notin MadeOf(s) /\ DroppedOf(s)' = DroppedOf(s)
  <2>1. d \notin MadeOf(s)
    BY <1>1, <1>2, MakingIsNoShape, PresentAt DEF MadeOf
  <2> QED BY <1>1, <2>1 DEF DroppedOf, Present
<1>9. At(own'[s], d) = MadeBefore(o) \cup {o}
  BY <1>1, <1>2 DEF At
<1>5. CASE o[2] # LastPart
  <2> DEFINE q == <<o[1], After[o[2]]>>
  <2>1. q \in Objects /\ q[1] = d /\ q[2] \in Parts
    BY <1>1, <1>5, NextPartObject
  <2>2. At(own'[s], d) = MadeBefore(q)
    BY <1>1, <1>5, <1>9, PartsInOrder
  <2> HIDE DEF q
  <2>3. d \notin MadeOf(s)'
    <3>1. At(own'[s], d) \notin Shapes[d]
      BY <2>1, <2>2, MakingIsNoShape
    <3> QED BY <3>1 DEF MadeOf, Present, At
  <2>4. MadeOf(s)' = MadeOf(s)
    BY <1>3, <1>4, <2>3 DEF MadeOf, Present
  <2> QED BY <1>0, <1>1, <1>4, <2>4, SetStutter
<1>6. CASE o[2] = LastPart
  <2>1. MadeBefore(o) \cup {o} = Created[d]
    BY <1>1, <1>6, PartsInOrder
  <2>2. MadeOf(s)' = MadeOf(s) \cup {d}
    <3>1. d \in MadeOf(s)'
      <4>1. At(own'[s], d) \in Shapes[d]
        BY <1>9, <2>1, CreatedShape
      <4> QED BY <4>1 DEF MadeOf, Present, At
    <3> QED BY <1>3, <3>1, <1>1 DEF MadeOf, Present
  <2>3. Dbo(d) \in own[s]
    <3>1. o[2] # "dbo"
      BY <1>6 DEF LastPart
    <3> QED BY <1>1, <1>2, <3>1, PartsInOrder DEF At
  <2>4. d \notin (DbsOf \ DroppedOf(s)) \cup MadeOf(s)
    <3>1. Dbo(d) \notin committed \ gone[s] /\ gone[s] \subseteq committed
      BY <1>0, <2>3 DEF Pending, CommitsCompose, Fits
    <3>2. ASSUME d \in DbsOf PROVE d \in DroppedOf(s)
      <4>1. Dbo(d) \in At(committed, d)
        BY <3>2, PresentAt, ShapeFacts DEF DbsOf
      <4>2. Dbo(d) \in At(gone[s], d)
        BY <3>1, <4>1 DEF At
      <4> QED BY <1>2, <4>2, PresentAt DEF WholeAt, DroppedOf
    <3> QED BY <1>4, <3>2
  <2>5. \A t \in Sessions \ {s} : d \notin MadeOf(t)
    BY <2>3, OthersAway
  <2>6. Set!Create(s, d)
    <3> DEFINE mm == [t \in Sessions |-> MadeOf(t)]
    <3>1. mm' = [mm EXCEPT ![s] = @ \cup {d}]
      BY <1>0, <1>4, <2>2, SetExcept
    <3>2. [t \in Sessions |-> DroppedOf(t)]' = [t \in Sessions |-> DroppedOf(t)]
      BY <1>0, <1>4, SetOthers
    <3>3. Present(committed)' = Present(committed)
      BY <1>1 DEF Present
    <3> QED BY <1>1, <2>4, <2>5, <3>1, <3>2, <3>3
            DEF Set!Create, Set!Sees, Set!Others, DbsOf, MadeOf, DroppedOf
  <2>7. \E e \in Databases : Set!Create(s, e)
    BY <1>1, <2>6
  <2> QED BY <2>7 DEF Set!Next
<1> QED BY <1>5, <1>6

\* A DROP DATABASE drops the database with the command that drops the last
\* part of what was committed, or the first of what the session made.
LEMMA SetDrop ==
    ASSUME IInv, NEW s \in Sessions, DropCommand(s),
           NEW d \in Databases, d = facing[s][1]
    PROVE  [Set!Next]_Set!vars
<1>0. TypeOK /\ Facing /\ Pending /\ Step(s)
  BY DEF IInv, Step
<1>1. /\ committed' = committed
      /\ facing[s] \in Schemas /\ Contents[facing[s]] \subseteq ObjectsOf[d]
      /\ own'[s] = own[s] \ Contents[facing[s]]
      /\ gone'[s] = gone[s] \cup (Contents[facing[s]] \cap committed)
  <2>1. facing[s] \in Schemas
    BY <1>0 DEF Facing, TypeOK, DropCommand
  <2> QED BY <1>0, <2>1, SchemaObjects DEF DropCommand, TypeOK
<1>2. \A e \in Databases \ {d} : /\ e \in MadeOf(s)' <=> e \in MadeOf(s)
                                 /\ e \in DroppedOf(s)' <=> e \in DroppedOf(s)
  <2>1. \A e \in Databases \ {d} : ObjectsOf[e] \cap Contents[facing[s]] = {}
    BY <1>1, ObjectsOfObjects
  <2>2. \A e \in Databases \ {d} : /\ At(own'[s], e) = At(own[s], e)
                                   /\ At(gone'[s], e) = At(gone[s], e)
    BY <1>1, <2>1 DEF At
  <2> QED BY <2>2 DEF MadeOf, DroppedOf, Present, At
<1>3. /\ d \in MadeOf(s) <=> At(own[s], d) \in Shapes[d]
      /\ d \in MadeOf(s)' <=> At(own'[s], d) \in Shapes[d]
      /\ d \in DroppedOf(s) <=> At(gone[s], d) \in Shapes[d]
      /\ d \in DroppedOf(s)' <=> At(gone'[s], d) \in Shapes[d]
      /\ d \in DbsOf <=> At(committed, d) \in Shapes[d]
  BY DEF MadeOf, DroppedOf, DbsOf, Present, At
\* One of the two commands changes nothing of the set of databases.
<1>6. ASSUME d \in MadeOf(s)' <=> d \in MadeOf(s),
             d \in DroppedOf(s)' <=> d \in DroppedOf(s)
      PROVE  [Set!Next]_Set!vars
  <2>1. MadeOf(s)' = MadeOf(s) /\ DroppedOf(s)' = DroppedOf(s)
    BY <1>2, <1>6 DEF MadeOf, DroppedOf, Present
  <2> QED BY <1>0, <1>1, <2>1, SetStutter
\* The other drops it.
<1>7. ASSUME d \in (DbsOf \ DroppedOf(s)) \cup MadeOf(s),
             \A t \in Sessions \ {s} : d \notin DroppedOf(t),
             d \notin MadeOf(s)',
             d \in DroppedOf(s)' <=> (d \in DroppedOf(s) \/ d \in DbsOf)
      PROVE  [Set!Next]_Set!vars
  <2>1. /\ MadeOf(s)' = MadeOf(s) \ {d}
        /\ DroppedOf(s)' = DroppedOf(s) \cup ({d} \cap DbsOf)
    BY <1>2, <1>7 DEF MadeOf, DroppedOf, Present
  <2> DEFINE mm == [t \in Sessions |-> MadeOf(t)]
             dd == [t \in Sessions |-> DroppedOf(t)]
  <2>2. mm' = [mm EXCEPT ![s] = @ \ {d}]
    BY <1>0, <2>1, SetExcept
  <2>3. dd' = [dd EXCEPT ![s] = @ \cup ({d} \cap DbsOf)]
    BY <1>0, <2>1, SetExcept
  <2>4. Present(committed)' = Present(committed)
    BY <1>1 DEF Present
  <2>5. Set!Drop(s, d)
    BY <1>7, <2>2, <2>3, <2>4
    DEF Set!Drop, Set!Sees, Set!Others, DbsOf, MadeOf, DroppedOf
  <2> QED BY <2>5 DEF Set!Next
<1>10. CASE /\ At(own[s], d) = Created[d] /\ facing[s] \in Created[d]
            /\ At(own'[s], d) = Created[d] \ Contents[facing[s]]
            /\ At(gone'[s], d) = At(gone[s], d)
            /\ At(committed, d) \subseteq gone[s]
  <2>1. d \in MadeOf(s) /\ d \notin MadeOf(s)'
    <3>1. Created[d] \in Shapes[d]
      BY CreatedShape
    <3>2. PICK r \in Schemas : r = facing[s]
      BY <1>1
    <3>3. Created[d] \ Contents[r] \notin Shapes[d]
      BY <1>10, <3>1, <3>2, HalfIsNoShape
    <3> QED BY <1>3, <1>10, <3>1, <3>2, <3>3
  <2>2. d \in DroppedOf(s)' <=> d \in DroppedOf(s)
    BY <1>3, <1>10
  <2>3. d \in DbsOf => d \in DroppedOf(s)
    <3>1. At(gone[s], d) = At(committed, d)
      BY <1>0, <1>10 DEF At, Pending, CommitsCompose, Fits
    <3> QED BY <1>3, <3>1
  <2>4. \A t \in Sessions \ {s} : d \notin DroppedOf(t)
    BY <1>10, OthersAway
  <2> QED BY <1>7, <2>1, <2>2, <2>3, <2>4
<1>11. CASE /\ At(own[s], d) = {} /\ At(own'[s], d) = {}
            /\ At(gone[s], d) = {}
            /\ facing[s] \in At(committed, d)
            /\ At(gone'[s], d) = At(committed, d) \cap Contents[facing[s]]
  <2>1. At(gone'[s], d) \notin Shapes[d]
    <3>1. PICK O \in Shapes[d] : O = At(committed, d)
      BY <1>0, <1>11, CommittedShape
    <3>2. PICK r \in Schemas : r = facing[s]
      BY <1>1
    <3>3. O \cap Contents[r] \notin Shapes[d]
      BY <1>11, <3>1, <3>2, HalfIsNoShape
    <3> QED BY <1>11, <3>1, <3>2, <3>3
  <2> QED BY <1>3, <1>6, <1>11, <2>1, CreatedShape
<1>12. ASSUME NEW k \in Schemas, NEW r \in Schemas, HalfOwn(s, d, k, r),
              At(own'[s], d) = {}, At(gone'[s], d) = At(gone[s], d)
       PROVE  [Set!Next]_Set!vars
  <2>1. At(own[s], d) \notin Shapes[d]
    <3>1. PICK O \in Shapes[d] : O = Created[d]
      BY CreatedShape
    <3>2. r \in O /\ At(own[s], d) = O \ Contents[r]
      BY <1>12, <3>1 DEF HalfOwn
    <3> QED BY <3>2, HalfIsNoShape
  <2> QED BY <1>3, <1>6, <1>12, <2>1, CreatedShape
<1>13. ASSUME NEW k \in Schemas, NEW r \in Schemas, HalfGone(s, d, k, r),
              At(own'[s], d) = {}, At(committed, d) \in Shapes[d],
              At(gone'[s], d) = At(committed, d)
       PROVE  [Set!Next]_Set!vars
  <2>1. d \notin MadeOf(s) /\ d \notin MadeOf(s)'
    BY <1>3, <1>13, CreatedShape DEF HalfGone
  <2>2. d \notin DroppedOf(s) /\ d \in DroppedOf(s)' /\ d \in DbsOf
    BY <1>3, <1>13, HalfIsNoShape DEF HalfGone
  <2>3. \A t \in Sessions \ {s} : d \notin DroppedOf(t)
    <3>1. r \in At(committed, d) \cap Contents[r]
      BY <1>13, SchemaObjects DEF HalfGone
    <3>2. r \in gone[s] /\ r \in At(committed, d)
      BY <1>13, <3>1 DEF HalfGone, At
    <3> QED BY <3>2, OthersAway
  <2> QED BY <1>7, <2>1, <2>2, <2>3
<1>14. CASE Settled(s, d)
  BY <1>0, <1>10, <1>11, <1>14, DropFirst
<1>15. ASSUME NEW k \in Schemas, NEW r \in Schemas,
              HalfOwn(s, d, k, r) \/ HalfGone(s, d, k, r)
       PROVE  [Set!Next]_Set!vars
  BY <1>0, <1>12, <1>13, <1>15, DropSecond
<1> QED BY <1>0, <1>14, <1>15, DropPlaces

LEMMA SetAbort ==
    ASSUME IInv, NEW s \in Sessions, PgError(s) \/ \E d \in Databases : Login(s, d)
    PROVE  Set!Abort(s)
<1>0. TypeOK /\ Step(s)
  BY DEF IInv, Step
<1>1. own'[s] = {} /\ gone'[s] = {} /\ committed' = committed
  BY <1>0, CancelledPending
<1>2. MadeOf(s)' = {} /\ DroppedOf(s)' = {}
  BY <1>1, CreatedShape DEF MadeOf, DroppedOf, Present
<1>3. Present(committed)' = Present(committed)
  BY <1>1 DEF Present
<1> QED BY <1>0, <1>2, <1>3, SetExcept DEF Set!Abort, MadeOf, DroppedOf

LEMMA SetCommit ==
    ASSUME IInv, NEW s \in Sessions, Commit(s)
    PROVE  Set!Commit(s)
<1>0. TypeOK /\ Facing /\ Pending /\ Step(s)
  BY DEF IInv, Step
<1>1. own'[s] = {} /\ gone'[s] = {}
  BY <1>0 DEF TypeOK, Commit
<1>2. MadeOf(s)' = {} /\ DroppedOf(s)' = {}
  BY <1>1, CreatedShape DEF MadeOf, DroppedOf, Present
<1>3. DbsOf' = (DbsOf \ DroppedOf(s)) \cup MadeOf(s)
  <2> SUFFICES ASSUME NEW d \in Databases
               PROVE  d \in DbsOf' <=> d \in (DbsOf \ DroppedOf(s)) \cup MadeOf(s)
    BY DEF DbsOf, MadeOf, Present
  <2>1. At(committed', d) = (At(committed, d) \ At(gone[s], d)) \cup At(own[s], d)
    BY <1>0, CommitSettled DEF At
  <2>2. /\ d \in MadeOf(s) <=> At(own[s], d) \in Shapes[d]
        /\ d \in DroppedOf(s) <=> At(gone[s], d) \in Shapes[d]
        /\ d \in DbsOf <=> At(committed, d) \in Shapes[d]
        /\ d \in DbsOf' <=> At(committed', d) \in Shapes[d]
    BY DEF MadeOf, DroppedOf, DbsOf, Present, At
  <2>3. CASE At(own[s], d) = Created[d]
    <3>1. At(committed', d) = Created[d]
      BY <1>0, <2>1, <2>3, CommitSettled DEF At
    <3> QED BY <2>2, <2>3, <3>1, CreatedShape
  <2>4. CASE At(own[s], d) = {}
    BY <1>0, <2>1, <2>2, <2>4, CommitSettled, CreatedShape
  <2> QED BY <1>0, <2>3, <2>4, CommitSettled DEF Settled, Steady
<1> QED BY <1>0, <1>2, <1>3, SetExcept
        DEF Set!Commit, Set!Sees, DbsOf, MadeOf, DroppedOf

LEMMA SetInit == Init => Set!Init
<1> SUFFICES ASSUME Init PROVE Set!Init
  OBVIOUS
<1>1. \A s \in Sessions : MadeOf(s) = {} /\ DroppedOf(s) = {}
  BY CreatedShape DEF Init, MadeOf, DroppedOf, Present
<1> QED BY <1>1 DEF Set!Init, Set!Nothing, MadeOf, DroppedOf, Present

LEMMA SetStep == IInv /\ [Next]_vars => [Set!Next]_Set!vars
<1> SUFFICES ASSUME IInv, [Next]_vars PROVE [Set!Next]_Set!vars
  OBVIOUS
<1>1. CASE UNCHANGED vars
  BY <1>1 DEF vars, catalogVars, Set!vars, Present
<1>2. ASSUME NEW s \in Sessions, Step(s) PROVE [Set!Next]_Set!vars
  <2>0. facing[s][1] \in Databases
    BY ObjectPlace DEF IInv, TypeOK
  <2>1. CASE Commit(s)
    BY <2>1, SetCommit DEF Set!Next
  <2>2. CASE PgError(s) \/ \E d \in Databases : Login(s, d)
    BY <2>2, SetAbort DEF Set!Next
  <2>3. CASE CreateCommand(s)
    BY <2>0, <2>3, SetCreate
  <2>4. CASE DropCommand(s)
    BY <2>0, <2>4, SetDrop
  <2>5. CASE \/ Begin(s) \/ UseSwitch(s) \/ EndBatch(s)
             \/ \E d \in Databases : \/ UseCount(s, d) \/ UseUnknown(s, d)
                                     \/ CreateStart(s, d) \/ DropStart(s, d)
    BY <2>5 DEF Begin, UseSwitch, EndBatch, UseCount, UseUnknown, CreateStart,
                DropStart, catalogVars, Set!vars, Present
  <2> QED BY <1>2, <2>1, <2>2, <2>3, <2>4, <2>5 DEF Step
<1> QED BY <1>1, <1>2, NextIsStep

\* Databases come and go whole, and for the others when the session that made or
\* dropped them commits: the seven commands of CREATE DATABASE and the loop of
\* DROP DATABASE implement DatabaseSet.
THEOREM DatabasesAtomicCorrect == Spec => DatabasesAtomic
BY SetInit, SetStep, Invariant, PTL DEF Spec, DatabasesAtomic, Set!Spec
=============================================================================
