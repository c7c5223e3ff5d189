-------------------------- MODULE TdsFramingProofs --------------------------
(***************************************************************************)
(* Theorems about TdsFraming, for any number and size of messages, packets *)
(* and bodies: readpacket implements MessageChannel.                       *)
(*                                                                         *)
(* The invariant reads the stream from the reader to the client: position  *)
(* 0 is what the reader has taken in, the others are the units on the      *)
(* wire, and the last of them is where the client is.                      *)
(***************************************************************************)
EXTENDS TdsFraming, TLAPS

\* What the invariant looks at: how much of the body follows, whether its
\* packet ends the message, which message it is and what was announced of it.
View(u) == [length |-> u.length, eom |-> u.eom,
            number |-> u.number, part |-> u.part]

\* A reader between two messages stands at the end of the last one returned.
Position(i) ==
    IF i = 0
    THEN [length |-> remaining,
          eom    |-> IF type = NoType THEN TRUE ELSE eom,
          number |-> IF type = NoType THEN Len(delivered)
                                      ELSE Len(delivered) + 1,
          part   |-> Message(type, total)]
    ELSE View(wire[i])

Seen == [i \in 0..Len(wire) |-> Position(i)]

Shorter(u, n) == [u EXCEPT !.length = @ - n]

\* A unit that is followed by the rest of its body.
Bodies ==
    \A i \in 0..Len(wire), j \in 1..Len(wire) :
        i < j /\ j - i <= Seen[i].length => Seen[j] = Shorter(Seen[i], j - i)

\* A unit at the end of a packet is followed by a header, which starts the
\* next message or adds to this one.
Headers ==
    \A i \in 0..Len(wire) : i < Len(wire) /\ Seen[i].length = 0 =>
        LET h == wire[i + 1]
        IN IF Seen[i].eom
           THEN /\ h.number = Seen[i].number + 1
                /\ h.part = Message(h.type, h.length)
           ELSE /\ h.number = Seen[i].number
                /\ h.part = Message(Seen[i].part.type,
                                    Seen[i].part.size + h.length)

\* A message that ends on the wire is one the client has sent.
IsAt(s, n, message) == n \in 1..Len(s) /\ s[n] = message

Endings ==
    \A i \in 1..Len(wire) : wire[i].length = 0 /\ wire[i].eom =>
                                IsAt(sent, wire[i].number, wire[i].part)

\* The stream goes on where the client is.
Back ==
    LET last == Seen[Len(wire)]
    IN /\ last.length = owed
       /\ IF packets = 0
          THEN last.eom /\ last.number = Len(sent)
          ELSE /\ last.eom = ceom
               /\ last.number = Current /\ last.part = cpart

Stream == Bodies /\ Headers /\ Endings /\ Back

Reading == pc \in {"header", "body", "return"}

\* Where the client is.
Sending ==
    /\ packets = 0 => owed = 0
    /\ packets # 0 => cpart \in AllMessages /\ (owed = 0 => ~ceom)
    /\ hungup = "between" => owed = 0
    /\ hungup = "inside" => owed # 0

\* Where the reader is.
Receiving ==
    /\ pc \in {"header", "return"} => remaining = 0
    /\ pc = "header" => IF type = NoType THEN total = 0 ELSE ~eom
    /\ pc = "body" => remaining # 0 /\ type # NoType
    /\ pc = "return" => type # NoType /\ eom
                        /\ IsAt(sent, Len(delivered) + 1, Message(type, total))
    /\ pc = "spin" => hungup = "inside" /\ delivered = sent

\* What was returned was sent, in this order.
Prefix ==
    /\ Len(delivered) <= Len(sent)
    /\ \A n \in 1..Len(delivered) : delivered[n] = sent[n]

\* The inductive invariant.
IInv == /\ TypeOK /\ Sending /\ Receiving /\ Prefix
        /\ Reading => Stream

----------------------------------------------------------------------------
\* What the positions of the stream hold.
Positions == [length : 0..MaxBody, eom : BOOLEAN, number : Nat,
              part : [type : AnyType \cup {NoType}, size : Nat]]

LEMMA SeenType ==
    ASSUME TypeOK, NEW i \in 0..Len(wire)
    PROVE  Seen[i] \in Positions
<1> USE DEF Seen, Position, Positions, View
<1>1. CASE i = 0
  <2>1. Len(delivered) \in Nat
    BY DEF TypeOK
  <2>2. Seen[i] = Position(0)
    BY <1>1
  <2>3. (IF type = NoType THEN TRUE ELSE eom) \in BOOLEAN
    BY DEF TypeOK
  <2>4. (IF type = NoType THEN Len(delivered) ELSE Len(delivered) + 1) \in Nat
    BY <2>1
  <2>5. Message(type, total) \in [type : AnyType \cup {NoType}, size : Nat]
    BY DEF TypeOK, Message
  <2>6. remaining \in 0..MaxBody
    BY DEF TypeOK
  <2> QED BY <2>2, <2>3, <2>4, <2>5, <2>6
<1>2. CASE i # 0
  <2>1. wire[i] \in Units
    BY <1>2 DEF TypeOK
  <2> QED BY <1>2, <2>1 DEF Units, AllMessages
<1> QED BY <1>1, <1>2

LEMMA ShorterTwice ==
    ASSUME NEW u \in Positions, NEW n \in Nat, NEW i \in Nat, i <= n
    PROVE  Shorter(Shorter(u, n - i), 1) = Shorter(u, (n + 1) - i)
<1>1. ASSUME NEW k \in Nat
      PROVE  Shorter(Shorter(u, k), 1) = Shorter(u, k + 1)
  <2>1. u.length - k - 1 = u.length - (k + 1)
    BY DEF Positions
  <2> QED BY <2>1 DEF Positions, Shorter
<1>2. n - i \in Nat /\ (n - i) + 1 = (n + 1) - i
  OBVIOUS
<1> QED BY <1>1, <1>2

LEMMA InitIInv == Init => IInv
<1> SUFFICES ASSUME Init PROVE IInv
  OBVIOUS
<1> USE DEF Init
<1>1. TypeOK
  <2>1. wire \in Seq(Units) /\ sent \in Seq(AllMessages)
        /\ delivered \in Seq(AllMessages)
    OBVIOUS
  <2>2. owed \in 0..MaxBody /\ remaining \in 0..MaxBody
    BY FramingAssumption
  <2> QED BY <2>1, <2>2 DEF TypeOK
<1>2. Sending /\ Receiving /\ Prefix
  BY DEF Sending, Receiving, Prefix
<1>3. /\ Len(wire) = 0 /\ Seen[0].length = 0 /\ Seen[0].eom
      /\ Seen[0].number = 0
  <2>1. Len(wire) = 0 /\ Len(delivered) = 0 /\ 0 \in 0..Len(wire)
    OBVIOUS
  <2>2. Seen[0] = Position(0)
    BY <2>1 DEF Seen
  <2> QED BY <2>1, <2>2 DEF Position
<1>4. Stream
  BY <1>3 DEF Stream, Bodies, Headers, Endings, Back
<1> QED BY <1>1, <1>2, <1>4 DEF IInv

----------------------------------------------------------------------------
\* The reader takes k units off the wire and stands where the last of them
\* was: nothing else changes in the stream.
LEMMA Shift ==
    ASSUME TypeOK, Stream, NEW k \in 1..Len(wire),
           wire' = SubSeq(wire, k + 1, Len(wire)),
           Seen'[0] = Seen[k], UNCHANGED senderVars
    PROVE  Stream'
<1> DEFINE n == Len(wire)
<1>1. /\ n \in Nat /\ k \in Nat \ {0} /\ k <= n
      /\ wire' \in Seq(Units) /\ Len(wire') = n - k
      /\ \A i \in 1..(n - k) : wire'[i] = wire[i + k]
  BY DEF TypeOK
<1>2. ASSUME NEW i \in 0..(n - k)
      PROVE  Seen'[i] = Seen[i + k]
  <2>1. CASE i = 0
    BY <1>1, <2>1
  <2>2. CASE i # 0
    BY <1>1, <2>2 DEF Seen, Position, View
  <2> QED BY <2>1, <2>2
<1>3. Bodies'
  <2> SUFFICES ASSUME NEW i \in 0..(n - k), NEW j \in 1..(n - k),
                      i < j, j - i <= Seen'[i].length
               PROVE  Seen'[j] = Shorter(Seen'[i], j - i)
    BY <1>1 DEF Bodies, Shorter
  <2>1. /\ i + k \in 0..n /\ j + k \in 1..n /\ i + k < j + k
        /\ (j + k) - (i + k) = j - i
    BY <1>1
  <2>2. Seen'[i] = Seen[i + k] /\ Seen'[j] = Seen[j + k]
    BY <1>1, <1>2
  <2> QED BY <2>1, <2>2 DEF Stream, Bodies
<1>4. Headers'
  <2> SUFFICES ASSUME NEW i \in 0..(n - k), i < n - k, Seen'[i].length = 0
               PROVE  LET h == wire'[i + 1]
                      IN IF Seen'[i].eom
                         THEN /\ h.number = Seen'[i].number + 1
                              /\ h.part = Message(h.type, h.length)
                         ELSE /\ h.number = Seen'[i].number
                              /\ h.part = Message(Seen'[i].part.type,
                                              Seen'[i].part.size + h.length)
    BY <1>1 DEF Headers, Message
  <2>1. /\ i + k \in 0..n /\ i + k < n
        /\ i + 1 \in 1..(n - k) /\ (i + 1) + k = (i + k) + 1
    BY <1>1
  <2>2. wire'[i + 1] = wire[(i + k) + 1] /\ Seen'[i] = Seen[i + k]
    BY <1>1, <1>2, <2>1
  <2> QED BY <2>1, <2>2 DEF Stream, Headers, Message
<1>5. Endings'
  <2>1. ASSUME NEW i \in 1..(n - k)
        PROVE  i + k \in 1..n /\ wire'[i] = wire[i + k]
    BY <1>1
  <2> QED BY <1>1, <2>1 DEF Stream, Endings, IsAt, senderVars
<1>6. Back'
  <2>1. Seen'[n - k] = Seen[n]
    BY <1>1, <1>2
  <2> QED BY <1>1, <2>1 DEF Stream, Back, Current, senderVars
<1> QED BY <1>3, <1>4, <1>5, <1>6 DEF Stream

----------------------------------------------------------------------------
\* The client adds a unit: the other positions stay as they are.
LEMMA AppendSeen ==
    ASSUME TypeOK, NEW u \in Units, wire' = Append(wire, u),
           UNCHANGED readerVars
    PROVE  /\ Len(wire') = Len(wire) + 1 /\ wire' \in Seq(Units)
           /\ \A i \in 1..Len(wire) : wire'[i] = wire[i]
           /\ wire'[Len(wire) + 1] = u
           /\ \A i \in 0..Len(wire) : Seen'[i] = Seen[i]
           /\ Seen'[Len(wire) + 1] = View(u)
<1>1. /\ Len(wire) \in Nat
      /\ Len(wire') = Len(wire) + 1 /\ wire' \in Seq(Units)
      /\ \A i \in 1..Len(wire) : wire'[i] = wire[i]
      /\ wire'[Len(wire) + 1] = u
  BY DEF TypeOK
<1>2. ASSUME NEW i \in 0..Len(wire)
      PROVE  Seen'[i] = Seen[i]
  <2>1. Seen'[i] = Position(i)' /\ Seen[i] = Position(i)
    BY <1>1 DEF Seen
  <2>2. Position(i)' = Position(i)
    BY <1>1 DEF Position, readerVars
  <2> QED BY <2>1, <2>2
<1>3. Seen'[Len(wire) + 1] = View(u)
  BY <1>1 DEF Seen, Position, View
<1> QED BY <1>1, <1>2, <1>3

\* The stream goes on when the unit follows the last position.
Follows(u, last) ==
    IF last.length # 0 THEN View(u) = Shorter(last, 1)
    ELSE IF last.eom THEN /\ u.number = last.number + 1
                          /\ u.part = Message(u.type, u.length)
    ELSE /\ u.number = last.number
         /\ u.part = Message(last.part.type, last.part.size + u.length)

LEMMA Extend ==
    ASSUME TypeOK, Stream, NEW u \in Units, wire' = Append(wire, u),
           UNCHANGED readerVars, Follows(u, Seen[Len(wire)]), Back',
           \A n \in 1..Len(sent) : n \in 1..Len(sent') /\ sent'[n] = sent[n],
           u.length = 0 /\ u.eom => IsAt(sent', u.number, u.part)
    PROVE  Stream'
<1> DEFINE n == Len(wire)
<1>1. /\ n \in Nat /\ Len(wire') = n + 1
      /\ \A i \in 1..n : wire'[i] = wire[i]
      /\ wire'[n + 1] = u
      /\ \A i \in 0..n : Seen'[i] = Seen[i]
      /\ Seen'[n + 1] = View(u)
  <2>1. n \in Nat
    BY DEF TypeOK
  <2> QED BY <2>1, AppendSeen
<1>2. \A i \in 0..n : Seen[i] \in Positions
  BY SeenType
<1>3. Bodies'
  <2> SUFFICES ASSUME NEW i \in 0..(n + 1), NEW j \in 1..(n + 1),
                      i < j, j - i <= Seen'[i].length
               PROVE  Seen'[j] = Shorter(Seen'[i], j - i)
    BY <1>1 DEF Bodies, Shorter
  <2>1. i \in 0..n /\ Seen'[i] = Seen[i]
    BY <1>1
  <2>2. CASE j # n + 1
    <3>1. j \in 1..n /\ Seen'[j] = Seen[j]
      BY <1>1, <2>2
    <3> QED BY <2>1, <3>1 DEF Stream, Bodies
  <2>3. CASE j = n + 1 /\ i = n
    BY <1>1, <1>2, <2>1, <2>3 DEF Follows
  <2>4. CASE j = n + 1 /\ i # n
    <3>1. n \in 1..n /\ i < n /\ n - i <= Seen[i].length
      BY <1>1, <1>2, <2>1, <2>4 DEF Positions
    <3>2. Seen[n] = Shorter(Seen[i], n - i)
      BY <2>1, <3>1 DEF Stream, Bodies
    <3>3. Seen[n].length = Seen[i].length - (n - i) /\ Seen[n].length # 0
      BY <1>1, <1>2, <2>1, <2>4, <3>2 DEF Positions, Shorter
    <3>4. View(u) = Shorter(Seen[n], 1)
      BY <3>3 DEF Follows
    <3>5. Shorter(Seen[n], 1) = Shorter(Seen[i], (n + 1) - i)
      <4>1. n \in Nat /\ i \in Nat /\ i <= n
        BY <1>1, <2>1
      <4>2. Seen[i] \in Positions
        BY <1>2, <2>1
      <4> QED BY <3>2, <4>1, <4>2, ShorterTwice
    <3> QED BY <1>1, <2>1, <2>4, <3>4, <3>5
  <2> QED BY <2>2, <2>3, <2>4
<1>4. Headers'
  <2> SUFFICES ASSUME NEW i \in 0..(n + 1), i < n + 1, Seen'[i].length = 0
               PROVE  LET h == wire'[i + 1]
                      IN IF Seen'[i].eom
                         THEN /\ h.number = Seen'[i].number + 1
                              /\ h.part = Message(h.type, h.length)
                         ELSE /\ h.number = Seen'[i].number
                              /\ h.part = Message(Seen'[i].part.type,
                                              Seen'[i].part.size + h.length)
    BY <1>1 DEF Headers, Message
  <2>1. i \in 0..n /\ Seen'[i] = Seen[i]
    BY <1>1
  <2>2. CASE i = n
    BY <1>1, <2>1, <2>2 DEF Follows
  <2>3. CASE i # n
    <3>1. i < n /\ wire'[i + 1] = wire[i + 1]
      BY <1>1, <2>1, <2>3
    <3> QED BY <2>1, <3>1 DEF Stream, Headers, Message
  <2> QED BY <2>2, <2>3
<1>5. Endings'
  <2> SUFFICES ASSUME NEW i \in 1..(n + 1),
                      wire'[i].length = 0, wire'[i].eom
               PROVE  IsAt(sent', wire'[i].number, wire'[i].part)
    BY <1>1 DEF Endings
  <2>1. CASE i = n + 1
    BY <1>1, <2>1
  <2>2. CASE i # n + 1
    <3>1. i \in 1..n /\ wire'[i] = wire[i]
      BY <1>1, <2>2
    <3>2. IsAt(sent, wire[i].number, wire[i].part)
      BY <3>1 DEF Stream, Endings
    <3> QED BY <3>1, <3>2 DEF IsAt
  <2> QED BY <2>1, <2>2
<1> QED BY <1>3, <1>4, <1>5 DEF Stream

----------------------------------------------------------------------------
\* What the client has sent so far is not taken back.
Grows == \A n \in 1..Len(sent) : n \in 1..Len(sent') /\ sent'[n] = sent[n]

\* What the end of a unit does to the client's state.
LEMMA Accounts ==
    ASSUME TypeOK, hungup = "no", hungup' = hungup,
           NEW part \in AllMessages, NEW count \in Nat \ {0},
           NEW last \in BOOLEAN, NEW left \in 0..MaxBody,
           Account(part, count, last, left), owed' = left
    PROVE  /\ packets' \in Nat /\ cpart' \in AllMessages \cup {NoMessage}
           /\ ceom' \in BOOLEAN /\ sent' \in Seq(AllMessages)
           /\ Sending' /\ Grows /\ Len(sent) <= Len(sent')
           /\ last /\ left = 0 => IsAt(sent', Current, part)
           /\ IF packets' = 0
              THEN last /\ Len(sent') = Len(sent) + 1
              ELSE ceom' = last /\ cpart' = part /\ sent' = sent
<1>1. Len(sent) \in Nat /\ MaxBody \in Nat
  BY FramingAssumption DEF TypeOK
<1>2. CASE last /\ left = 0
  <2>1. /\ sent' = Append(sent, part)
        /\ packets' = 0 /\ cpart' = NoMessage /\ ceom' = FALSE
    BY <1>2 DEF Account
  <2>2. /\ sent' \in Seq(AllMessages) /\ Len(sent') = Len(sent) + 1
        /\ sent'[Len(sent) + 1] = part
        /\ \A n \in 1..Len(sent) : sent'[n] = sent[n]
    BY <2>1 DEF TypeOK
  <2>3. Grows /\ IsAt(sent', Current, part)
    BY <1>1, <2>2 DEF Grows, IsAt, Current
  <2>4. Sending'
    BY <1>2, <2>1 DEF Sending
  <2>5. Len(sent) <= Len(sent') /\ packets' \in Nat
    BY <1>1, <2>1, <2>2
  <2>6. cpart' \in AllMessages \cup {NoMessage} /\ ceom' \in BOOLEAN
    BY <2>1, Zenon
  <2> QED BY <1>2, <2>1, <2>2, <2>3, <2>4, <2>5, <2>6
<1>3. CASE ~(last /\ left = 0)
  <2>1. /\ packets' = count /\ cpart' = part /\ ceom' = last /\ sent' = sent
    BY <1>3 DEF Account
  <2> QED BY <1>1, <1>3, <2>1 DEF Sending, Grows, TypeOK
<1> QED BY <1>2, <1>3

\* A unit that follows the stream leaves the client at its end.
LEMMA ClientAdds ==
    ASSUME TypeOK, hungup = "no", hungup' = hungup, UNCHANGED readerVars,
           NEW kind \in {"header", "body"}, NEW t \in AnyType,
           NEW part \in AllMessages, NEW count \in Nat \ {0},
           NEW last \in BOOLEAN, NEW left \in 0..MaxBody,
           Account(part, count, last, left), owed' = left,
           wire' = Append(wire, Unit(kind, t, left, last, Current, part)),
           Reading => /\ Stream
                      /\ Follows(Unit(kind, t, left, last, Current, part),
                                 Seen[Len(wire)])
    PROVE  TypeOK' /\ Sending' /\ Grows /\ Len(sent) <= Len(sent')
           /\ (Reading' => Stream')
<1> DEFINE u == Unit(kind, t, left, last, Current, part)
<1>1. Len(sent) \in Nat /\ Current \in Nat /\ Current = Len(sent) + 1
  BY DEF TypeOK, Current
<1>2. u \in Units
  BY <1>1 DEF Unit, Units
<1>3. /\ u.length = left /\ u.eom = last /\ u.number = Current
      /\ u.part = part
  BY DEF Unit
<1> HIDE DEF u
<1>4. wire' = Append(wire, u)
  BY DEF u
<1>5. /\ packets' \in Nat /\ cpart' \in AllMessages \cup {NoMessage}
      /\ ceom' \in BOOLEAN /\ sent' \in Seq(AllMessages)
      /\ Sending' /\ Grows /\ Len(sent) <= Len(sent')
      /\ last /\ left = 0 => IsAt(sent', Current, part)
      /\ IF packets' = 0
         THEN last /\ Len(sent') = Len(sent) + 1
         ELSE ceom' = last /\ cpart' = part /\ sent' = sent
  BY Accounts
<1>6. /\ Len(wire') = Len(wire) + 1 /\ wire' \in Seq(Units)
      /\ Seen'[Len(wire) + 1] = View(u)
  BY <1>2, <1>4, AppendSeen
<1>7. TypeOK'
  BY <1>5, <1>6 DEF TypeOK, readerVars
<1>8. Back'
  <2>1. /\ Seen'[Len(wire')].length = owed'
        /\ Seen'[Len(wire')].eom = last
        /\ Seen'[Len(wire')].number = Current
        /\ Seen'[Len(wire')].part = part
    BY <1>3, <1>6 DEF View
  <2>2. CASE packets' = 0
    BY <1>1, <1>5, <2>1, <2>2 DEF Back
  <2>3. CASE packets' # 0
    <3>1. Current' = Current
      BY <1>5, <2>3 DEF Current
    <3> QED BY <1>5, <2>1, <2>3, <3>1 DEF Back
  <2> QED BY <2>2, <2>3
<1>9. ASSUME Reading' PROVE Stream'
  <2>1. Reading
    BY <1>9 DEF Reading, readerVars
  <2>2. Stream /\ Follows(u, Seen[Len(wire)])
    BY <2>1 DEF u
  <2>3. u.length = 0 /\ u.eom => IsAt(sent', u.number, u.part)
    BY <1>3, <1>5
  <2> QED BY <1>2, <1>4, <1>5, <1>8, <2>2, <2>3, Extend DEF Grows
<1> QED BY <1>5, <1>7, <1>9

LEMMA ClientHeaderStep ==
    ASSUME TypeOK, Sending, Reading => Stream,
           NEW t \in AnyType, NEW length \in 0..MaxBody, NEW last \in BOOLEAN,
           ClientHeader(t, length, last)
    PROVE  TypeOK' /\ Sending' /\ Grows /\ Len(sent) <= Len(sent')
           /\ (Reading' => Stream')
<1> DEFINE part == IF packets = 0 THEN Message(t, length)
                   ELSE Message(cpart.type, cpart.size + length)
           u == Unit("header", t, length, last, Current, part)
<1>1. /\ hungup = "no" /\ hungup' = hungup /\ owed = 0 /\ owed' = length
      /\ wire' = Append(wire, u)
      /\ Account(part, packets + 1, last, length) /\ UNCHANGED readerVars
  BY DEF ClientHeader
<1>2. part \in AllMessages /\ packets + 1 \in Nat \ {0}
  <2>1. packets \in Nat /\ length \in Nat
    BY FramingAssumption DEF TypeOK
  <2>2. CASE packets = 0
    BY <2>1, <2>2 DEF Message, AllMessages
  <2>3. CASE packets # 0
    BY <2>1, <2>3 DEF Sending, Message, AllMessages
  <2> QED BY <2>1, <2>2, <2>3
<1>3. ASSUME Reading PROVE Stream /\ Follows(u, Seen[Len(wire)])
  <2>1. Back /\ Stream
    BY <1>3 DEF Stream
  <2>2. Seen[Len(wire)].length = 0
    BY <1>1, <2>1 DEF Back
  <2>3. /\ u.number = Len(sent) + 1 /\ u.part = part
        /\ u.type = t /\ u.length = length
    BY DEF Unit, Current
  <2>4. CASE packets = 0
    BY <2>1, <2>2, <2>3, <2>4 DEF Back, Follows
  <2>5. CASE packets # 0
    <3>1. /\ ~Seen[Len(wire)].eom /\ Seen[Len(wire)].part = cpart
          /\ Seen[Len(wire)].number = Len(sent) + 1
      BY <1>1, <2>1, <2>5 DEF Back, Sending, Current
    <3> QED BY <2>1, <2>2, <2>3, <2>5, <3>1 DEF Follows
  <2> QED BY <2>4, <2>5
<1> HIDE DEF part
<1> QED BY <1>1, <1>2, <1>3, ClientAdds

LEMMA ClientByteStep ==
    ASSUME TypeOK, Sending, Reading => Stream, ClientByte
    PROVE  TypeOK' /\ Sending' /\ Grows /\ Len(sent) <= Len(sent')
           /\ (Reading' => Stream')
<1> DEFINE u == Unit("body", cpart.type, owed - 1, ceom, Current, cpart)
<1>1. /\ hungup = "no" /\ hungup' = hungup /\ owed # 0 /\ owed' = owed - 1
      /\ wire' = Append(wire, u)
      /\ Account(cpart, packets, ceom, owed - 1) /\ UNCHANGED readerVars
  BY DEF ClientByte, TypeOK
<1>2. /\ cpart \in AllMessages /\ packets \in Nat \ {0}
      /\ cpart.type \in AnyType /\ ceom \in BOOLEAN
      /\ owed - 1 \in 0..MaxBody
  BY <1>1, FramingAssumption DEF TypeOK, Sending, AllMessages
<1>3. ASSUME Reading PROVE Stream /\ Follows(u, Seen[Len(wire)])
  <2>1. Back /\ Stream
    BY <1>3 DEF Stream
  <2>2. Seen[Len(wire)] \in Positions
    <3>1. Len(wire) \in 0..Len(wire)
      BY DEF TypeOK
    <3> QED BY <3>1, SeenType
  <2>3. /\ Seen[Len(wire)].length = owed /\ Seen[Len(wire)].eom = ceom
        /\ Seen[Len(wire)].number = Current /\ Seen[Len(wire)].part = cpart
    BY <1>2, <2>1 DEF Back
  <2>4. View(u) = Shorter(Seen[Len(wire)], 1)
    BY <2>2, <2>3 DEF View, Unit, Shorter, Positions
  <2> QED BY <1>1, <2>1, <2>3, <2>4 DEF Follows
<1> QED BY <1>1, <1>2, <1>3, ClientAdds

----------------------------------------------------------------------------
\* The reader takes a header: it stands where the client's header is.
LEMMA RecvHeaderStep == IInv /\ RecvHeader => IInv'
<1> SUFFICES ASSUME IInv, RecvHeader PROVE IInv'
  OBVIOUS
<1> DEFINE h == Head(wire)
<1>1. /\ pc = "header" /\ wire # << >> /\ wire' = Tail(wire)
      /\ type' = TypeAfter(h.type) /\ eom' = h.eom
      /\ remaining' = h.length /\ total' = total + h.length
      /\ pc' = Onward(h.length, h.eom)
      /\ delivered' = delivered /\ UNCHANGED senderVars
  BY DEF RecvHeader
<1>2. TypeOK /\ Sending /\ Receiving /\ Prefix /\ Stream
  BY <1>1 DEF IInv, Reading
<1>3. /\ Len(wire) \in Nat \ {0} /\ h = wire[1] /\ h \in Units
      /\ wire' = SubSeq(wire, 1 + 1, Len(wire)) /\ wire' \in Seq(Units)
      /\ Len(delivered) \in Nat
  BY <1>1, <1>2 DEF TypeOK
<1> HIDE DEF h
<1>4. /\ h.length \in 0..MaxBody /\ h.length \in Nat /\ h.eom \in BOOLEAN
      /\ h.type \in AnyType
  BY <1>3, FramingAssumption DEF Units
<1>5. type' \in AnyType /\ NoType \notin AnyType
  BY <1>1, <1>2, <1>4, FramingAssumption DEF TypeAfter, TypeOK, AnyType
<1>6. TypeOK'
  <2>1. total' \in Nat /\ pc' \in {"header", "body", "return"}
    BY <1>1, <1>2, <1>4 DEF TypeOK, Onward
  <2> QED BY <1>1, <1>2, <1>3, <1>4, <1>5, <2>1 DEF TypeOK, senderVars
<1>7. h.number = Len(delivered) + 1 /\ h.part = Message(type', total')
  <2>1. /\ Seen[0] = Position(0) /\ remaining = 0
        /\ IF type = NoType THEN total = 0 ELSE ~eom
    BY <1>1, <1>2, <1>3 DEF Seen, Receiving
  <2>2. /\ Seen[0].length = 0 /\ 0 < Len(wire) /\ 0 \in 0..Len(wire)
        /\ wire[0 + 1] = h
    BY <1>3, <2>1 DEF Position
  <2>3. IF Seen[0].eom
        THEN /\ h.number = Seen[0].number + 1
             /\ h.part = Message(h.type, h.length)
        ELSE /\ h.number = Seen[0].number
             /\ h.part = Message(Seen[0].part.type,
                                 Seen[0].part.size + h.length)
    BY <1>2, <2>2 DEF Stream, Headers, Message
  <2>4. CASE type = NoType
    BY <1>1, <1>3, <1>4, <2>1, <2>3, <2>4 DEF Position, TypeAfter
  <2>5. CASE type # NoType
    BY <1>1, <1>3, <2>1, <2>3, <2>5 DEF Position, TypeAfter, Message
  <2> QED BY <2>4, <2>5
<1>8. Seen'[0] = Seen[1]
  <2>1. Seen[1] = View(h)
    BY <1>3 DEF Seen, Position
  <2>2. Seen'[0] = Position(0)'
    BY <1>6 DEF Seen, TypeOK
  <2> QED BY <1>1, <1>5, <1>7, <2>1, <2>2 DEF Position, View
<1>9. Stream'
  BY <1>1, <1>2, <1>3, <1>8, Shift
<1>10. Receiving'
  <2>1. type' # NoType
    BY <1>5
  <2>2. h.length = 0 /\ h.eom => IsAt(sent', Len(delivered') + 1,
                                      Message(type', total'))
    BY <1>1, <1>2, <1>3, <1>7 DEF Stream, Endings, senderVars
  <2> QED BY <1>1, <1>4, <2>1, <2>2 DEF Receiving, Onward
<1>11. Sending' /\ Prefix'
  BY <1>1, <1>2 DEF Sending, Prefix, senderVars
<1> QED BY <1>6, <1>9, <1>10, <1>11 DEF IInv

\* The reader takes k bytes: it stands where the last of them is.
LEMMA RecvBodyStep ==
    ASSUME IInv, NEW k \in 1..MaxBody, RecvBody(k)
    PROVE  IInv'
<1>1. /\ pc = "body" /\ k <= remaining /\ k <= Len(wire)
      /\ wire' = SubSeq(wire, k + 1, Len(wire))
      /\ remaining' = remaining - k /\ pc' = Onward(remaining - k, eom)
      /\ UNCHANGED <<type, total, eom, delivered>> /\ UNCHANGED senderVars
  BY DEF RecvBody
<1>2. TypeOK /\ Sending /\ Receiving /\ Prefix /\ Stream
  BY <1>1 DEF IInv, Reading
<1>3. /\ k \in Nat \ {0} /\ Len(wire) \in Nat /\ k \in 1..Len(wire)
      /\ remaining \in 0..MaxBody /\ remaining \in Nat /\ MaxBody \in Nat
      /\ wire \in Seq(Units) /\ Len(delivered) \in Nat
  BY <1>1, <1>2, FramingAssumption DEF TypeOK
<1>4. /\ remaining - k \in 0..MaxBody /\ type # NoType /\ eom \in BOOLEAN
  BY <1>1, <1>2, <1>3 DEF Receiving, TypeOK
<1>5. TypeOK'
  <2>1. wire' \in Seq(Units)
    BY <1>1, <1>3
  <2>2. pc' \in {"header", "body", "return"}
    BY <1>1 DEF Onward
  <2> QED BY <1>1, <1>2, <1>4, <2>1, <2>2 DEF TypeOK, senderVars
<1>6. Seen[k] = Shorter(Seen[0], k)
  <2>1. 0 \in 0..Len(wire) /\ 0 < k /\ k - 0 = k
    BY <1>3
  <2>2. Seen[0].length = remaining
    BY <2>1 DEF Seen, Position
  <2> QED BY <1>1, <1>2, <1>3, <2>1, <2>2 DEF Stream, Bodies
<1>7. Seen'[0] = Seen[k]
  <2>1. Seen'[0] = Position(0)' /\ Seen[0] = Position(0)
    BY <1>3, <1>5 DEF Seen, TypeOK
  <2>2. /\ Position(0).length = remaining
        /\ Position(0)' = [Position(0) EXCEPT !.length = remaining - k]
    BY <1>1, <1>4 DEF Position
  <2> QED BY <1>6, <2>1, <2>2 DEF Shorter
<1>8. Stream'
  BY <1>1, <1>2, <1>3, <1>7, Shift
<1>9. Receiving'
  <2>1. ASSUME remaining - k = 0, eom
        PROVE  IsAt(sent, Len(delivered) + 1, Message(type, total))
    <3>1. /\ Seen[k].length = 0 /\ Seen[k].eom
          /\ Seen[k].number = Len(delivered) + 1
          /\ Seen[k].part = Message(type, total)
      <4>1. Seen'[0] = Position(0)'
        BY <1>5 DEF Seen, TypeOK
      <4> QED BY <1>1, <1>4, <1>7, <2>1, <4>1 DEF Position
    <3>2. Seen[k] = View(wire[k])
      BY <1>3 DEF Seen, Position
    <3> QED BY <1>2, <1>3, <3>1, <3>2 DEF Stream, Endings, View
  <2> QED BY <1>1, <1>4, <2>1 DEF Receiving, Onward, senderVars
<1>10. Sending' /\ Prefix'
  BY <1>1, <1>2 DEF Sending, Prefix, senderVars
<1> QED BY <1>5, <1>8, <1>9, <1>10 DEF IInv

\* A reader caught in the body loop has returned every message that was sent,
\* and the client is inside the next one.
LEMMA RecvEofStep == IInv /\ RecvEof => IInv'
<1> SUFFICES ASSUME IInv, RecvEof PROVE IInv'
  OBVIOUS
<1>1. /\ wire = << >> /\ hungup # "no" /\ pc' \in {"closed", "spin"}
      /\ UNCHANGED <<wire, type, total, remaining, eom, delivered>>
      /\ UNCHANGED senderVars /\ (pc' = "spin" => pc = "body")
      /\ pc \in {"header", "body"}
  BY DEF RecvEof
<1>2. TypeOK /\ Sending /\ Receiving /\ Prefix /\ Stream
  BY <1>1 DEF IInv, Reading
<1>3. TypeOK' /\ Sending' /\ Prefix' /\ ~Reading'
  BY <1>1, <1>2 DEF TypeOK, Sending, Prefix, Reading, senderVars
<1>4. ASSUME pc = "body" PROVE hungup = "inside" /\ delivered = sent
  <2>1. Seen[0] = Position(0) /\ Len(wire) = 0
    BY <1>1 DEF Seen
  <2>2. remaining = owed /\ remaining # 0 /\ type # NoType
    BY <1>2, <1>4, <2>1 DEF Stream, Back, Receiving, Position
  <2>3. packets # 0 /\ hungup = "inside"
    BY <1>1, <1>2, <2>2 DEF Sending, TypeOK
  <2>4. Len(delivered) + 1 = Len(sent) + 1
    BY <1>2, <2>1, <2>2, <2>3 DEF Stream, Back, Position, Current
  <2>5. delivered = sent
    BY <1>2, <2>4 DEF TypeOK, Prefix
  <2> QED BY <2>3, <2>5
<1>5. Receiving'
  BY <1>1, <1>4 DEF Receiving, senderVars
<1> QED BY <1>3, <1>5 DEF IInv

LEMMA RecvFailsStep == IInv /\ RecvFails => IInv'
<1> SUFFICES ASSUME IInv, RecvFails PROVE IInv'
  OBVIOUS
<1>1. /\ pc' = "closed"
      /\ UNCHANGED <<wire, type, total, remaining, eom, delivered>>
      /\ UNCHANGED senderVars
  BY DEF RecvFails
<1> QED BY <1>1 DEF IInv, TypeOK, Sending, Receiving, Prefix, Reading,
                    senderVars

\* The message returned is the next one of those sent.
LEMMA ReturnStep ==
    IInv /\ Return => /\ IInv'
                      /\ Len(delivered) < Len(sent)
                      /\ delivered' = Append(delivered, sent[Len(delivered) + 1])
<1> SUFFICES ASSUME IInv, Return
             PROVE  /\ IInv'
                    /\ Len(delivered) < Len(sent)
                    /\ delivered' = Append(delivered, sent[Len(delivered) + 1])
  OBVIOUS
<1> DEFINE m == Message(type, total)
<1>1. /\ pc = "return" /\ delivered' = Append(delivered, m)
      /\ pc' \in {"header", "closed"}
      /\ type' = NoType /\ total' = 0 /\ eom' = FALSE
      /\ UNCHANGED <<wire, remaining>> /\ UNCHANGED senderVars
  BY DEF Return
<1>2. TypeOK /\ Sending /\ Receiving /\ Prefix /\ Stream
  BY <1>1 DEF IInv, Reading
<1>3. /\ remaining = 0 /\ type # NoType /\ eom
      /\ IsAt(sent, Len(delivered) + 1, m)
  BY <1>1, <1>2 DEF Receiving
<1>4. /\ Len(delivered) \in Nat /\ Len(sent) \in Nat /\ Len(wire) \in Nat
      /\ m \in AllMessages
  BY <1>2, <1>3 DEF TypeOK, Message, AllMessages
<1> HIDE DEF m
<1>5. /\ Len(delivered) < Len(sent) /\ sent[Len(delivered) + 1] = m
  BY <1>3, <1>4 DEF IsAt
<1>6. /\ delivered' \in Seq(AllMessages)
      /\ Len(delivered') = Len(delivered) + 1
      /\ delivered'[Len(delivered) + 1] = m
      /\ \A n \in 1..Len(delivered) : delivered'[n] = delivered[n]
  BY <1>1, <1>2, <1>4 DEF TypeOK
<1>7. TypeOK'
  BY <1>1, <1>2, <1>6 DEF TypeOK, senderVars
<1>8. Prefix' /\ Sending' /\ Receiving'
  <2>1. Prefix'
    BY <1>1, <1>2, <1>4, <1>5, <1>6 DEF Prefix, senderVars
  <2>2. Sending'
    BY <1>1, <1>2 DEF Sending, senderVars
  <2>3. Receiving'
    BY <1>1, <1>3 DEF Receiving
  <2> QED BY <2>1, <2>2, <2>3
<1>9. Stream'
  <2>1. /\ Seen[0] = Position(0) /\ Seen'[0] = Position(0)'
    BY <1>1, <1>4 DEF Seen
  <2>2. /\ Seen[0].length = 0 /\ Seen'[0].length = 0
        /\ Seen[0].eom /\ Seen'[0].eom
        /\ Seen[0].number = Len(delivered) + 1
        /\ Seen'[0].number = Len(delivered) + 1
    BY <1>1, <1>3, <1>6, <2>1 DEF Position
  <2>3. ASSUME NEW i \in 1..Len(wire) PROVE Seen'[i] = Seen[i]
    BY <1>1, <1>4 DEF Seen, Position
  <2>4. Bodies'
    <3> SUFFICES ASSUME NEW i \in 0..Len(wire), NEW j \in 1..Len(wire),
                        i < j, j - i <= Seen'[i].length
                 PROVE  Seen'[j] = Shorter(Seen'[i], j - i)
      BY <1>1 DEF Bodies, Shorter
    <3>1. i # 0
      BY <1>4, <2>2
    <3> QED BY <1>2, <1>4, <2>3, <3>1 DEF Stream, Bodies
  <2>5. Headers'
    <3> SUFFICES ASSUME NEW i \in 0..Len(wire), i < Len(wire),
                        Seen'[i].length = 0
                 PROVE  LET h == wire[i + 1]
                        IN IF Seen'[i].eom
                           THEN /\ h.number = Seen'[i].number + 1
                                /\ h.part = Message(h.type, h.length)
                           ELSE /\ h.number = Seen'[i].number
                                /\ h.part = Message(Seen'[i].part.type,
                                              Seen'[i].part.size + h.length)
      BY <1>1 DEF Headers, Message
    <3>1. CASE i = 0
      <4>1. /\ wire[i + 1].number = Seen[0].number + 1
            /\ wire[i + 1].part = Message(wire[i + 1].type,
                                          wire[i + 1].length)
        <5>1. 0 \in 0..Len(wire) /\ 0 < Len(wire) /\ Headers
          BY <1>2, <3>1 DEF Stream
        <5> QED BY <2>2, <3>1, <5>1 DEF Headers
      <4> QED BY <2>2, <3>1, <4>1
    <3>2. CASE i # 0
      BY <1>2, <1>4, <2>3, <3>2 DEF Stream, Headers, Message
    <3> QED BY <3>1, <3>2
  <2>6. Endings'
    BY <1>1, <1>2 DEF Stream, Endings, senderVars
  <2>7. Back'
    <3>1. CASE Len(wire) = 0
      <4>1. owed = 0 /\ packets = 0
        BY <1>2, <2>2, <3>1 DEF Stream, Back, Sending
      <4>2. Len(sent) = Len(delivered) + 1
        BY <1>2, <2>2, <3>1, <4>1 DEF Stream, Back
      <4> QED BY <1>1, <2>2, <3>1, <4>1, <4>2 DEF Back, senderVars
    <3>2. CASE Len(wire) # 0
      <4>1. Len(wire) \in 1..Len(wire)
        BY <1>4, <3>2
      <4>2. Seen'[Len(wire)] = Seen[Len(wire)]
        BY <2>3, <4>1
      <4> QED BY <1>1, <1>2, <4>2 DEF Stream, Back, Current, senderVars
    <3> QED BY <3>1, <3>2
  <2> QED BY <2>4, <2>5, <2>6, <2>7 DEF Stream
<1> QED BY <1>1, <1>5, <1>7, <1>8, <1>9 DEF IInv

----------------------------------------------------------------------------
\* What a step does: it keeps the invariant, and sends and delivers as
\* MessageChannel allows.
LEMMA ClientStep ==
    ASSUME IInv, Client
    PROVE  IInv' /\ delivered' = delivered
           /\ (sent' = sent \/ Channel!Send)
<1>1. TypeOK /\ Sending /\ Receiving /\ Prefix /\ (Reading => Stream)
  BY DEF IInv
<1>2. CASE ClientClose
  <2>1. /\ hungup = "no" /\ hungup' = IF owed > 0 THEN "inside" ELSE "between"
        /\ UNCHANGED <<wire, packets, cpart, ceom, owed, sent>>
        /\ UNCHANGED readerVars
    BY <1>2 DEF ClientClose
  <2>2. owed \in Nat
    BY <1>1, FramingAssumption DEF TypeOK
  <2>3. TypeOK' /\ Sending' /\ Prefix'
    BY <1>1, <2>1, <2>2 DEF TypeOK, Sending, Prefix, readerVars
  <2>4. Receiving'
    BY <1>1, <2>1 DEF Receiving, readerVars
  <2>5. Seen' = Seen
    BY <2>1 DEF Seen, Position, readerVars
  <2>6. Reading' => Stream'
    BY <1>1, <2>1, <2>5 DEF Reading, Stream, Bodies, Headers, Endings, Back,
                            Current, readerVars
  <2> QED BY <2>1, <2>3, <2>4, <2>6 DEF IInv, readerVars
<1>3. ASSUME \/ \E t \in AnyType, length \in 0..MaxBody, last \in BOOLEAN :
                   ClientHeader(t, length, last)
             \/ ClientByte
      PROVE  IInv' /\ delivered' = delivered /\ (sent' = sent \/ Channel!Send)
  <2>1. /\ TypeOK' /\ Sending' /\ Grows /\ Len(sent) <= Len(sent')
        /\ Reading' => Stream'
    BY <1>1, <1>3, ClientHeaderStep, ClientByteStep
  <2>2. /\ hungup = "no" /\ hungup' = hungup /\ UNCHANGED readerVars
        /\ \/ sent' = sent
           \/ \E part : sent' = Append(sent, part)
    BY <1>3 DEF ClientHeader, ClientByte, Account
  <2>3. /\ Len(sent) \in Nat /\ Len(sent') \in Nat /\ Len(delivered) \in Nat
        /\ sent' \in Seq(AllMessages) /\ delivered' = delivered
    BY <1>1, <2>1, <2>2 DEF TypeOK, readerVars
  <2>4. Prefix'
    BY <1>1, <2>1, <2>3 DEF Prefix, Grows
  <2>5. Receiving'
    <3>1. ASSUME NEW n, NEW m, IsAt(sent, n, m) PROVE IsAt(sent', n, m)
      BY <2>1, <3>1 DEF IsAt, Grows
    <3> QED BY <1>1, <2>2, <3>1 DEF Receiving, readerVars
  <2>6. ASSUME NEW part, sent' = Append(sent, part) PROVE Channel!Send
    <3>1. Len(sent') = Len(sent) + 1
      BY <1>1, <2>6 DEF TypeOK
    <3> QED BY <2>1, <2>3, <3>1 DEF Channel!Send, Grows
  <2> QED BY <2>1, <2>2, <2>3, <2>4, <2>5, <2>6 DEF IInv
<1> QED BY <1>2, <1>3 DEF Client

LEMMA Step ==
    ASSUME IInv, [Next]_vars
    PROVE  IInv' /\ [Channel!Next]_<<sent, delivered>>
<1>1. CASE Client
  BY <1>1, ClientStep DEF Channel!Next
<1>2. CASE RecvHeader
  <2>1. sent' = sent /\ delivered' = delivered
    BY <1>2 DEF RecvHeader, senderVars
  <2> QED BY <1>2, <2>1, RecvHeaderStep
<1>3. ASSUME NEW k \in 1..MaxBody, RecvBody(k)
      PROVE  IInv' /\ [Channel!Next]_<<sent, delivered>>
  <2>1. sent' = sent /\ delivered' = delivered
    BY <1>3 DEF RecvBody, senderVars
  <2> QED BY <1>3, <2>1, RecvBodyStep
<1>4. CASE RecvEof \/ RecvFails
  <2>1. sent' = sent /\ delivered' = delivered
    BY <1>4 DEF RecvEof, RecvFails, senderVars
  <2> QED BY <1>4, <2>1, RecvEofStep, RecvFailsStep
<1>5. CASE Return
  <2>1. sent' = sent
    BY <1>5 DEF Return, senderVars
  <2> QED BY <1>5, <2>1, ReturnStep DEF Channel!Next, Channel!Deliver
<1>6. CASE UNCHANGED vars
  <2>1. UNCHANGED <<wire, senderVars, readerVars>> /\ UNCHANGED senderVars
        /\ UNCHANGED readerVars
    BY <1>6 DEF vars
  <2>2. Seen' = Seen
    BY <2>1 DEF Seen, Position, readerVars
  <2>3. Stream => Stream'
    BY <2>1, <2>2 DEF Stream, Bodies, Headers, Endings, Back, Current,
                      senderVars
  <2>4. TypeOK' /\ Sending' /\ Receiving' /\ Prefix' /\ (Reading' => Reading)
    BY <2>1 DEF IInv, TypeOK, Sending, Receiving, Prefix, Reading, senderVars,
                readerVars
  <2>5. sent' = sent /\ delivered' = delivered
    BY <2>1 DEF senderVars, readerVars
  <2> QED BY <2>3, <2>4, <2>5 DEF IInv
<1> QED BY <1>1, <1>2, <1>3, <1>4, <1>5, <1>6 DEF Next, Reader

THEOREM Invariance == Spec => []IInv
<1>1. IInv /\ [Next]_vars => IInv'
  BY Step
<1> QED BY InitIInv, <1>1, PTL DEF Spec

\* Type correctness (TypeOK).
THEOREM TypeCorrect == Spec => []TypeOK
BY Invariance, PTL DEF IInv

\* readpacket stays in its body loop for good only when the client has closed
\* the connection inside a body, and every complete message was returned.
THEOREM SpinsOnlyWhenTornCorrect == Spec => []SpinsOnlyWhenTorn
<1>1. IInv => SpinsOnlyWhenTorn
  BY DEF IInv, Receiving, SpinsOnlyWhenTorn
<1> QED BY <1>1, Invariance, PTL

\* readpacket implements MessageChannel (Reassembles): however the messages
\* are cut into packets and pieces, they are returned whole and in order.
THEOREM ReassemblesCorrect == Spec => Reassembles
<1>1. Init => Channel!Init
  BY DEF Init, Channel!Init
<1>2. IInv /\ [Next]_vars => [Channel!Next]_<<sent, delivered>>
  BY Step
<1> QED BY <1>1, <1>2, Invariance, PTL DEF Spec, Reassembles, Channel!Spec
=============================================================================
