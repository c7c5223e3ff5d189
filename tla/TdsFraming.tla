----------------------------- MODULE TdsFraming -----------------------------
(***************************************************************************)
(* tdspacket::readpacket: a message comes as one or more packets, each a   *)
(* header with its length, type and eom_flag, then a body; the socket      *)
(* hands over a body in pieces.  A header is one unit of the byte stream   *)
(* and every byte of a body another: recv reads a header whole or fails.   *)
(***************************************************************************)
EXTENDS Naturals, Sequences

CONSTANTS Types,       \* the packet types readpacket has a class for
          OtherType,   \* any other type
          NoType,      \* a packet_type of -1
          MaxMessages, \* bound: messages a client sends
          MaxPackets,  \* bound: packets of one message
          MaxBody      \* bound: bytes of one body

ASSUME FramingAssumption ==
    /\ OtherType \notin Types /\ NoType \notin Types \cup {OtherType}
    /\ MaxMessages \in Nat /\ MaxPackets \in Nat /\ MaxBody \in Nat

AnyType == Types \cup {OtherType}

\* What readpacket returns.
Message(type, size) == [type |-> type, size |-> size]

\* A unit of the stream.  The reader looks at the type, length and eom of a
\* header; in a byte of a body, length is what follows in the same body.  It
\* does not see the rest: the number of the message and what has been
\* announced of it so far.
Unit(kind, type, length, eom, number, part) ==
    [kind |-> kind, type |-> type, length |-> length, eom |-> eom,
     number |-> number, part |-> part]

NoMessage == Message(NoType, 0)

VARIABLES
    wire,      \* units sent and not received
    hungup,    \* whether and where the client has closed its end
    packets,   \* packets of the message the client is sending
    cpart,     \* the type of its first packet and the bytes announced so far
    ceom,      \* whether its last packet has eom_flag
    owed,      \* bytes of that packet not yet sent
    sent,      \* the messages sent completely
    pc,        \* where the reader is in readpacket
    type,      \* its packet_type
    total,     \* its total_length
    remaining, \* its remaining
    eom,       \* packet_status.eom_flag
    delivered  \* the messages returned

senderVars == <<hungup, packets, cpart, ceom, owed, sent>>
readerVars == <<pc, type, total, remaining, eom, delivered>>
vars == <<wire, senderVars, readerVars>>

Init ==
    /\ wire = << >> /\ hungup = "no"
    /\ packets = 0 /\ cpart = NoMessage /\ ceom = FALSE /\ owed = 0
    /\ sent = << >>
    /\ pc = "header" /\ type = NoType /\ total = 0 /\ remaining = 0
    /\ eom = FALSE /\ delivered = << >>

----------------------------------------------------------------------------
\* The client.

Current == Len(sent) + 1

\* What the client sends now completes its message or not.
Account(part, count, last, left) ==
    IF last /\ left = 0
    THEN /\ sent' = Append(sent, part)
         /\ packets' = 0 /\ cpart' = NoMessage /\ ceom' = FALSE
    ELSE /\ packets' = count /\ cpart' = part /\ ceom' = last
         /\ UNCHANGED sent

\* The header of a packet.  The type of a later packet of a message does not
\* have to be that of its first.
ClientHeader(t, length, last) ==
    /\ hungup = "no" /\ owed = 0
    /\ Len(sent) < MaxMessages
    /\ packets < MaxPackets /\ (packets = MaxPackets - 1 => last)
    /\ LET part == IF packets = 0 THEN Message(t, length)
                   ELSE Message(cpart.type, cpart.size + length)
       IN /\ wire' = Append(wire, Unit("header", t, length, last, Current, part))
          /\ Account(part, packets + 1, last, length)
    /\ owed' = length
    /\ UNCHANGED <<hungup, readerVars>>

ClientByte ==
    /\ hungup = "no" /\ owed > 0
    /\ wire' = Append(wire, Unit("body", cpart.type, owed - 1, ceom, Current,
                                 cpart))
    /\ Account(cpart, packets, ceom, owed - 1)
    /\ owed' = owed - 1
    /\ UNCHANGED <<hungup, readerVars>>

ClientClose ==
    /\ hungup = "no"
    /\ hungup' = IF owed > 0 THEN "inside" ELSE "between"
    /\ UNCHANGED <<wire, packets, cpart, ceom, owed, sent, readerVars>>

----------------------------------------------------------------------------
\* readpacket.

\* Where it goes with this much of a body to come.  Slips: it takes every
\* packet for the last one, or none.
Onward_EveryPacket(left, last) == IF left > 0 THEN "body" ELSE "return"
Onward_NoPacket(left, last)    == IF left > 0 THEN "body" ELSE "header"

Onward(left, last) ==
    IF left > 0 THEN "body" ELSE IF last THEN "return" ELSE "header"

\* The type of the message: that of its first packet.
TypeAfter(t) == IF type = NoType THEN t ELSE type

RecvHeader ==
    /\ pc = "header" /\ wire # << >>
    /\ LET h == Head(wire)
       IN /\ type' = TypeAfter(h.type)
          /\ eom' = h.eom
          /\ remaining' = h.length
          /\ total' = total + h.length
          /\ pc' = Onward(h.length, h.eom)
    /\ wire' = Tail(wire)
    /\ UNCHANGED <<delivered, senderVars>>

\* recv gives the next k bytes of the body.  Slip: more than was asked for.
RecvBody_Beyond(k) ==
    /\ pc = "body" /\ k <= Len(wire)
    /\ wire' = SubSeq(wire, k + 1, Len(wire))
    /\ remaining' = remaining - k
    /\ pc' = Onward(remaining - k, eom)
    /\ UNCHANGED <<type, total, eom, delivered, senderVars>>

RecvBody(k) ==
    /\ pc = "body" /\ k <= remaining /\ k <= Len(wire)
    /\ wire' = SubSeq(wire, k + 1, Len(wire))
    /\ remaining' = remaining - k
    /\ pc' = Onward(remaining - k, eom)
    /\ UNCHANGED <<type, total, eom, delivered, senderVars>>

\* At the end of the stream recv returns 0: no header, which ends the worker,
\* or no bytes of the body, over and over.  Slips: the header is asked for
\* again and again; a pause of the client is taken for the end.
RecvEof_Retries ==
    /\ wire = << >> /\ hungup # "no"
    /\ pc = "body" /\ pc' = "spin"
    /\ UNCHANGED <<wire, type, total, remaining, eom, delivered, senderVars>>

RecvEof_Pause ==
    /\ wire = << >>
    /\ \/ pc = "header" /\ pc' = "closed"
       \/ pc = "body" /\ pc' = "spin"
    /\ UNCHANGED <<wire, type, total, remaining, eom, delivered, senderVars>>

RecvEof ==
    /\ wire = << >> /\ hungup # "no"
    /\ \/ pc = "header" /\ pc' = "closed"
       \/ pc = "body" /\ pc' = "spin"
    /\ UNCHANGED <<wire, type, total, remaining, eom, delivered, senderVars>>

\* recv reports an error or, interrupted, a part of a header.
RecvFails ==
    /\ pc \in {"header", "body"} /\ pc' = "closed"
    /\ UNCHANGED <<wire, type, total, remaining, eom, delivered, senderVars>>

\* The packet is made from what was read; run() comes back for the next one.
\* A type without a class ends the worker.
Return ==
    /\ pc = "return"
    /\ delivered' = Append(delivered, Message(type, total))
    /\ pc' = IF type \in Types THEN "header" ELSE "closed"
    /\ type' = NoType /\ total' = 0 /\ eom' = FALSE
    /\ UNCHANGED <<wire, remaining, senderVars>>

----------------------------------------------------------------------------
Client == \/ \E t \in AnyType, length \in 0..MaxBody, last \in BOOLEAN :
                 ClientHeader(t, length, last)
          \/ ClientByte \/ ClientClose

Reader == \/ RecvHeader \/ RecvEof \/ Return
          \/ \E k \in 1..MaxBody : RecvBody(k)

Next == Client \/ Reader \/ RecvFails

Spec == Init /\ [][Next]_vars

\* The worker keeps reading; the client does not have to send.
FairSpec == Spec /\ WF_vars(Reader)
----------------------------------------------------------------------------
(* Properties *)

AllMessages == [type : AnyType, size : Nat]

Units == [kind : {"header", "body"}, type : AnyType, length : 0..MaxBody,
          eom : BOOLEAN, number : Nat, part : AllMessages]

\* Every variable keeps its type.
TypeOK ==
    /\ wire \in Seq(Units)
    /\ hungup \in {"no", "between", "inside"}
    /\ packets \in Nat /\ cpart \in AllMessages \cup {NoMessage}
    /\ ceom \in BOOLEAN /\ owed \in 0..MaxBody
    /\ sent \in Seq(AllMessages)
    /\ pc \in {"header", "body", "return", "spin", "closed"}
    /\ type \in AnyType \cup {NoType} /\ total \in Nat
    /\ remaining \in 0..MaxBody /\ eom \in BOOLEAN
    /\ delivered \in Seq(AllMessages)

\* However the client cuts its messages into packets and the socket the
\* packets into pieces, readpacket returns the messages whole, once and in
\* order (MessageChannel).
Channel == INSTANCE MessageChannel WITH Messages <- AllMessages

Reassembles == Channel!Spec

\* readpacket stays in its body loop for good only when the client has closed
\* the connection inside a body, and then it has returned every message that
\* was complete.
SpinsOnlyWhenTorn ==
    pc = "spin" => hungup = "inside" /\ delivered = sent

\* A message that was sent completely is returned, unless the reader has ended
\* on an error or on a type it does not know.
Delivered ==
    \A n \in 1..MaxMessages :
        Len(sent) >= n ~> Len(delivered) >= n \/ pc = "closed"

\* A reader whose client is gone stops, or spins when the client closed the
\* connection inside a body.
ReaderEnds == hungup # "no" ~> pc \in {"closed", "spin"}
=============================================================================
