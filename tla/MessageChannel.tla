--------------------------- MODULE MessageChannel ---------------------------
(***************************************************************************)
(* What readpacket promises its caller, and what TdsSession takes for      *)
(* granted: the client's messages come out whole, once and in the order    *)
(* they were sent; the last of them may never come out.                    *)
(***************************************************************************)
EXTENDS Naturals, Sequences

CONSTANT Messages

VARIABLES sent,      \* the messages the client has sent, in order
          delivered  \* those readpacket has returned, in order

Init == sent = << >> /\ delivered = << >>

Send ==
    /\ sent' \in Seq(Messages) /\ Len(sent') = Len(sent) + 1
    /\ \A i \in 1..Len(sent) : sent'[i] = sent[i]
    /\ UNCHANGED delivered

Deliver ==
    /\ Len(delivered) < Len(sent)
    /\ delivered' = Append(delivered, sent[Len(delivered) + 1])
    /\ UNCHANGED sent

Next == Send \/ Deliver

Spec == Init /\ [][Next]_<<sent, delivered>>
=============================================================================
