------------------------------ MODULE Dispatch ------------------------------
(***************************************************************************)
(* What the listener of src/bgworker/init.cc is for, without the processes *)
(* and sockets it takes: it takes connections one after the other and      *)
(* gives the one it has taken last to a worker that has none.  A           *)
(* connection has at most one worker, a worker at most one connection, and *)
(* neither is ever changed; a connection may be left without a worker.     *)
(***************************************************************************)
EXTENDS Naturals, Sequences

CONSTANTS Conns, Workers, NoConn

VARIABLES taken, \* the connections taken, in order
          owns   \* the connection each worker was given

Init == taken = << >> /\ owns = [w \in Workers |-> NoConn]

Take(c) ==
    /\ \A i \in 1..Len(taken) : taken[i] # c
    /\ taken' = Append(taken, c)
    /\ UNCHANGED owns

Give(w) ==
    /\ owns[w] = NoConn
    /\ taken # << >>
    /\ \A v \in Workers : owns[v] # taken[Len(taken)]
    /\ owns' = [owns EXCEPT ![w] = taken[Len(taken)]]
    /\ UNCHANGED taken

Next == \/ \E c \in Conns : Take(c)
        \/ \E w \in Workers : Give(w)

Spec == Init /\ [][Next]_<<taken, owns>>
=============================================================================
