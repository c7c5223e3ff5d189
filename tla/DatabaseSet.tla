---------------------------- MODULE DatabaseSet ----------------------------
(***************************************************************************)
(* What the databases of an instance are to its sessions: a set of names.  *)
(* A session creates and drops whole databases in a transaction, and what  *)
(* it did shows to the others when it commits, all at once or not at all.  *)
(***************************************************************************)
CONSTANTS Databases,  \* names
          Sessions

VARIABLES dbs,      \* the databases that are committed
          made,     \* made[s]: created by s and not committed
          dropped   \* dropped[s]: those of dbs that s has dropped

vars == <<dbs, made, dropped>>

Nothing == [s \in Sessions |-> {}]

Init == dbs \in SUBSET Databases /\ made = Nothing /\ dropped = Nothing

Sees(s) == (dbs \ dropped[s]) \cup made[s]

Others(s) == Sessions \ {s}

Create(s, d) ==
    /\ d \notin Sees(s)
    /\ \A t \in Others(s) : d \notin made[t]
    /\ made' = [made EXCEPT ![s] = @ \cup {d}]
    /\ UNCHANGED <<dbs, dropped>>

Drop(s, d) ==
    /\ d \in Sees(s)
    /\ \A t \in Others(s) : d \notin dropped[t]
    /\ made' = [made EXCEPT ![s] = @ \ {d}]
    /\ dropped' = [dropped EXCEPT ![s] = @ \cup ({d} \cap dbs)]
    /\ UNCHANGED dbs

Abort(s) ==
    /\ made' = [made EXCEPT ![s] = {}]
    /\ dropped' = [dropped EXCEPT ![s] = {}]
    /\ UNCHANGED dbs

Commit(s) ==
    /\ dbs' = Sees(s)
    /\ made' = [made EXCEPT ![s] = {}]
    /\ dropped' = [dropped EXCEPT ![s] = {}]

Next == \E s \in Sessions :
            \/ \E d \in Databases : Create(s, d) \/ Drop(s, d)
            \/ Abort(s)
            \/ Commit(s)

Spec == Init /\ [][Next]_vars
=============================================================================
