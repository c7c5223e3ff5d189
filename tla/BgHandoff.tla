----------------------------- MODULE BgHandoff ------------------------------
(***************************************************************************)
(* The listener process and the start of its workers (bgworker/init.cc).   *)
(* The listener accepts a client on port 1433, registers a dynamic         *)
(* background worker, waits for a worker to connect to /tmp/tdspsql and    *)
(* sends it the client's socket; which worker that is, nobody checks.  The *)
(* results of accept, RegisterDynamicBackgroundWorker and sendmsg are not  *)
(* looked at, and neither socket is ever closed by the listener.           *)
(***************************************************************************)
EXTENDS Naturals, Sequences, FiniteSets

CONSTANTS Conns,    \* client connections
          Workers,  \* worker processes: bounds the registrations
          NoConn,   \* a descriptor of -1
          NoWorker, \* likewise, on the IPC socket
          MaxSlots, \* max_worker_processes, less the listener's
          MaxFds    \* descriptors the listener can open besides its own two

ASSUME HandoffAssumption ==
    /\ NoConn \notin Conns /\ NoWorker \notin Workers
    /\ MaxSlots \in Nat /\ MaxFds \in Nat

\* listen(ipc_sock, 1): a connect blocks while more than one is queued.
IpcListen == 1

Places == {"accept", "register", "ipcaccept", "send", "ended"}

WorkerStates == {"none",       \* not registered yet
                 "registered", \* holds a slot, not started
                 "starting",   \* started, not connected
                 "connected",  \* in recvmsg, or in the queue of the IPC socket
                 "running",    \* in tdsmain::run on the socket it was sent
                 "stray",      \* in it on a number that was never set
                 "gone"}

VARIABLES
    backlog,    \* connections waiting in the kernel on port 1433
    lost,       \* connections whose accept failed
    accepted,   \* connections accepted, in order
    pc,         \* where the listener is
    tdsPeer,    \* its tds_peer_sock
    ipcPeer,    \* its ipc_peer_sock
    fds,        \* descriptors it has opened
    worker,     \* where each worker is
    meant,      \* the connection each was registered for
    ipcBacklog, \* workers waiting in the kernel on the IPC socket
    sent        \* the connection each worker was sent

clientVars   == <<backlog, lost, accepted>>
listenerVars == <<pc, tdsPeer, ipcPeer, fds>>
vars == <<clientVars, listenerVars, worker, meant, ipcBacklog, sent>>

Init ==
    /\ backlog = << >> /\ lost = {} /\ accepted = << >>
    /\ pc = "accept" /\ tdsPeer = NoConn /\ ipcPeer = NoWorker /\ fds = 0
    /\ worker = [w \in Workers |-> "none"]
    /\ meant = [w \in Workers |-> NoConn]
    /\ ipcBacklog = << >>
    /\ sent = [w \in Workers |-> NoConn]

Members(s) == {s[i] : i \in 1..Len(s)}

----------------------------------------------------------------------------
\* A client connects.
Arrive(c) ==
    /\ c \notin Members(backlog) \cup Members(accepted) \cup lost
    /\ pc # "ended"
    /\ backlog' = Append(backlog, c)
    /\ UNCHANGED <<lost, accepted, listenerVars, worker, meant, ipcBacklog,
                   sent>>

----------------------------------------------------------------------------
\* The listener.

\* Slip: the connection stays in the queue.
AcceptConn_Peeks ==
    /\ pc = "accept" /\ backlog # << >> /\ fds < MaxFds
    /\ tdsPeer' = Head(backlog)
    /\ accepted' = Append(accepted, Head(backlog))
    /\ fds' = fds + 1 /\ pc' = "register"
    /\ UNCHANGED <<backlog, lost, ipcPeer, worker, meant, ipcBacklog, sent>>

AcceptConn ==
    /\ pc = "accept" /\ backlog # << >> /\ fds < MaxFds
    /\ tdsPeer' = Head(backlog)
    /\ accepted' = Append(accepted, Head(backlog))
    /\ backlog' = Tail(backlog)
    /\ fds' = fds + 1 /\ pc' = "register"
    /\ UNCHANGED <<lost, ipcPeer, worker, meant, ipcBacklog, sent>>

\* accept returns -1: a network error was pending on the new connection, or
\* no descriptor is free, and then it does not wait for a connection.
AcceptError ==
    /\ pc = "accept" /\ backlog # << >> /\ fds < MaxFds
    /\ backlog' = Tail(backlog) /\ lost' = lost \cup {Head(backlog)}
    /\ tdsPeer' = NoConn /\ pc' = "register"
    /\ UNCHANGED <<accepted, ipcPeer, fds, worker, meant, ipcBacklog, sent>>

AcceptNoFd ==
    /\ pc = "accept" /\ fds = MaxFds
    /\ \E w \in Workers : worker[w] = "none"   \* bound
    /\ tdsPeer' = NoConn /\ pc' = "register"
    /\ UNCHANGED <<clientVars, ipcPeer, fds, worker, meant, ipcBacklog, sent>>

SlotFree ==
    Cardinality({w \in Workers : worker[w] \notin {"none", "gone"}}) < MaxSlots

Register ==
    /\ pc = "register" /\ pc' = "ipcaccept"
    /\ \/ /\ SlotFree
          /\ \E w \in Workers :
                /\ worker[w] = "none"
                /\ worker' = [worker EXCEPT ![w] = "registered"]
                /\ meant' = [meant EXCEPT ![w] = tdsPeer]
       \/ ~SlotFree /\ UNCHANGED <<worker, meant>>
    /\ UNCHANGED <<clientVars, tdsPeer, ipcPeer, fds, ipcBacklog, sent>>

\* Slips: it takes a descriptor more than there are; it does not wait.
IpcAccept_Unlimited ==
    /\ pc = "ipcaccept" /\ ipcBacklog # << >>
    /\ ipcPeer' = Head(ipcBacklog)
    /\ ipcBacklog' = Tail(ipcBacklog)
    /\ fds' = fds + 1 /\ pc' = "send"
    /\ UNCHANGED <<clientVars, tdsPeer, worker, meant, sent>>

IpcAccept_NoWait ==
    /\ pc = "ipcaccept" /\ fds < MaxFds /\ pc' = "send"
    /\ IF ipcBacklog = << >>
       THEN ipcPeer' = NoWorker /\ UNCHANGED <<ipcBacklog, fds>>
       ELSE /\ ipcPeer' = Head(ipcBacklog)
            /\ ipcBacklog' = Tail(ipcBacklog) /\ fds' = fds + 1
    /\ UNCHANGED <<clientVars, tdsPeer, worker, meant, sent>>

IpcAccept ==
    /\ pc = "ipcaccept" /\ ipcBacklog # << >> /\ fds < MaxFds
    /\ ipcPeer' = Head(ipcBacklog)
    /\ ipcBacklog' = Tail(ipcBacklog)
    /\ fds' = fds + 1 /\ pc' = "send"
    /\ UNCHANGED <<clientVars, tdsPeer, worker, meant, sent>>

\* The only failure of this accept in the model is that of a listener with no
\* descriptor left, which lasts.  A want of memory or of files in the system is
\* not modelled: after one, the worker stays in the queue, and each later
\* connection goes to the worker of the one before.
IpcAcceptNoFd ==
    /\ pc = "ipcaccept" /\ fds = MaxFds
    /\ ipcPeer' = NoWorker /\ pc' = "send"
    /\ UNCHANGED <<clientVars, tdsPeer, fds, worker, meant, ipcBacklog, sent>>

\* sendmsg needs two valid descriptors and a peer that still has its end open.
CanSend == /\ tdsPeer # NoConn /\ ipcPeer # NoWorker
           /\ worker[ipcPeer] = "connected"

\* Slip: the socket goes out only when another worker runs already.
Send_Skips ==
    /\ pc = "send"
    /\ sent' = IF CanSend /\ \E w \in Workers : worker[w] = "running"
               THEN [sent EXCEPT ![ipcPeer] = tdsPeer] ELSE sent
    /\ pc' = "accept" /\ tdsPeer' = NoConn /\ ipcPeer' = NoWorker
    /\ UNCHANGED <<clientVars, fds, worker, meant, ipcBacklog>>

Send ==
    /\ pc = "send"
    /\ sent' = IF CanSend THEN [sent EXCEPT ![ipcPeer] = tdsPeer] ELSE sent
    /\ pc' = "accept" /\ tdsPeer' = NoConn /\ ipcPeer' = NoWorker
    /\ UNCHANGED <<clientVars, fds, worker, meant, ipcBacklog>>

\* The listener is terminated, or leaves with an ERROR; it is registered with
\* BGW_NEVER_RESTART.  The kernel refuses what is queued on its sockets.
ListenerEnds ==
    /\ pc # "ended"
    /\ pc' = "ended" /\ tdsPeer' = NoConn /\ ipcPeer' = NoWorker
    /\ UNCHANGED <<clientVars, fds, worker, meant, ipcBacklog, sent>>

----------------------------------------------------------------------------
\* A worker.
Move(w, from, to) == worker[w] = from /\ worker' = [worker EXCEPT ![w] = to]

\* The postmaster starts it.
Start(w) ==
    /\ Move(w, "registered", "starting")
    /\ UNCHANGED <<clientVars, listenerVars, meant, ipcBacklog, sent>>

Connect(w) ==
    /\ pc # "ended" /\ Len(ipcBacklog) <= IpcListen
    /\ Move(w, "starting", "connected")
    /\ ipcBacklog' = Append(ipcBacklog, w)
    /\ UNCHANGED <<clientVars, listenerVars, meant, sent>>

\* recvmsg returns with the socket.  Slip: it does not wait for it.
Receive_Early(w) ==
    /\ Move(w, "connected", "running")
    /\ UNCHANGED <<clientVars, listenerVars, meant, ipcBacklog, sent>>

Receive(w) ==
    /\ sent[w] # NoConn
    /\ Move(w, "connected", "running")
    /\ UNCHANGED <<clientVars, listenerVars, meant, ipcBacklog, sent>>

\* connect or recvmsg fails for want of a listener; the control message, never
\* set, is read all the same.
ReceiveNothing(w) ==
    /\ pc = "ended"
    /\ \/ Move(w, "starting", "stray")
       \/ w \in Members(ipcBacklog) /\ Move(w, "connected", "stray")
    /\ UNCHANGED <<clientVars, listenerVars, meant, ipcBacklog, sent>>

\* recvmsg finds the end of the stream and no control message: the null
\* pointer it is read through crashes the worker, and with it every process
\* of the server.  Dynamic workers are forgotten when it restarts.
Crash(w) ==
    /\ pc = "ended" /\ worker[w] = "connected"
    /\ w \notin Members(ipcBacklog) /\ sent[w] = NoConn
    /\ worker' = [v \in Workers |->
                      IF worker[v] = "none" THEN "none" ELSE "gone"]
    /\ UNCHANGED <<clientVars, listenerVars, meant, ipcBacklog, sent>>

\* run() returns, or the process is terminated wherever it is, or could not be
\* started.  A worker is not restarted.  Slip: it is.
Exit_Restarts(w) ==
    /\ worker[w] \notin {"none", "gone"}
    /\ worker' = [worker EXCEPT ![w] = "registered"]
    /\ UNCHANGED <<clientVars, listenerVars, meant, ipcBacklog, sent>>

Exit(w) ==
    /\ worker[w] \notin {"none", "gone"}
    /\ worker' = [worker EXCEPT ![w] = "gone"]
    /\ UNCHANGED <<clientVars, listenerVars, meant, ipcBacklog, sent>>

----------------------------------------------------------------------------
Listener == \/ AcceptConn \/ AcceptNoFd \/ Register
            \/ IpcAccept \/ IpcAcceptNoFd \/ Send

WorkerSteps(w) == Start(w) \/ Connect(w) \/ Receive(w)

Next == \/ \E c \in Conns : Arrive(c)
        \/ Listener \/ AcceptError \/ ListenerEnds
        \/ \E w \in Workers : \/ WorkerSteps(w) \/ Exit(w)
                              \/ ReceiveNothing(w) \/ Crash(w)

Spec == Init /\ [][Next]_vars

\* The listener and the started workers keep running, and the postmaster
\* starts what is registered; no client has to come, no process has to fail.
FairSpec == /\ Spec /\ WF_vars(Listener)
            /\ \A w \in Workers : WF_vars(WorkerSteps(w))
----------------------------------------------------------------------------
(* Properties *)

\* Every variable keeps its type.
TypeOK ==
    /\ backlog \in Seq(Conns) /\ lost \subseteq Conns
    /\ accepted \in Seq(Conns)
    /\ pc \in Places
    /\ tdsPeer \in Conns \cup {NoConn} /\ ipcPeer \in Workers \cup {NoWorker}
    /\ fds \in 0..MaxFds
    /\ worker \in [Workers -> WorkerStates]
    /\ meant \in [Workers -> Conns \cup {NoConn}]
    /\ ipcBacklog \in Seq(Workers)
    /\ sent \in [Workers -> Conns \cup {NoConn}]

\* The listener implements Dispatch: it sends each connection at most once,
\* the one it has accepted last, to a worker that was sent none before.
D == INSTANCE Dispatch WITH taken <- accepted, owns <- sent

HandsOver == D!Spec

\* Although nothing in the messages says which worker is which, a worker is
\* only ever sent the connection it was registered for: the listener waits for
\* one worker for every connection it accepts.
OwnWorker == \A w \in Workers : sent[w] # NoConn => sent[w] = meant[w]

\* A worker serves a socket it was sent; one that runs on a number it was not
\* sent exists only when the listener has ended.
RunsOnItsSocket ==
    \A w \in Workers :
        /\ worker[w] = "running" => sent[w] \in Members(accepted)
        /\ worker[w] = "stray" => pc = "ended"

\* The listener waits for a worker and there is none that could connect: none
\* could be registered, or it ended before it connected.
Wedged ==
    /\ pc = "ipcaccept" /\ fds < MaxFds /\ ipcBacklog = << >>
    /\ \A w \in Workers : worker[w] \notin {"registered", "starting"}

\* A listener that waits for a worker that will not come does so for good,
\* even when workers end and slots are free again.
WedgedForGood == [][Wedged => Wedged' \/ pc' = "ended"]_vars

\* It has run out of descriptors; it never gives one back.
Exhausted == fds = MaxFds

\* A connection that has arrived is served by the worker registered for it,
\* unless accept failed on it, the worker ended first, or the listener has
\* ended, is wedged or has run out of descriptors.
Served ==
    \A c \in Conns :
        c \in Members(backlog) ~>
            \/ \E w \in Workers :
                  meant[w] = c /\ worker[w] \in {"running", "gone"}
            \/ c \in lost
            \/ pc = "ended" \/ Wedged \/ Exhausted

\* README.md:43 says that the listener "listens on port 1433 ... for TDS
\* connections from an MSSQL client": while it runs and no process or accept
\* fails, a client that connects is accepted.
Undisturbed == /\ pc # "ended" /\ lost = {} /\ ~Exhausted
               /\ \A w \in Workers : worker[w] # "gone"

Listens ==
    \A c \in Conns :
        c \in Members(backlog) ~> c \notin Members(backlog) \/ ~Undisturbed
=============================================================================
