--------------------------- MODULE BgHandoffProofs --------------------------
(***************************************************************************)
(* Theorems about BgHandoff, for any number of clients, workers, slots and *)
(* descriptors.                                                            *)
(***************************************************************************)
EXTENDS BgHandoff, TLAPS

Distinct(s) == \A i, j \in 1..Len(s) : s[i] = s[j] => i = j

\* A connection is in the queue of port 1433 or accepted, once; a worker is
\* only sent an accepted one.
Connections ==
    /\ Distinct(backlog)
    /\ Members(backlog) \cap Members(accepted) = {}
    /\ Distinct(accepted)
    /\ \A w \in Workers : sent[w] \in Members(accepted) \cup {NoConn}

\* The connection in the listener's hands is the last one accepted and was
\* sent to nobody.
InHand ==
    tdsPeer # NoConn =>
        /\ pc \in {"register", "ipcaccept", "send"}
        /\ accepted # << >> /\ tdsPeer = accepted[Len(accepted)]
        /\ \A w \in Workers : sent[w] # tdsPeer

\* A worker is in the IPC queue once, after it has connected, and is sent
\* nothing before the listener has taken it from there.
Queue ==
    /\ Distinct(ipcBacklog)
    /\ \A w \in Members(ipcBacklog) : sent[w] = NoConn /\ w # ipcPeer
    /\ ipcPeer # NoWorker => sent[ipcPeer] = NoConn
    /\ \A w \in Workers :
          worker[w] \in {"none", "registered", "starting"} =>
              sent[w] = NoConn /\ w \notin Members(ipcBacklog) \cup {ipcPeer}

\* The workers the listener has not taken from the IPC queue yet.
Pending(w) == \/ worker[w] \in {"registered", "starting"}
              \/ w \in Members(ipcBacklog)

\* As long as descriptors are left, there is no such worker when the listener
\* takes the next connection, and while it waits for a worker at most one, the
\* one that is meant for that connection.
LockStep ==
    /\ fds < MaxFds =>
          /\ pc \in {"accept", "register", "send"} =>
                \A w \in Workers : ~Pending(w)
          /\ pc = "ipcaccept" =>
                \A w \in Workers : Pending(w) =>
                    /\ meant[w] = tdsPeer
                    /\ \A v \in Workers : Pending(v) => v = w
    /\ pc = "send" /\ ipcPeer # NoWorker => meant[ipcPeer] = tdsPeer

Serving ==
    \A w \in Workers :
        /\ worker[w] = "running" => sent[w] # NoConn
        /\ worker[w] = "stray" => pc = "ended"

\* The inductive invariant.
IInv == /\ TypeOK /\ Connections /\ InHand /\ Queue /\ LockStep /\ OwnWorker
        /\ Serving

----------------------------------------------------------------------------
\* What appending to a queue does to its members.
LEMMA AppendMembers ==
    ASSUME NEW S, NEW s \in Seq(S), NEW x \in S
    PROVE  /\ Append(s, x) \in Seq(S)
           /\ Members(Append(s, x)) = Members(s) \cup {x}
           /\ Distinct(s) /\ x \notin Members(s) => Distinct(Append(s, x))
           /\ Append(s, x) # << >>
           /\ Append(s, x)[Len(Append(s, x))] = x
<1> DEFINE t == Append(s, x)
<1>1. /\ t \in Seq(S) /\ Len(t) = Len(s) + 1 /\ Len(s) \in Nat
      /\ t[Len(s) + 1] = x /\ \A i \in 1..Len(s) : t[i] = s[i]
  OBVIOUS
<1> HIDE DEF t
<1>2. t # << >>
  BY <1>1
<1>3. Members(t) = Members(s) \cup {x}
  BY <1>1 DEF Members
<1>4. Distinct(s) /\ x \notin Members(s) => Distinct(t)
  BY <1>1 DEF Members, Distinct
<1> QED BY <1>1, <1>2, <1>3, <1>4 DEF t

\* What taking the head off a queue does to its members.
LEMMA TailMembers ==
    ASSUME NEW S, NEW s \in Seq(S), s # << >>
    PROVE  /\ Head(s) \in S /\ Tail(s) \in Seq(S)
           /\ Members(s) = Members(Tail(s)) \cup {Head(s)}
           /\ Distinct(s) => Distinct(Tail(s)) /\ Head(s) \notin Members(Tail(s))
<1> DEFINE t == Tail(s)
<1>1. /\ t \in Seq(S) /\ Head(s) = s[1] /\ Head(s) \in S
      /\ Len(s) \in Nat \ {0} /\ Len(t) = Len(s) - 1
      /\ \A i \in 1..Len(t) : t[i] = s[i + 1]
  OBVIOUS
<1> HIDE DEF t
<1>2. ASSUME NEW i \in 1..Len(s)
      PROVE  i = 1 \/ (i - 1 \in 1..Len(t) /\ s[i] = t[i - 1])
  BY <1>1
<1>3. \A i \in 1..Len(t) : i + 1 \in 1..Len(s) /\ i + 1 # 1
  BY <1>1
<1>4. Members(s) = Members(t) \cup {Head(s)}
  BY <1>1, <1>2, <1>3 DEF Members
<1>5. ASSUME Distinct(s)
      PROVE  Distinct(t) /\ Head(s) \notin Members(t)
  BY <1>1, <1>3, <1>5 DEF Members, Distinct
<1> QED BY <1>1, <1>4, <1>5 DEF t

\* The accepted connections are connections.
LEMMA MembersIn ==
    ASSUME NEW S, NEW s \in Seq(S)
    PROVE  Members(s) \subseteq S /\ (s # << >> => s[Len(s)] \in Members(s))
BY DEF Members

----------------------------------------------------------------------------
LEMMA InitIInv == Init => IInv
<1> SUFFICES ASSUME Init PROVE IInv
  OBVIOUS
<1>1. Members(<< >>) = {} /\ Distinct(<< >>)
  BY DEF Members, Distinct
<1>2. TypeOK
  BY HandoffAssumption DEF Init, TypeOK, Places, WorkerStates
<1>3. \A w \in Workers : worker[w] = "none" /\ sent[w] = NoConn
  BY DEF Init
<1>4. Connections /\ InHand /\ OwnWorker /\ Serving
  BY <1>1, <1>3 DEF Init, Connections, InHand, OwnWorker, Serving
<1>5. Queue /\ LockStep
  BY <1>1, <1>3, HandoffAssumption DEF Init, Queue, LockStep, Pending
<1> QED BY <1>2, <1>4, <1>5 DEF IInv

\* Every variable keeps its type.
LEMMA TypeStep ==
    ASSUME TypeOK, [Next]_vars
    PROVE  TypeOK'
<1> USE DEF TypeOK, vars, clientVars, listenerVars
<1>1. ASSUME NEW c \in Conns, Arrive(c)
      PROVE  TypeOK'
  BY <1>1 DEF Arrive
<1>2. CASE AcceptConn \/ AcceptError
  <2>1. backlog # << >> /\ fds + 1 \in 0..MaxFds
    BY <1>2, HandoffAssumption DEF AcceptConn, AcceptError
  <2>2. Head(backlog) \in Conns /\ Tail(backlog) \in Seq(Conns)
    BY <2>1, TailMembers
  <2>3. Append(accepted, Head(backlog)) \in Seq(Conns)
    BY <2>2
  <2>4. CASE AcceptConn
    BY <2>1, <2>2, <2>3, <2>4 DEF AcceptConn, Places
  <2>5. CASE AcceptError
    BY <2>2, <2>5 DEF AcceptError, Places
  <2> QED BY <1>2, <2>4, <2>5
<1>3. CASE AcceptNoFd \/ IpcAcceptNoFd \/ Send \/ ListenerEnds
  BY <1>3 DEF AcceptNoFd, IpcAcceptNoFd, Send, ListenerEnds, Places
<1>4. CASE Register
  <2>1. /\ pc' \in Places
        /\ UNCHANGED <<backlog, lost, accepted, tdsPeer, ipcPeer, fds,
                       ipcBacklog, sent>>
    BY <1>4 DEF Register, Places
  <2>2. worker' \in [Workers -> WorkerStates]
    BY <1>4 DEF Register, WorkerStates
  <2>3. meant' \in [Workers -> Conns \cup {NoConn}]
    BY <1>4 DEF Register
  <2> QED BY <2>1, <2>2, <2>3
<1>5. CASE IpcAccept
  <2>1. ipcBacklog # << >> /\ fds + 1 \in 0..MaxFds
    BY <1>5, HandoffAssumption DEF IpcAccept
  <2> QED BY <1>5, <2>1, TailMembers DEF IpcAccept, Places
<1>6. ASSUME NEW w \in Workers,
             WorkerSteps(w) \/ Exit(w) \/ ReceiveNothing(w) \/ Crash(w)
      PROVE  TypeOK'
  <2>1. CASE WorkerSteps(w)
    <3>1. CASE Start(w) \/ Receive(w)
      BY <3>1 DEF Start, Receive, Move, WorkerStates
    <3>2. CASE Connect(w)
      <4>1. Append(ipcBacklog, w) \in Seq(Workers)
        OBVIOUS
      <4> QED BY <3>2, <4>1 DEF Connect, Move, WorkerStates
    <3> QED BY <2>1, <3>1, <3>2 DEF WorkerSteps
  <2>2. CASE Exit(w) \/ ReceiveNothing(w)
    BY <2>2 DEF Exit, ReceiveNothing, Move, WorkerStates
  <2>3. CASE Crash(w)
    BY <2>3 DEF Crash, WorkerStates
  <2> QED BY <1>6, <2>1, <2>2, <2>3
<1>7. CASE UNCHANGED vars
  BY <1>7
<1> QED BY <1>1, <1>2, <1>3, <1>4, <1>5, <1>6, <1>7 DEF Next, Listener

\* What the steps of a worker do to the rest: nothing but Connect touches a
\* queue, and no worker becomes a young one again.
LEMMA WorkerEffects ==
    ASSUME TypeOK, NEW w \in Workers,
           WorkerSteps(w) \/ Exit(w) \/ ReceiveNothing(w) \/ Crash(w)
    PROVE  /\ UNCHANGED <<backlog, lost, accepted, pc, tdsPeer, ipcPeer, fds,
                          meant, sent>>
           /\ \A v \in Workers :
                 /\ worker[v] = "none" <=> worker'[v] = "none"
                 /\ worker'[v] = "registered" => worker[v] = "registered"
                 /\ worker'[v] = "starting" =>
                       worker[v] \in {"registered", "starting"}
                 /\ worker'[v] = "running" =>
                       worker[v] = "running" \/ sent[v] # NoConn
                 /\ worker'[v] = "stray" => worker[v] = "stray" \/ pc = "ended"
           /\ \/ ipcBacklog' = ipcBacklog
              \/ /\ worker[w] = "starting" /\ worker'[w] = "connected"
                 /\ ipcBacklog' = Append(ipcBacklog, w)
<1> USE DEF TypeOK, clientVars, listenerVars
<1>1. CASE Start(w)
  BY <1>1 DEF Start, Move
<1>2. CASE Connect(w)
  BY <1>2 DEF Connect, Move
<1>3. CASE Receive(w)
  BY <1>3 DEF Receive, Move
<1>4. CASE Exit(w)
  BY <1>4 DEF Exit
<1>5. CASE ReceiveNothing(w)
  BY <1>5 DEF ReceiveNothing, Move
<1>6. CASE Crash(w)
  BY <1>6 DEF Crash
<1> QED BY <1>1, <1>2, <1>3, <1>4, <1>5, <1>6 DEF WorkerSteps

LEMMA ConnectionsStep ==
    ASSUME TypeOK, Connections, InHand, [Next]_vars
    PROVE  Connections' /\ InHand'
<1> USE DEF Connections, InHand
<1>1. /\ backlog \in Seq(Conns) /\ accepted \in Seq(Conns)
      /\ Members(backlog) \subseteq Conns /\ Members(accepted) \subseteq Conns
      /\ sent \in [Workers -> Conns \cup {NoConn}]
  BY MembersIn DEF TypeOK
<1>2. ASSUME NEW c \in Conns, Arrive(c)
      PROVE  Connections' /\ InHand'
  <2>1. /\ backlog' = Append(backlog, c)
        /\ c \notin Members(backlog) \cup Members(accepted)
        /\ UNCHANGED <<accepted, pc, tdsPeer, sent>>
    BY <1>2 DEF Arrive, listenerVars
  <2>2. /\ Members(backlog') = Members(backlog) \cup {c}
        /\ Distinct(backlog')
    BY <1>1, <2>1, AppendMembers
  <2> QED BY <2>1, <2>2
<1>3. CASE AcceptConn
  <2> DEFINE c == Head(backlog)
  <2>1. /\ backlog # << >> /\ backlog' = Tail(backlog)
        /\ accepted' = Append(accepted, c) /\ tdsPeer' = c
        /\ pc' = "register" /\ sent' = sent
    BY <1>3 DEF AcceptConn
  <2>2. /\ c \in Conns /\ Members(backlog) = Members(backlog') \cup {c}
        /\ Distinct(backlog') /\ c \notin Members(backlog')
    BY <1>1, <2>1, TailMembers
  <2>3. c \notin Members(accepted)
    BY <2>2
  <2>4. /\ Members(accepted') = Members(accepted) \cup {c}
        /\ Distinct(accepted') /\ accepted' # << >>
        /\ accepted'[Len(accepted')] = c
    BY <1>1, <2>1, <2>2, <2>3, AppendMembers
  <2>5. c # NoConn
    BY <2>2, HandoffAssumption
  <2> HIDE DEF c
  <2> QED BY <2>1, <2>2, <2>3, <2>4, <2>5
<1>4. CASE AcceptError
  <2>1. /\ backlog # << >> /\ backlog' = Tail(backlog) /\ tdsPeer' = NoConn
        /\ UNCHANGED <<accepted, sent>>
    BY <1>4 DEF AcceptError
  <2>2. /\ Members(backlog) = Members(backlog') \cup {Head(backlog)}
        /\ Distinct(backlog')
    BY <1>1, <2>1, TailMembers
  <2> QED BY <2>1, <2>2
<1>5. CASE Register \/ IpcAccept \/ IpcAcceptNoFd \/ AcceptNoFd \/ ListenerEnds
  <2>1. /\ UNCHANGED <<backlog, accepted, sent>>
        /\ \/ tdsPeer' = NoConn
           \/ tdsPeer' = tdsPeer /\ pc' \in {"ipcaccept", "send"}
    BY <1>5 DEF Register, IpcAccept, IpcAcceptNoFd, AcceptNoFd, ListenerEnds,
                clientVars
  <2> QED BY <2>1
<1>6. CASE Send
  <2>1. /\ UNCHANGED <<backlog, accepted>> /\ tdsPeer' = NoConn
        /\ sent' = sent \/ (tdsPeer # NoConn
                             /\ sent' = [sent EXCEPT ![ipcPeer] = tdsPeer])
    BY <1>6 DEF Send, CanSend, clientVars
  <2>2. tdsPeer # NoConn => tdsPeer \in Members(accepted)
    BY <1>1, MembersIn
  <2> QED BY <1>1, <2>1, <2>2
<1>7. ASSUME NEW w \in Workers,
             WorkerSteps(w) \/ Exit(w) \/ ReceiveNothing(w) \/ Crash(w)
      PROVE  Connections' /\ InHand'
  BY <1>7, WorkerEffects
<1>8. CASE UNCHANGED vars
  BY <1>8 DEF vars, clientVars, listenerVars
<1> QED BY <1>2, <1>3, <1>4, <1>5, <1>6, <1>7, <1>8 DEF Next, Listener

LEMMA QueueStep ==
    ASSUME TypeOK, Queue, [Next]_vars
    PROVE  Queue'
<1> USE DEF Queue
<1>1. /\ ipcBacklog \in Seq(Workers) /\ Members(ipcBacklog) \subseteq Workers
      /\ sent \in [Workers -> Conns \cup {NoConn}]
      /\ worker \in [Workers -> WorkerStates]
      /\ NoWorker \notin Workers
  BY MembersIn, HandoffAssumption DEF TypeOK
<1>2. CASE \/ \E c \in Conns : Arrive(c)
           \/ AcceptConn \/ AcceptError \/ AcceptNoFd \/ IpcAcceptNoFd
           \/ ListenerEnds
  <2>1. /\ UNCHANGED <<ipcBacklog, sent, worker>>
        /\ ipcPeer' \in {ipcPeer, NoWorker}
    BY <1>2 DEF Arrive, AcceptConn, AcceptError, AcceptNoFd, IpcAcceptNoFd,
                ListenerEnds, listenerVars
  <2> QED BY <1>1, <2>1
<1>3. CASE Register
  <2>1. /\ UNCHANGED <<ipcBacklog, sent, ipcPeer>>
        /\ \A w \in Workers :
              worker'[w] = worker[w] \/ worker[w] = "none"
    BY <1>1, <1>3 DEF Register
  <2> QED BY <1>1, <2>1
<1>4. CASE IpcAccept
  <2>1. /\ ipcBacklog # << >> /\ ipcBacklog' = Tail(ipcBacklog)
        /\ ipcPeer' = Head(ipcBacklog) /\ UNCHANGED <<sent, worker>>
    BY <1>4 DEF IpcAccept
  <2>2. /\ Members(ipcBacklog) = Members(ipcBacklog') \cup {ipcPeer'}
        /\ Distinct(ipcBacklog') /\ ipcPeer' \notin Members(ipcBacklog')
    BY <1>1, <2>1, TailMembers
  <2> QED BY <1>1, <2>1, <2>2
<1>5. CASE Send
  <2>1. /\ UNCHANGED <<ipcBacklog, worker>> /\ ipcPeer' = NoWorker
        /\ sent' = sent \/ (ipcPeer # NoWorker
                             /\ sent' = [sent EXCEPT ![ipcPeer] = tdsPeer])
    BY <1>5 DEF Send, CanSend
  <2> QED BY <1>1, <2>1
<1>6. ASSUME NEW w \in Workers,
             WorkerSteps(w) \/ Exit(w) \/ ReceiveNothing(w) \/ Crash(w)
      PROVE  Queue'
  <2>1. /\ UNCHANGED <<sent, ipcPeer>>
        /\ \A v \in Workers :
              worker'[v] \in {"none", "registered", "starting"} =>
                  worker[v] \in {"none", "registered", "starting"}
    BY <1>6, WorkerEffects
  <2>2. CASE ipcBacklog' = ipcBacklog
    BY <1>1, <2>1, <2>2
  <2>3. CASE /\ worker[w] = "starting" /\ worker'[w] = "connected"
             /\ ipcBacklog' = Append(ipcBacklog, w)
    <3>1. /\ Members(ipcBacklog') = Members(ipcBacklog) \cup {w}
          /\ Distinct(ipcBacklog')
      BY <1>1, <2>3, AppendMembers
    <3> QED BY <1>1, <2>1, <2>3, <3>1
  <2> QED BY <1>6, <2>2, <2>3, WorkerEffects
<1>7. CASE UNCHANGED vars
  BY <1>7 DEF vars, clientVars, listenerVars
<1> QED BY <1>2, <1>3, <1>4, <1>5, <1>6, <1>7 DEF Next, Listener

LEMMA LockStepStep ==
    ASSUME TypeOK, Queue, LockStep, [Next]_vars
    PROVE  LockStep'
<1> USE DEF LockStep, Pending
<1>1. /\ ipcBacklog \in Seq(Workers) /\ Members(ipcBacklog) \subseteq Workers
      /\ worker \in [Workers -> WorkerStates]
      /\ meant \in [Workers -> Conns \cup {NoConn}]
      /\ fds \in 0..MaxFds /\ MaxFds \in Nat /\ NoWorker \notin Workers
      /\ ipcPeer \in Workers \cup {NoWorker}
  BY MembersIn, HandoffAssumption DEF TypeOK
<1>2. CASE \/ \E c \in Conns : Arrive(c)
           \/ ListenerEnds
  BY <1>2 DEF Arrive, ListenerEnds, listenerVars
<1>3. CASE AcceptConn \/ AcceptError \/ AcceptNoFd
  <2>1. /\ UNCHANGED <<worker, meant, ipcBacklog, ipcPeer>>
        /\ pc = "accept" /\ pc' = "register" /\ fds' \in {fds, fds + 1}
    BY <1>3 DEF AcceptConn, AcceptError, AcceptNoFd
  <2> QED BY <1>1, <2>1
<1>4. CASE Register
  <2>1. /\ UNCHANGED <<ipcBacklog, ipcPeer, tdsPeer, fds>>
        /\ pc = "register" /\ pc' = "ipcaccept"
    BY <1>4 DEF Register
  <2>2. ASSUME NEW w \in Workers, worker[w] = "none",
               worker' = [worker EXCEPT ![w] = "registered"],
               meant' = [meant EXCEPT ![w] = tdsPeer]
        PROVE  LockStep'
    <3>1. meant'[w] = tdsPeer
      BY <1>1, <2>2
    <3>2. \A v \in Workers : v # w => worker'[v] = worker[v]
      BY <1>1, <2>2
    <3> QED BY <1>1, <2>1, <3>1, <3>2
  <2>3. CASE UNCHANGED <<worker, meant>>
    BY <1>1, <2>1, <2>3
  <2> QED BY <1>4, <2>2, <2>3 DEF Register
<1>5. CASE IpcAccept
  <2> DEFINE w == Head(ipcBacklog)
  <2>1. /\ ipcBacklog # << >> /\ ipcBacklog' = Tail(ipcBacklog)
        /\ ipcPeer' = w /\ UNCHANGED <<worker, meant, tdsPeer>>
        /\ pc = "ipcaccept" /\ pc' = "send"
        /\ fds < MaxFds /\ fds' = fds + 1
    BY <1>5 DEF IpcAccept
  <2>2. /\ w \in Workers
        /\ Members(ipcBacklog) = Members(ipcBacklog') \cup {w}
        /\ w \notin Members(ipcBacklog')
    BY <1>1, <2>1, TailMembers DEF Queue
  <2> HIDE DEF w
  <2>3. /\ meant[w] = tdsPeer
        /\ \A v \in Workers : Pending(v) => v = w
    BY <1>1, <2>1, <2>2
  <2>4. worker[w] \notin {"registered", "starting"}
    BY <2>2 DEF Queue
  <2>5. \A v \in Workers : ~Pending(v)'
    BY <2>1, <2>2, <2>3, <2>4
  <2> QED BY <2>1, <2>3, <2>5
<1>6. CASE IpcAcceptNoFd
  BY <1>1, <1>6 DEF IpcAcceptNoFd
<1>7. CASE Send
  <2>1. /\ UNCHANGED <<worker, meant, ipcBacklog, fds>>
        /\ pc = "send" /\ pc' = "accept"
    BY <1>7 DEF Send, clientVars
  <2> QED BY <1>1, <2>1
<1>8. ASSUME NEW w \in Workers,
             WorkerSteps(w) \/ Exit(w) \/ ReceiveNothing(w) \/ Crash(w)
      PROVE  LockStep'
  <2>1. /\ UNCHANGED <<pc, tdsPeer, ipcPeer, fds, meant>>
        /\ \A v \in Workers :
              worker'[v] \in {"registered", "starting"} =>
                  worker[v] \in {"registered", "starting"}
    BY <1>8, WorkerEffects
  <2>2. \A v \in Workers : Pending(v)' => Pending(v)
    <3>1. CASE ipcBacklog' = ipcBacklog
      BY <2>1, <3>1
    <3>2. CASE worker[w] = "starting" /\ ipcBacklog' = Append(ipcBacklog, w)
      <4>1. Members(ipcBacklog') = Members(ipcBacklog) \cup {w}
        BY <1>1, <3>2, AppendMembers
      <4> QED BY <2>1, <3>2, <4>1
    <3> QED BY <1>8, <3>1, <3>2, WorkerEffects
  <2> HIDE DEF Pending
  <2> QED BY <2>1, <2>2
<1>9. CASE UNCHANGED vars
  BY <1>9 DEF vars, clientVars, listenerVars
<1> QED BY <1>2, <1>3, <1>4, <1>5, <1>6, <1>7, <1>8, <1>9 DEF Next, Listener

LEMMA ServiceStep ==
    ASSUME TypeOK, Queue, LockStep, OwnWorker, Serving, [Next]_vars
    PROVE  OwnWorker' /\ Serving'
<1> USE DEF OwnWorker, Serving
<1>1. /\ sent \in [Workers -> Conns \cup {NoConn}]
      /\ meant \in [Workers -> Conns \cup {NoConn}]
      /\ worker \in [Workers -> WorkerStates]
      /\ tdsPeer \in Conns \cup {NoConn} /\ NoConn \notin Conns
  BY HandoffAssumption DEF TypeOK
<1>2. CASE \/ \E c \in Conns : Arrive(c)
           \/ AcceptConn \/ AcceptError \/ AcceptNoFd
           \/ IpcAccept \/ IpcAcceptNoFd \/ ListenerEnds
  <2>1. UNCHANGED <<worker, meant, sent>> /\ pc # "ended"
    BY <1>2 DEF Arrive, AcceptConn, AcceptError, AcceptNoFd, IpcAccept,
                IpcAcceptNoFd, ListenerEnds
  <2> QED BY <1>1, <2>1
<1>3. CASE Register
  <2>1. UNCHANGED sent /\ pc = "register"
    BY <1>3 DEF Register
  <2>2. ASSUME NEW w \in Workers, worker[w] = "none",
               worker' = [worker EXCEPT ![w] = "registered"],
               meant' = [meant EXCEPT ![w] = tdsPeer]
        PROVE  OwnWorker' /\ Serving'
    <3>1. sent[w] = NoConn
      BY <2>2 DEF Queue
    <3> QED BY <1>1, <2>1, <2>2, <3>1
  <2> QED BY <1>3, <2>1, <2>2 DEF Register
<1>4. CASE Send
  <2>1. UNCHANGED <<worker, meant>> /\ pc = "send"
    BY <1>4 DEF Send
  <2>2. CASE sent' = sent
    BY <2>1, <2>2
  <2>3. CASE CanSend /\ sent' = [sent EXCEPT ![ipcPeer] = tdsPeer]
    <3>1. meant[ipcPeer] = tdsPeer /\ tdsPeer # NoConn
      BY <2>1, <2>3 DEF LockStep, CanSend
    <3> QED BY <1>1, <2>1, <2>3, <3>1
  <2> QED BY <1>4, <2>2, <2>3 DEF Send
<1>5. ASSUME NEW w \in Workers,
             WorkerSteps(w) \/ Exit(w) \/ ReceiveNothing(w) \/ Crash(w)
      PROVE  OwnWorker' /\ Serving'
  BY <1>5, WorkerEffects
<1>6. CASE UNCHANGED vars
  BY <1>6 DEF vars, listenerVars
<1> QED BY <1>2, <1>3, <1>4, <1>5, <1>6 DEF Next, Listener

----------------------------------------------------------------------------
THEOREM Invariance == Spec => []IInv
<1>1. IInv /\ [Next]_vars => IInv'
  BY TypeStep, ConnectionsStep, QueueStep, LockStepStep, ServiceStep DEF IInv
<1> QED BY InitIInv, <1>1, PTL DEF Spec

\* Type correctness (TypeOK).
THEOREM TypeCorrect == Spec => []TypeOK
BY Invariance, PTL DEF IInv

\* A worker is only ever sent the connection it was registered for.
THEOREM OwnWorkerCorrect == Spec => []OwnWorker
BY Invariance, PTL DEF IInv

\* A worker in run() serves an accepted connection it was sent, unless the
\* listener has ended.
THEOREM RunsOnItsSocketCorrect == Spec => []RunsOnItsSocket
<1>1. IInv => RunsOnItsSocket
  BY DEF IInv, Connections, Serving, RunsOnItsSocket
<1> QED BY <1>1, Invariance, PTL

\* A listener that waits for a worker that will not come does so for good: a
\* worker in the queue has to be registered and started first, and only the
\* listener registers workers.
THEOREM WedgedForGoodCorrect == Spec => WedgedForGood
<1>1. ASSUME TypeOK, [Next]_vars
      PROVE  [Wedged => Wedged' \/ pc' = "ended"]_vars
  <2> SUFFICES ASSUME Wedged PROVE Wedged' \/ pc' = "ended"
    OBVIOUS
  <2> USE DEF Wedged
  <2>1. ~(\/ AcceptConn \/ AcceptError \/ AcceptNoFd \/ Register
          \/ IpcAccept \/ IpcAcceptNoFd \/ Send)
    BY <1>1 DEF AcceptConn, AcceptError, AcceptNoFd, Register, IpcAccept,
           IpcAcceptNoFd, Send, TypeOK
  <2>2. CASE (\E c \in Conns : Arrive(c)) \/ ListenerEnds
    BY <2>2 DEF Arrive, ListenerEnds, listenerVars
  <2>3. ASSUME NEW w \in Workers,
               WorkerSteps(w) \/ Exit(w) \/ ReceiveNothing(w) \/ Crash(w)
        PROVE  Wedged'
    BY <1>1, <2>3, WorkerEffects
  <2>4. CASE UNCHANGED vars
    BY <2>4 DEF vars, clientVars, listenerVars
  <2> QED BY <1>1, <2>1, <2>2, <2>3, <2>4 DEF Next, Listener
<1> QED BY <1>1, TypeCorrect, PTL DEF Spec, WedgedForGood

\* The listener implements Dispatch (HandsOver).
THEOREM HandsOverCorrect == Spec => HandsOver
<1> USE DEF D!Next, D!Take, D!Give
<1>1. Init => D!Init
  BY DEF Init, D!Init
<1>2. ASSUME IInv, [Next]_vars
      PROVE  [D!Next]_<<accepted, sent>>
  <2>1. CASE AcceptConn
    <3>1. /\ backlog # << >> /\ accepted' = Append(accepted, Head(backlog))
          /\ sent' = sent
      BY <2>1 DEF AcceptConn
    <3>2. Head(backlog) \in Conns /\ Head(backlog) \notin Members(accepted)
      BY <1>2, <3>1, TailMembers DEF IInv, TypeOK, Connections
    <3>3. D!Take(Head(backlog))
      BY <3>1, <3>2 DEF Members
    <3> QED BY <3>2, <3>3
  <2>2. CASE Send
    <3>1. accepted' = accepted
      BY <2>2 DEF Send, clientVars
    <3>2. CASE CanSend /\ sent' = [sent EXCEPT ![ipcPeer] = tdsPeer]
      <4>1. ipcPeer \in Workers /\ sent[ipcPeer] = NoConn
        BY <1>2, <3>2 DEF CanSend, IInv, TypeOK, Queue
      <4>2. /\ accepted # << >> /\ tdsPeer = accepted[Len(accepted)]
            /\ \A v \in Workers : sent[v] # tdsPeer
        BY <1>2, <3>2 DEF CanSend, IInv, InHand
      <4>3. D!Give(ipcPeer)
        BY <3>1, <3>2, <4>1, <4>2
      <4> QED BY <4>1, <4>3
    <3> QED BY <2>2, <3>1, <3>2 DEF Send
  <2>3. CASE \/ \E c \in Conns : Arrive(c)
             \/ AcceptError \/ AcceptNoFd \/ Register \/ IpcAccept
             \/ IpcAcceptNoFd \/ ListenerEnds \/ UNCHANGED vars
    BY <2>3 DEF Arrive, AcceptError, AcceptNoFd, Register, IpcAccept,
                IpcAcceptNoFd, ListenerEnds, vars, clientVars
  <2>4. ASSUME NEW w \in Workers,
               WorkerSteps(w) \/ Exit(w) \/ ReceiveNothing(w) \/ Crash(w)
        PROVE  UNCHANGED <<accepted, sent>>
    BY <1>2, <2>4, WorkerEffects DEF IInv
  <2> QED BY <1>2, <2>1, <2>2, <2>3, <2>4 DEF Next, Listener
<1> QED BY <1>1, <1>2, Invariance, PTL DEF Spec, HandsOver, D!Spec
=============================================================================
