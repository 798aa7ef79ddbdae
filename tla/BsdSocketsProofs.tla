-------------------------- MODULE BsdSocketsProofs --------------------------
(* Proofs about BsdSockets, for any clients, any number of connections and *)
(* any descriptor limit.                                                   *)
EXTENDS BsdSockets, FiniteSetTheorems, TLAPS

-----------------------------------------------------------------------------
(* The daemon, once something has failed.                                  *)

\* A daemon in which something failed has no listening socket, and one that is
\* down has not failed.
DeafInv ==
  /\ fd = [i \in Fds |-> fd[i]]
  /\ failed \in BOOLEAN
  /\ failed => fd[ListenFd] = Free
  /\ failed => pc # "down"

LEMMA FdFacts == ListenFd \in Fds /\ Free # Listener
BY FdLimitAssumption DEF Fds, ListenFd, Free, Listener

LEMMA DeafInit == Init => DeafInv
BY DEF Init, DeafInv

\* Closing both descriptors closes the listening socket, and opens none.
LEMMA CloseBothFacts ==
  ASSUME CloseBoth
  PROVE  fd' = [i \in Fds |-> fd'[i]] /\ fd'[ListenFd] = Free
<1>1. fd' = [i \in Fds |-> IF i \in {ListenFd, newsocket'} \cap Fds THEN Free ELSE fd[i]]
  BY DEF CloseBoth
<1>2. QED
  BY <1>1, FdFacts

LEMMA DaemonGoneFacts ==
  ASSUME DaemonGone
  PROVE  fd' = [i \in Fds |-> fd'[i]] /\ failed' = FALSE
BY DEF DaemonGone

\* What every step does to a daemon that failed.
StaysDeaf == failed /\ failed' => accepted' = accepted

LEMMA DeafServer == DeafInv /\ Server => DeafInv' /\ StaysDeaf
<1> SUFFICES ASSUME DeafInv, Server PROVE DeafInv' /\ StaysDeaf
  OBVIOUS
<1> USE DEF DeafInv, StaysDeaf
<1>1. CASE Bind
  BY <1>1, CloseBothFacts DEF Bind
<1>2. CASE Listen
  BY <1>2, CloseBothFacts DEF Listen
<1>3. CASE Accept
  <2>1. ~failed /\ failed' = failed
    BY <1>3, FdFacts DEF Accept
  <2>2. PICK i \in FreeFds : fd' = [fd EXCEPT ![i] = Head(queue)]
    BY <1>3 DEF Accept
  <2>3. fd' = [j \in Fds |-> fd'[j]]
    BY <2>2
  <2>4. QED
    BY <2>1, <2>3
<1>4. CASE AcceptFails
  <2>1. CASE DaemonGone
    BY <2>1, DaemonGoneFacts
  <2>2. CASE ~DaemonGone
    <3>1. CloseBoth /\ failed' = TRUE /\ pc' = "read" /\ accepted' = accepted
      BY <1>4, <2>2 DEF AcceptFails
    <3>2. QED
      BY <3>1, CloseBothFacts
  <2>3. QED
    BY <2>1, <2>2
<1>5. CASE Greet
  BY <1>5 DEF Greet
<1>6. CASE Read
  BY <1>6 DEF Read
<1>7. CASE ReadFails
  <2>1. CASE DaemonGone
    BY <2>1, DaemonGoneFacts
  <2>2. CASE ~DaemonGone
    <3>1. CloseBoth /\ failed' = TRUE /\ pc' = "accept" /\ accepted' = accepted
      BY <1>7, <2>2 DEF ReadFails
    <3>2. QED
      BY <3>1, CloseBothFacts
  <2>3. QED
    BY <2>1, <2>2
<1>8. QED
  BY <1>1, <1>2, <1>3, <1>4, <1>5, <1>6, <1>7 DEF Server

LEMMA DeafNext == DeafInv /\ [Next]_vars => DeafInv' /\ StaysDeaf
<1> SUFFICES ASSUME DeafInv, [Next]_vars PROVE DeafInv' /\ StaysDeaf
  OBVIOUS
<1>1. CASE UNCHANGED daemonVars
  BY <1>1 DEF DeafInv, StaysDeaf, daemonVars
<1>2. CASE Start
  BY <1>2 DEF DeafInv, StaysDeaf, Start, AfterDaemonize
<1>3. CASE Kill
  BY <1>3, DaemonGoneFacts DEF DeafInv, StaysDeaf, Kill
<1>4. ASSUME NEW c \in Clients, Client(c) PROVE UNCHANGED daemonVars
  BY <1>4, Zenon DEF Client, GetMainClient, Close, Connect, Reconnect, ConnectFrom,
     Write, ReadBegin, ReadEnd, daemonVars
<1>5. UNCHANGED vars => UNCHANGED daemonVars
  BY DEF vars
<1>6. QED
  BY <1>1, <1>2, <1>3, <1>4, <1>5, DeafServer DEF Next

\* After one failed accept or read, nobody is accepted until the daemon is
\* started again.
THEOREM FailedDaemonStaysDeaf == Spec => FailureIsForGood
<1>1. DeafInv' => (failed' => fd'[ListenFd] = Free)
  BY DEF DeafInv
<1>2. DeafInv /\ [Next]_vars =>
        (failed /\ failed' => accepted' = accepted /\ fd'[ListenFd] = Free)
  BY <1>1, DeafNext DEF StaysDeaf
<1>3. QED
  BY <1>2, DeafInit, DeafNext, PTL DEF Spec, FailureIsForGood

-----------------------------------------------------------------------------
(* The clients' connections.                                               *)

\* An open connection is in one client's socket, a connection in a client's
\* socket is open, and the kernel has not made it yet while it is free.
HeldInv ==
  /\ sock = [c \in Clients |-> sock[c]]
  /\ end = [k \in Conns |-> end[k]]
  /\ srv = [k \in Conns |-> srv[k]]
  /\ \A c \in Clients : sock[c] \in Conns => end[sock[c]] = "open"
  /\ \A c, d \in Clients : sock[c] \in Conns /\ sock[d] = sock[c] => d = c
  /\ \A k \in Conns : end[k] = "open" => \E c \in Clients : sock[c] = k
  /\ \A k \in Conns : srv[k] = "free" => end[k] # "open"

LEMMA SocketFacts ==
  NoSocket \notin Conns /\ FailedSocket \notin Conns /\ OpenSocket \notin Conns
  /\ OpenSocket # NoSocket
BY MaxConnsAssumption DEF Conns, NoSocket, FailedSocket, OpenSocket

LEMMA HeldInit == Init => HeldInv
BY SocketFacts DEF Init, HeldInv

LEMMA AfterCloseFacts ==
  ASSUME NEW s
  PROVE  /\ AfterClose(s) = [k \in Conns |-> AfterClose(s)[k]]
         /\ \A k \in Conns : k # s => AfterClose(s)[k] = end[k]
         /\ \A k \in Conns : k = s => AfterClose(s)[k] # "open"
BY DEF AfterClose

\* A step of c that makes no connection: its socket keeps what it has, or gives
\* it up and closes it.
LEMMA HeldMove ==
  ASSUME HeldInv, NEW c \in Clients, NEW t,
         sock' = [sock EXCEPT ![c] = t],
         srv' = srv,
         \/ t \notin Conns /\ end' = AfterClose(sock[c])
         \/ t \notin Conns /\ sock[c] \notin Conns /\ end' = end
         \/ t = sock[c] /\ end' = end
  PROVE  HeldInv'
<1> USE DEF HeldInv
<1>1. sock'[c] = t /\ \A d \in Clients : d # c => sock'[d] = sock[d]
  OBVIOUS
<1>2. sock' = [d \in Clients |-> sock'[d]] /\ srv' = [k \in Conns |-> srv'[k]]
  OBVIOUS
<1>3. CASE t \notin Conns /\ end' = AfterClose(sock[c])
  <2>1. /\ end' = [k \in Conns |-> end'[k]]
        /\ \A k \in Conns : k # sock[c] => end'[k] = end[k]
        /\ \A k \in Conns : k = sock[c] => end'[k] # "open"
    BY <1>3, AfterCloseFacts
  <2>2. \A d \in Clients : sock'[d] \in Conns => end'[sock'[d]] = "open"
    BY <1>1, <1>3, <2>1
  <2>3. \A d, e \in Clients : sock'[d] \in Conns /\ sock'[e] = sock'[d] => e = d
    BY <1>1, <1>3
  <2>4. \A k \in Conns : end'[k] = "open" => \E d \in Clients : sock'[d] = k
    BY <1>1, <2>1
  <2>5. \A k \in Conns : srv'[k] = "free" => end'[k] # "open"
    BY <2>1
  <2>6. QED
    BY <1>2, <2>1, <2>2, <2>3, <2>4, <2>5
<1>4. CASE t \notin Conns /\ sock[c] \notin Conns /\ end' = end
  BY <1>1, <1>2, <1>4
<1>5. CASE t = sock[c] /\ end' = end
  BY <1>1, <1>2, <1>5
<1>6. QED
  BY <1>3, <1>4, <1>5

\* A step of c, without a connection or giving it up, that makes connection k.
LEMMA HeldConnect ==
  ASSUME HeldInv, NEW c \in Clients, NEW k \in Conns, NEW before,
         srv[k] = "free",
         sock' = [sock EXCEPT ![c] = k],
         srv' = [srv EXCEPT ![k] = "queued"],
         end' = [before EXCEPT ![k] = "open"],
         \/ before = AfterClose(sock[c])
         \/ before = end /\ sock[c] \notin Conns
  PROVE  HeldInv'
<1> USE DEF HeldInv
<1>1. sock'[c] = k /\ \A d \in Clients : d # c => sock'[d] = sock[d]
  OBVIOUS
<1>2. sock' = [d \in Clients |-> sock'[d]]
  OBVIOUS
<1>3. /\ srv' = [j \in Conns |-> srv'[j]] /\ srv'[k] = "queued"
      /\ \A j \in Conns : j # k => srv'[j] = srv[j]
  OBVIOUS
<1>4. before = [j \in Conns |-> before[j]]
  BY AfterCloseFacts
<1>5. \A j \in Conns : before[j] = "open" <=> end[j] = "open" /\ j # sock[c]
  <2>1. CASE before = AfterClose(sock[c])
    <3> TAKE j \in Conns
    <3>1. j # sock[c] => before[j] = end[j]
      BY <2>1, AfterCloseFacts
    <3>2. j = sock[c] => before[j] # "open"
      BY <2>1, AfterCloseFacts
    <3>3. QED
      BY <3>1, <3>2
  <2>2. CASE before = end /\ sock[c] \notin Conns
    BY <2>2
  <2>3. QED
    BY <2>1, <2>2
<1>6. /\ end' = [j \in Conns |-> end'[j]] /\ end'[k] = "open"
      /\ \A j \in Conns : j # k => end'[j] = before[j]
  BY <1>4
<1>7. \A d \in Clients : sock[d] # k
  OBVIOUS
<1>8. \A d \in Clients : sock'[d] \in Conns => end'[sock'[d]] = "open"
  BY <1>1, <1>5, <1>6, <1>7
<1>9. \A d, e \in Clients : sock'[d] \in Conns /\ sock'[e] = sock'[d] => e = d
  BY <1>1, <1>7
<1>10. \A j \in Conns : end'[j] = "open" => \E d \in Clients : sock'[d] = j
  BY <1>1, <1>5, <1>6
<1>11. \A j \in Conns : srv'[j] = "free" => end'[j] # "open"
  BY <1>3, <1>5, <1>6
<1>12. QED
  BY <1>2, <1>3, <1>6, <1>8, <1>9, <1>10, <1>11

LEMMA HeldConnectFrom ==
  ASSUME HeldInv, NEW c \in Clients, NEW s \in {sock[c], NoSocket}, ConnectFrom(c, s)
  PROVE  HeldInv'
<1> DEFINE before == IF s = sock[c] THEN end ELSE AfterClose(sock[c])
<1>1. PICK t \in Created(s) :
        \/ /\ sock' = [sock EXCEPT ![c] = t]
           /\ end' = before
           /\ UNCHANGED <<srv, queue>>
        \/ /\ sock' = [sock EXCEPT ![c] = NoSocket]
           /\ end' = IF t \in Conns THEN AfterClose(t) ELSE before
           /\ UNCHANGED <<srv, queue>>
        \/ /\ t = OpenSocket
           /\ \E k \in Conns :
                /\ srv[k] = "free"
                /\ sock' = [sock EXCEPT ![c] = k]
                /\ srv' = [srv EXCEPT ![k] = "queued"]
                /\ end' = [before EXCEPT ![k] = "open"]
  BY Zenon DEF ConnectFrom
<1>2. /\ s = NoSocket => t \notin Conns
      /\ s # NoSocket => t = s /\ s = sock[c]
  BY SocketFacts DEF Created
<1>3. CASE sock' = [sock EXCEPT ![c] = t] /\ end' = before /\ srv' = srv
  BY <1>2, <1>3, HeldMove, SocketFacts
<1>4. CASE /\ sock' = [sock EXCEPT ![c] = NoSocket]
           /\ end' = IF t \in Conns THEN AfterClose(t) ELSE before
           /\ srv' = srv
  BY <1>2, <1>4, HeldMove, SocketFacts
<1>5. CASE t = OpenSocket
  <2>1. before = AfterClose(sock[c]) \/ (before = end /\ sock[c] \notin Conns)
    BY <1>2, <1>5, SocketFacts
  <2>2. ASSUME NEW k \in Conns, srv[k] = "free", sock' = [sock EXCEPT ![c] = k],
               srv' = [srv EXCEPT ![k] = "queued"], end' = [before EXCEPT ![k] = "open"]
        PROVE  HeldInv'
    BY <2>1, <2>2, HeldConnect
  <2>3. QED
    BY <1>1, <1>3, <1>4, <2>2
<1>6. QED
  BY <1>1, <1>3, <1>4, <1>5

LEMMA HeldClient ==
  ASSUME HeldInv, NEW c \in Clients, Client(c)
  PROVE  HeldInv'
<1>1. CASE GetMainClient(c)
  BY <1>1, HeldMove, SocketFacts DEF GetMainClient
<1>2. CASE Close(c)
  BY <1>2, HeldMove, SocketFacts DEF Close
<1>3. CASE Connect(c)
  BY <1>3, HeldConnectFrom DEF Connect
<1>4. CASE Reconnect(c)
  BY <1>4, HeldConnectFrom DEF Reconnect
<1>5. CASE Write(c) \/ ReadBegin(c) \/ ReadEnd(c)
  <2>1. sock' = sock /\ end' = end /\ srv' = srv
    BY <1>5 DEF Write, ReadBegin, ReadEnd, clientVars, connVars
  <2>2. QED
    BY <2>1 DEF HeldInv
<1>6. QED
  BY <1>1, <1>2, <1>3, <1>4, <1>5 DEF Client

\* The daemon's end of a connection is never free again.
LEMMA HeldDaemon == HeldInv /\ (Start \/ Kill \/ Server) => HeldInv'
<1> SUFFICES ASSUME HeldInv, Start \/ Kill \/ Server PROVE HeldInv'
  OBVIOUS
<1>1. sock' = sock /\ end' = end
  BY DEF Start, Kill, Server, Bind, Listen, Accept, AcceptFails, Greet, Read, ReadFails,
     DaemonGone, clientVars, connVars
<1>2. srv' = [k \in Conns |-> srv'[k]]
  BY DEF HeldInv, Start, Kill, Server, Bind, Listen, Accept, AcceptFails, Greet, Read,
     ReadFails, DaemonGone, CloseBoth, connVars
<1>3. \A k \in Conns : srv'[k] = "free" => srv[k] = "free"
  BY DEF HeldInv, Start, Kill, Server, Bind, Listen, Accept, AcceptFails, Greet, Read,
     ReadFails, DaemonGone, CloseBoth, connVars
<1>4. QED
  BY <1>1, <1>2, <1>3 DEF HeldInv

LEMMA HeldNext == HeldInv /\ [Next]_vars => HeldInv'
<1>1. HeldInv /\ UNCHANGED vars => HeldInv'
  BY DEF HeldInv, vars, clientVars, connVars
<1>2. QED
  BY <1>1, HeldClient, HeldDaemon DEF Next

\* No program ever loses hold of an open connection, or shares one.
THEOREM ConnectionsAreHeld == Spec => []NoClientLeak
<1>1. HeldInv => NoClientLeak
  <2> SUFFICES ASSUME HeldInv, NEW k \in Conns, end[k] = "open"
               PROVE  Cardinality({c \in Clients : sock[c] = k}) = 1
    BY DEF NoClientLeak
  <2>1. PICK d \in Clients : sock[d] = k
    BY DEF HeldInv
  <2>2. {c \in Clients : sock[c] = k} = {d}
    BY <2>1 DEF HeldInv
  <2>3. QED
    BY <2>2, FS_Singleton
<1>2. QED
  BY <1>1, HeldInit, HeldNext, PTL DEF Spec

-----------------------------------------------------------------------------
(* The daemon's descriptors, before anything fails.                        *)

Words == {"greeting", "noise"}
ConnStates == {"free", "queued", "accepted", "closed"}

\* The part of TypeOK that the descriptors and the kernel's queue need.
TableTypes ==
  /\ srv \in [Conns -> ConnStates]
  /\ mail \in [Conns -> SUBSET Words]
  /\ queue \in Seq(Conns)
  /\ fd \in [Fds -> Conns \cup {Free, Listener}]
  /\ accepted \in Nat
  /\ failed \in BOOLEAN

\* The descriptors that clients have got.
Occupied == {i \in Fds : fd[i] \in Conns}

\* A daemon that is down or has not yet come to its loop has no clients; the
\* listening socket has its own number and no other.
QuietBeforeLoop ==
  /\ pc \in {"down", "bind", "listen"} => accepted = 0 /\ Occupied = {} /\ ~failed
  /\ fd[ListenFd] \notin Conns
  /\ \A i \in Fds : i # ListenFd => fd[i] # Listener

\* The place of a descriptor among those that clients can get.
Rank(i) == IF i < ListenFd THEN i ELSE i - 1

\* accept takes the lowest, so clients fill the table from below.
FilledFromBelow ==
  ~failed => \A i \in Fds : fd[i] \in Conns <=> i # ListenFd /\ Rank(i) < accepted

\* Every connection waits once, and is known to the kernel.
QueueInv ==
  /\ \A i \in DOMAIN queue : srv[queue[i]] = "queued"
  /\ \A i, j \in DOMAIN queue : queue[i] = queue[j] => i = j

\* stderr's number has gone to the third client, and what it was told by mistake
\* is told to nobody who waits.
ThirdInv ==
  /\ \A i \in Fds : fd[i] \in Conns => srv[fd[i]] \notin {"free", "queued"}
  /\ fd[Stderr] \in Conns => fd[Stderr] = third /\ accepted > 2
  /\ \A k \in Conns : "noise" \in mail[k] => srv[k] \notin {"free", "queued"}
  /\ \A k \in Conns : "noise" \in mail[k] /\ srv[k] = "accepted" => k = third /\ accepted > 2

TableInv ==
  /\ TableTypes /\ QuietBeforeLoop /\ FilledFromBelow /\ QueueInv /\ ThirdInv
  /\ DescriptorsNeverReturned

LEMMA NumberFacts ==
  /\ Free \notin Conns /\ Listener \notin Conns /\ Free # Listener
  /\ ListenFd \in Fds /\ Stderr \in Fds /\ Stderr # ListenFd /\ Rank(Stderr) = 2
  /\ IsFiniteSet(Fds) /\ Fds \subseteq Nat
<1>1. IsFiniteSet(Fds)
  BY FdLimitAssumption, FS_Interval DEF Fds
<1>2. QED
  BY <1>1, FdLimitAssumption, MaxConnsAssumption
     DEF Free, Listener, ListenFd, Stderr, Fds, Conns, Rank

LEMMA TableInit == Init => TableInv
<1> SUFFICES ASSUME Init PROVE TableInv
  OBVIOUS
<1>1. TableTypes
  <2>1. srv \in [Conns -> ConnStates] /\ mail \in [Conns -> SUBSET Words]
    BY DEF Init, Words, ConnStates
  <2>2. queue \in Seq(Conns)
    BY DEF Init
  <2>3. fd \in [Fds -> Conns \cup {Free, Listener}]
    BY DEF Init
  <2>4. QED
    BY <2>1, <2>2, <2>3 DEF Init, TableTypes
<1>2. Occupied = {} /\ Cardinality(Occupied) = 0
  BY NumberFacts, FS_EmptySet DEF Init, Occupied
<1>3. QuietBeforeLoop
  BY <1>2, NumberFacts DEF Init, QuietBeforeLoop
<1>4. FilledFromBelow
  BY NumberFacts, FdLimitAssumption DEF Init, FilledFromBelow, Rank, Fds, ListenFd
<1>5. QueueInv /\ ThirdInv
  BY NumberFacts DEF Init, QueueInv, ThirdInv
<1>6. DescriptorsNeverReturned
  BY <1>2 DEF Init, DescriptorsNeverReturned, Occupied
<1>7. QED
  BY <1>1, <1>3, <1>4, <1>5, <1>6 DEF TableInv

LEMMA NobodyFills ==
  ASSUME accepted' = 0, \A i \in Fds : fd'[i] \notin Conns
  PROVE  FilledFromBelow'
<1>1. \A i \in Fds : ~(Rank(i) < 0 /\ i # ListenFd)
  BY FdLimitAssumption DEF Rank, Fds, ListenFd
<1>2. QED
  BY <1>1 DEF FilledFromBelow

\* What a client's step does to what the daemon and the kernel hold.
LEMMA ClientMoves ==
  ASSUME TableTypes, NEW c \in Clients, Client(c)
  PROVE  /\ UNCHANGED daemonVars
         /\ mail' \in [Conns -> SUBSET Words]
         /\ \A k \in Conns : mail'[k] \subseteq mail[k]
         /\ \/ srv' = srv /\ queue' = queue
            \/ \E k \in Conns : /\ srv[k] = "free"
                                /\ srv' = [srv EXCEPT ![k] = "queued"]
                                /\ queue' = Append(queue, k)
<1> USE DEF TableTypes
<1>1. UNCHANGED daemonVars
  BY Zenon DEF Client, GetMainClient, Close, Connect, Reconnect, ConnectFrom,
     Write, ReadBegin, ReadEnd, daemonVars
<1>2. ASSUME NEW s, Dropped(s)
      PROVE  mail' \in [Conns -> SUBSET Words] /\ \A k \in Conns : mail'[k] \subseteq mail[k]
  BY <1>2 DEF Dropped
<1>3. CASE GetMainClient(c) \/ Close(c)
  <2>1. srv' = srv /\ queue' = queue /\ Dropped(sock[c])
    BY <1>3 DEF GetMainClient, Close
  <2>2. QED
    BY <1>1, <1>2, <2>1
<1>4. ASSUME NEW s, ConnectFrom(c, s)
      PROVE  /\ Dropped(sock[c]) \/ mail' = mail
             /\ \/ srv' = srv /\ queue' = queue
                \/ \E k \in Conns : /\ srv[k] = "free"
                                    /\ srv' = [srv EXCEPT ![k] = "queued"]
                                    /\ queue' = Append(queue, k)
  BY <1>4, Zenon DEF ConnectFrom
<1>5. CASE Connect(c) \/ Reconnect(c)
  <2>1. PICK s : ConnectFrom(c, s)
    BY <1>5 DEF Connect, Reconnect
  <2>2. QED
    BY <1>1, <1>2, <1>4, <2>1
<1>6. CASE Write(c) \/ ReadBegin(c)
  BY <1>1, <1>6 DEF Write, ReadBegin, connVars
<1>7. CASE ReadEnd(c)
  BY <1>1, <1>7 DEF ReadEnd
<1>8. QED
  BY <1>3, <1>5, <1>6, <1>7 DEF Client

\* A client's step leaves the daemon's table alone, and adds to the queue only
\* a connection that was free.
LEMMA TableClient ==
  ASSUME TableInv, NEW c \in Clients, Client(c)
  PROVE  TableInv'
<1>1. /\ UNCHANGED daemonVars
      /\ mail' \in [Conns -> SUBSET Words]
      /\ \A k \in Conns : mail'[k] \subseteq mail[k]
      /\ \/ srv' = srv /\ queue' = queue
         \/ \E k \in Conns : /\ srv[k] = "free"
                             /\ srv' = [srv EXCEPT ![k] = "queued"]
                             /\ queue' = Append(queue, k)
  BY ClientMoves DEF TableInv
<1>2. QuietBeforeLoop' /\ FilledFromBelow' /\ DescriptorsNeverReturned'
  BY <1>1 DEF TableInv, QuietBeforeLoop, FilledFromBelow, DescriptorsNeverReturned,
     daemonVars, Occupied
<1>3. CASE srv' = srv /\ queue' = queue
  <2>1. TableTypes' /\ QueueInv' /\ ThirdInv'
    BY <1>1, <1>3 DEF TableInv, TableTypes, QueueInv, ThirdInv, daemonVars
  <2>2. QED
    BY <1>2, <2>1 DEF TableInv
<1>4. ASSUME NEW k \in Conns, srv[k] = "free", srv' = [srv EXCEPT ![k] = "queued"],
             queue' = Append(queue, k)
      PROVE  TableInv'
  <2>1. TableTypes'
    BY <1>1, <1>4 DEF TableInv, TableTypes, daemonVars, ConnStates
  <2>2. QueueInv'
    BY <1>4 DEF TableInv, TableTypes, QueueInv
  <2>3. ThirdInv'
    BY <1>1, <1>4 DEF TableInv, TableTypes, ThirdInv, daemonVars
  <2>4. QED
    BY <1>2, <2>1, <2>2, <2>3 DEF TableInv
<1>5. QED
  BY <1>1, <1>3, <1>4

\* What closing both descriptors does: it only frees descriptors, among them the
\* listening one, and closes connections; the queue goes as a whole or not at
\* all, and then with everyone in it.
LEMMA ClosingFacts ==
  ASSUME TableInv, CloseBoth
  PROVE  /\ fd' \in [Fds -> Conns \cup {Free, Listener}]
         /\ \A i \in Fds : fd'[i] = fd[i] \/ fd'[i] = Free
         /\ srv' \in [Conns -> ConnStates]
         /\ \A k \in Conns : srv'[k] = srv[k] \/ srv'[k] = "closed"
         /\ queue' \in Seq(Conns)
         /\ \/ queue' = <<>>
            \/ queue' = queue /\ \A i \in DOMAIN queue : srv'[queue[i]] = "queued"
<1> USE DEF TableInv, TableTypes
<1> DEFINE closed == {ListenFd, newsocket'} \cap Fds
           gone == {fd[i] : i \in closed}
<1>1. /\ fd' = [i \in Fds |-> IF i \in closed THEN Free ELSE fd[i]]
      /\ srv' = [k \in Conns |->
                   IF k \in gone \/ (srv[k] = "queued" /\ Listener \in gone)
                   THEN "closed" ELSE srv[k]]
      /\ queue' = IF Listener \in gone THEN <<>> ELSE queue
  BY DEF CloseBoth
<1>2. /\ fd' \in [Fds -> Conns \cup {Free, Listener}]
      /\ \A i \in Fds : fd'[i] = fd[i] \/ fd'[i] = Free
  BY <1>1
<1>3. /\ srv' \in [Conns -> ConnStates]
      /\ \A k \in Conns : srv'[k] = srv[k] \/ srv'[k] = "closed"
  BY <1>1 DEF ConnStates
<1>4. CASE Listener \in gone
  <2>1. queue' = <<>>
    BY <1>1, <1>4
  <2>2. queue' \in Seq(Conns)
    BY <2>1
  <2>3. QED
    BY <1>2, <1>3, <2>1, <2>2
<1>5. CASE Listener \notin gone
  <2>1. queue' = queue
    BY <1>1, <1>5
  <2>2. ASSUME NEW i \in DOMAIN queue PROVE srv'[queue[i]] = "queued"
    <3>1. queue[i] \in Conns /\ srv[queue[i]] = "queued"
      BY DEF QueueInv
    <3>2. queue[i] \notin gone
      BY <3>1 DEF ThirdInv
    <3>3. QED
      BY <1>1, <1>5, <3>1, <3>2
  <2>3. QED
    BY <1>2, <1>3, <2>1, <2>2
<1>6. QED
  BY <1>4, <1>5

\* What ThirdInv and QueueInv need of a step that closes.
LEMMA TableClosing ==
  ASSUME TableInv, CloseBoth, accepted' = accepted, third' = third,
         mail' \in [Conns -> SUBSET Words],
         \A k \in Conns : "noise" \in mail'[k] => "noise" \in mail[k] \/ k = fd[Stderr]
  PROVE  QueueInv' /\ ThirdInv'
<1> USE DEF TableInv, TableTypes
<1>1. QueueInv'
  BY ClosingFacts DEF QueueInv
<1>2. ThirdInv'
  <2>1. /\ \A i \in Fds : fd'[i] = fd[i] \/ fd'[i] = Free
        /\ \A k \in Conns : srv'[k] = srv[k] \/ srv'[k] = "closed"
    BY ClosingFacts
  <2>2. \A i \in Fds :
          fd'[i] \in Conns => fd'[i] = fd[i] /\ srv'[fd'[i]] \notin {"free", "queued"}
    BY <2>1, NumberFacts DEF ThirdInv
  <2>3. fd'[Stderr] \in Conns => fd'[Stderr] = third' /\ accepted' > 2
    BY <2>2, NumberFacts DEF ThirdInv
  <2>4. ASSUME NEW k \in Conns, "noise" \in mail'[k]
        PROVE  /\ srv'[k] \notin {"free", "queued"}
               /\ srv'[k] = "accepted" => k = third' /\ accepted' > 2
    <3>1. CASE "noise" \in mail[k]
      BY <2>1, <3>1 DEF ThirdInv
    <3>2. CASE k = fd[Stderr]
      BY <2>1, <3>2, NumberFacts DEF ThirdInv
    <3>3. QED
      BY <2>4, <3>1, <3>2
  <2>5. QED
    BY <2>2, <2>3, <2>4 DEF ThirdInv
<1>3. QED
  BY <1>1, <1>2

\* The end of the process.
LEMMA TableGone ==
  ASSUME TableInv, DaemonGone
  PROVE  TableInv'
<1> USE DEF TableInv
<1>1. /\ fd' = [i \in Fds |-> Free] /\ queue' = <<>> /\ accepted' = 0 /\ third' = 0
      /\ failed' = FALSE /\ mail' = mail /\ pc' = "down"
      /\ srv' = [k \in Conns |-> IF srv[k] = "free" THEN "free" ELSE "closed"]
  BY DEF DaemonGone
<1>2. TableTypes'
  <2>1. srv' \in [Conns -> ConnStates]
    BY <1>1 DEF ConnStates
  <2>2. fd' \in [Fds -> Conns \cup {Free, Listener}] /\ queue' \in Seq(Conns)
    BY <1>1
  <2>3. QED
    BY <1>1, <2>1, <2>2 DEF TableTypes
<1>3. Occupied' = {}
  BY <1>1, NumberFacts DEF Occupied
<1>4. QuietBeforeLoop'
  BY <1>1, <1>3, NumberFacts DEF QuietBeforeLoop
<1>5. FilledFromBelow'
  BY <1>1, <1>3, NobodyFills DEF Occupied
<1>6. QueueInv' /\ ThirdInv'
  BY <1>1, NumberFacts DEF QueueInv, ThirdInv, TableTypes, ConnStates
<1>7. DescriptorsNeverReturned'
  BY <1>1, <1>3, FS_EmptySet DEF DescriptorsNeverReturned, Occupied
<1>8. QED
  BY <1>2, <1>4, <1>5, <1>6, <1>7

\* Something has failed: only the queue and what the clients are told matter.
LEMMA TableFails ==
  ASSUME TableInv, Complain, CloseBoth, failed' = TRUE, pc' \in {"read", "accept"},
         accepted' = accepted, third' = third
  PROVE  TableInv'
<1> USE DEF TableInv, TableTypes
<1>1. /\ mail' \in [Conns -> SUBSET Words]
      /\ \A k \in Conns : "noise" \in mail'[k] => "noise" \in mail[k] \/ k = fd[Stderr]
  BY DEF Complain, Words
<1>2. QueueInv' /\ ThirdInv'
  BY <1>1, TableClosing
<1>3. TableTypes'
  BY <1>1, ClosingFacts
<1>4. QuietBeforeLoop'
  BY ClosingFacts, NumberFacts DEF QuietBeforeLoop
<1>5. FilledFromBelow' /\ DescriptorsNeverReturned'
  BY DEF FilledFromBelow, DescriptorsNeverReturned
<1>6. QED
  BY <1>2, <1>3, <1>4, <1>5

\* Before the loop there is nobody in the table, whether or not it is closed.
LEMMA TableBeforeLoop ==
  ASSUME TableInv, Bind \/ Listen
  PROVE  TableInv'
<1> USE DEF TableInv, TableTypes
<1>1. /\ UNCHANGED <<mail, accepted, third, failed>> /\ pc' \in {"listen", "accept"}
      /\ accepted = 0 /\ Occupied = {} /\ ~failed
  BY DEF Bind, Listen, QuietBeforeLoop
<1>2. CASE UNCHANGED <<fd, srv, queue>>
  BY <1>1, <1>2 DEF QuietBeforeLoop, FilledFromBelow, QueueInv, ThirdInv,
     DescriptorsNeverReturned, Occupied
<1>3. CASE CloseBoth
  <2>1. QueueInv' /\ ThirdInv'
    BY <1>1, <1>3, TableClosing
  <2>2. \A i \in Fds : fd'[i] = fd[i] \/ fd'[i] = Free
    BY <1>3, ClosingFacts
  <2>3. \A i \in Fds : fd'[i] \notin Conns
    BY <1>1, <2>2, NumberFacts DEF Occupied
  <2>4. Occupied' = {}
    BY <2>3 DEF Occupied
  <2>5. QuietBeforeLoop'
    BY <1>1, <2>2, <2>4, NumberFacts DEF QuietBeforeLoop
  <2>6. FilledFromBelow'
    BY <1>1, <2>3, NobodyFills
  <2>7. DescriptorsNeverReturned'
    BY <1>1, <2>4, FS_EmptySet DEF DescriptorsNeverReturned, Occupied
  <2>8. TableTypes'
    BY <1>1, <1>3, ClosingFacts
  <2>9. QED
    BY <2>1, <2>5, <2>6, <2>7, <2>8
<1>4. QED
  BY <1>2, <1>3 DEF Bind, Listen

LEMMA TableStart ==
  ASSUME TableInv, Start
  PROVE  TableInv'
<1> USE DEF TableInv, TableTypes
<1>1. /\ fd' = [i \in Fds |-> IF i = ListenFd THEN Listener ELSE Free]
      /\ UNCHANGED <<srv, mail, queue, accepted, third, failed>> /\ pc' = "bind"
      /\ accepted = 0 /\ ~failed
  BY DEF Start, AfterDaemonize, connVars, QuietBeforeLoop
<1>2. fd' \in [Fds -> Conns \cup {Free, Listener}]
  BY <1>1
<1>3. \A i \in Fds : fd'[i] \notin Conns
  BY <1>1, NumberFacts
<1>4. Occupied' = {}
  BY <1>3 DEF Occupied
<1>5. QuietBeforeLoop'
  BY <1>1, <1>4, NumberFacts DEF QuietBeforeLoop
<1>6. FilledFromBelow'
  BY <1>1, <1>3, NobodyFills
<1>7. DescriptorsNeverReturned'
  BY <1>1, <1>4, FS_EmptySet DEF DescriptorsNeverReturned, Occupied
<1>8. QueueInv' /\ ThirdInv'
  BY <1>1, <1>3, NumberFacts DEF QueueInv, ThirdInv
<1>9. QED
  BY <1>1, <1>2, <1>5, <1>6, <1>7, <1>8

\* The lowest free descriptor is the one after all that are occupied.
LEMMA LowestIsNext ==
  ASSUME TableInv, ~failed, fd[ListenFd] = Listener, NEW i \in FreeFds,
         \A j \in FreeFds : i <= j
  PROVE  i \in Fds /\ i # ListenFd /\ fd[i] \notin Conns /\ Rank(i) = accepted
<1> USE DEF TableInv, TableTypes
<1>1. i \in Fds /\ i # ListenFd /\ fd[i] \notin Conns
  BY NumberFacts DEF FreeFds
<1>2. \A j \in Fds : j # ListenFd /\ j < i => fd[j] \in Conns
  <2> SUFFICES ASSUME NEW j \in Fds, j # ListenFd, j < i, fd[j] \notin Conns PROVE FALSE
    OBVIOUS
  <2>1. fd[j] = Free
    BY DEF QuietBeforeLoop
  <2>2. j \in FreeFds /\ ~(i <= j)
    BY <1>1, <2>1, NumberFacts DEF FreeFds
  <2>3. QED
    BY <2>2
<1>3. ~(Rank(i) < accepted)
  BY <1>1 DEF FilledFromBelow
<1>4. \A j \in Fds : j # ListenFd /\ j < i => Rank(j) < accepted
  BY <1>2 DEF FilledFromBelow
<1>5. Rank(i) = accepted
  BY <1>1, <1>3, <1>4, FdLimitAssumption DEF Rank, Fds, ListenFd
<1>6. QED
  BY <1>1, <1>5

LEMMA TableAccept ==
  ASSUME TableInv, Accept, DeafInv
  PROVE  TableInv'
<1> USE DEF TableInv, TableTypes
<1>1. fd[ListenFd] = Listener /\ ~failed
  BY NumberFacts DEF Accept, DeafInv
<1>2. PICK i \in FreeFds :
        (\A j \in FreeFds : i <= j) /\ fd' = [fd EXCEPT ![i] = Head(queue)]
  BY DEF Accept
<1>3. i \in Fds /\ i # ListenFd /\ fd[i] \notin Conns /\ Rank(i) = accepted
  BY <1>1, <1>2, LowestIsNext
<1> DEFINE k == Head(queue)
<1>4. /\ queue # <<>> /\ queue' = Tail(queue) /\ srv' = [srv EXCEPT ![k] = "accepted"]
      /\ accepted' = accepted + 1 /\ third' = (IF accepted' = 3 THEN k ELSE third)
      /\ pc' = "write" /\ mail' = mail /\ failed' = failed
  BY DEF Accept
<1>5. k \in Conns /\ k = queue[1] /\ 1 \in DOMAIN queue /\ srv[k] = "queued"
  BY <1>4 DEF QueueInv
<1>6. fd'[i] = k /\ \A j \in Fds : j # i => fd'[j] = fd[j]
  BY <1>2, <1>3
<1>7. TableTypes'
  <2>1. srv' \in [Conns -> ConnStates]
    BY <1>4, <1>5 DEF ConnStates
  <2>2. fd' \in [Fds -> Conns \cup {Free, Listener}]
    BY <1>2, <1>3, <1>5
  <2>3. queue' \in Seq(Conns)
    BY <1>4
  <2>4. QED
    BY <1>4, <2>1, <2>2, <2>3
<1>8. QuietBeforeLoop'
  BY <1>3, <1>4, <1>5, <1>6, NumberFacts DEF QuietBeforeLoop
<1>9. \A j \in Fds : j # ListenFd /\ Rank(j) = Rank(i) => j = i
  BY <1>3 DEF Rank, Fds, ListenFd
<1>10. FilledFromBelow'
  <2>1. ASSUME NEW j \in Fds
        PROVE  fd'[j] \in Conns <=> j # ListenFd /\ Rank(j) < accepted + 1
    <3>1. CASE j = i
      BY <1>3, <1>5, <1>6, <3>1
    <3>2. CASE j # i
      <4>1. fd'[j] \in Conns <=> j # ListenFd /\ Rank(j) < accepted
        BY <1>1, <1>6, <3>2 DEF FilledFromBelow
      <4>2. Rank(j) \in Int
        BY DEF Rank, Fds
      <4>3. j # ListenFd => Rank(j) # accepted
        BY <1>3, <1>9, <3>2
      <4>4. QED
        BY <4>1, <4>2, <4>3
    <3>3. QED
      BY <3>1, <3>2
  <2>2. QED
    BY <1>4, <2>1 DEF FilledFromBelow
<1>11. QueueInv'
  <2>1. \A j \in DOMAIN queue' :
          j + 1 \in DOMAIN queue /\ queue'[j] = queue[j + 1] /\ j + 1 # 1
    BY <1>4
  <2>2. \A j \in DOMAIN queue : queue[j] \in Conns
    OBVIOUS
  <2>3. \A j \in DOMAIN queue' : srv'[queue'[j]] = "queued"
    BY <1>4, <1>5, <2>1, <2>2 DEF QueueInv
  <2>4. ASSUME NEW j \in DOMAIN queue', NEW l \in DOMAIN queue', queue'[j] = queue'[l]
        PROVE  j = l
    <3>1. j + 1 = l + 1
      BY <2>1, <2>4 DEF QueueInv
    <3>2. j \in Int /\ l \in Int
      BY <1>4
    <3>3. QED
      BY <3>1, <3>2
  <2>5. QED
    BY <2>3, <2>4 DEF QueueInv
<1>12. ThirdInv'
  <2>1. \A j \in Fds : fd'[j] \in Conns => srv'[fd'[j]] \notin {"free", "queued"}
    BY <1>4, <1>5, <1>6 DEF ThirdInv
  <2>2. fd'[Stderr] \in Conns => fd'[Stderr] = third' /\ accepted' > 2
    <3>1. CASE Stderr = i
      BY <1>3, <1>4, <1>6, <3>1, NumberFacts
    <3>2. CASE Stderr # i
      BY <1>4, <1>6, <3>2, NumberFacts DEF ThirdInv
    <3>3. QED
      BY <3>1, <3>2
  <2>3. ASSUME NEW l \in Conns, "noise" \in mail'[l]
        PROVE  /\ srv'[l] \notin {"free", "queued"}
               /\ srv'[l] = "accepted" => l = third' /\ accepted' > 2
    <3>1. l # k /\ srv'[l] = srv[l] /\ srv[l] \notin {"free", "queued"}
      BY <1>4, <1>5, <2>3 DEF ThirdInv
    <3>2. srv[l] = "accepted" => l = third /\ accepted > 2
      BY <1>4, <2>3 DEF ThirdInv
    <3>3. QED
      BY <1>4, <3>1, <3>2
  <2>4. QED
    BY <2>1, <2>2, <2>3 DEF ThirdInv
<1>13. DescriptorsNeverReturned'
  <2>1. Occupied' = Occupied \cup {i} /\ i \notin Occupied
    BY <1>3, <1>5, <1>6 DEF Occupied
  <2>2. IsFiniteSet(Occupied)
    BY NumberFacts, FS_Subset DEF Occupied
  <2>3. Cardinality(Occupied') = Cardinality(Occupied) + 1
    BY <2>1, <2>2, FS_AddElement
  <2>4. Cardinality(Occupied) = accepted
    BY <1>1 DEF DescriptorsNeverReturned, Occupied
  <2>5. QED
    BY <1>4, <2>3, <2>4 DEF DescriptorsNeverReturned, Occupied
<1>14. QED
  BY <1>7, <1>8, <1>10, <1>11, <1>12, <1>13

\* A greeting or a read changes neither the table nor the queue.
LEMMA TableTalk ==
  ASSUME TableInv, Greet \/ Read
  PROVE  TableInv'
<1> USE DEF TableInv, TableTypes
<1>1. /\ UNCHANGED <<srv, queue, fd, accepted, third, failed>>
      /\ pc' \in {"read", "accept"}
  BY DEF Greet, Read
<1>2. /\ mail' \in [Conns -> SUBSET Words]
      /\ \A k \in Conns : "noise" \in mail'[k] => "noise" \in mail[k]
  BY DEF Greet, Read, Words
<1>3. QED
  BY <1>1, <1>2 DEF QuietBeforeLoop, FilledFromBelow, QueueInv, ThirdInv,
     DescriptorsNeverReturned, Occupied

LEMMA TableNext ==
  ASSUME TableInv, DeafInv, [Next]_vars
  PROVE  TableInv'
<1>1. CASE UNCHANGED vars
  BY <1>1 DEF TableInv, TableTypes, QuietBeforeLoop, FilledFromBelow, QueueInv, ThirdInv,
     DescriptorsNeverReturned, Occupied, vars, connVars, daemonVars
<1>2. CASE Kill
  BY <1>2, TableGone DEF Kill
<1>3. CASE AcceptFails
  BY <1>3, TableGone, TableFails DEF AcceptFails
<1>4. CASE ReadFails
  BY <1>4, TableGone, TableFails DEF ReadFails
<1>5. QED
  BY <1>1, <1>2, <1>3, <1>4, TableStart, TableBeforeLoop, TableAccept, TableTalk,
     TableClient DEF Next, Server

LEMMA TableHolds == Spec => []TableInv
BY TableInit, TableNext, DeafInit, DeafNext, PTL DEF Spec

\* Until something fails, whoever was accepted occupies a descriptor for good:
\* at any limit, the daemon serves FdLimit - 1 clients in its life.
THEOREM NoDescriptorComesBack == Spec => []DescriptorsNeverReturned
<1>1. TableInv => DescriptorsNeverReturned
  BY DEF TableInv
<1>2. QED
  BY <1>1, TableHolds, PTL

\* What a step adds to the count: nothing, unless it takes the place of a free
\* descriptor, and there is one.
LEMMA AcceptHasRoom ==
  ASSUME TableInv, DeafInv, [Next]_vars
  PROVE  accepted' \in {accepted, 0} \/ (accepted' = accepted + 1 /\ accepted < FdLimit - 1)
<1>1. CASE Accept
  <2>1. fd[ListenFd] = Listener /\ ~failed /\ accepted' = accepted + 1
    BY <1>1, NumberFacts DEF Accept, DeafInv
  <2>2. PICK i \in FreeFds : \A j \in FreeFds : i <= j
    BY <1>1 DEF Accept
  <2>3. i \in Fds /\ i # ListenFd /\ Rank(i) = accepted
    BY <2>1, <2>2, LowestIsNext
  <2>4. QED
    BY <2>1, <2>3, FdLimitAssumption DEF Rank, Fds, ListenFd
<1>2. ASSUME NEW c \in Clients, Client(c) PROVE accepted' = accepted
  BY <1>2, Zenon DEF Client, GetMainClient, Close, Connect, Reconnect, ConnectFrom,
     Write, ReadBegin, ReadEnd, daemonVars
<1>3. CASE ~Accept
  BY <1>2, <1>3 DEF Next, Start, Kill, Server, Bind, Listen, AcceptFails, Greet, Read,
     ReadFails, DaemonGone, vars, daemonVars
<1>4. QED
  BY <1>1, <1>3

\* At any limit, and whatever fails, a daemon accepts at most FdLimit - 1
\* clients between its start and its end, however many of them have left.
THEOREM ServiceIsLimited == Spec => [](accepted <= FdLimit - 1)
<1> DEFINE Within == accepted <= FdLimit - 1
<1>1. Init => Within
  BY FdLimitAssumption DEF Init, ListenFd
<1>2. TableInv /\ DeafInv /\ Within /\ [Next]_vars => Within'
  BY AcceptHasRoom, FdLimitAssumption DEF TableInv, TableTypes, ListenFd
<1>3. QED
  BY <1>1, <1>2, TableHolds, DeafInit, DeafNext, PTL DEF Spec

\* What the daemon writes to its stderr reaches only the third client it
\* accepted.
THEOREM StderrReachesTheThird == Spec => []NoiseToThirdOnly
<1>1. TableInv => NoiseToThirdOnly
  BY DEF TableInv, ThirdInv, NoiseToThirdOnly
<1>2. QED
  BY <1>1, TableHolds, PTL

-----------------------------------------------------------------------------
(* What every variable holds.                                              *)

\* The part of TypeOK that TableTypes leaves.
ClientTypes ==
  /\ sock \in [Clients -> -2 .. MaxConns]
  /\ blocked \in [Clients -> BOOLEAN]
  /\ end \in [Conns -> {"open", "fin", "rst"}]
  /\ heard \in [Conns -> BOOLEAN]
  /\ sent \in [Conns -> BOOLEAN]

DaemonTypes ==
  /\ newsocket \in Fds \cup {-1}
  /\ pc \in {"down", "bind", "listen", "accept", "write", "read"}
  /\ starts \in 0 .. MaxStarts
  /\ third \in 0 .. MaxConns

\* The connections that the kernel has handed over, to this daemon or to an
\* earlier one: as many as this one accepted, or more.
Taken == {k \in Conns : srv[k] \in {"accepted", "closed"}}
CountInv == accepted <= Cardinality(Taken)

TypingInv == ClientTypes /\ DaemonTypes /\ CountInv

LEMMA ConnsFacts ==
  /\ IsFiniteSet(Conns) /\ Cardinality(Conns) = MaxConns
  /\ Conns \subseteq -2 .. MaxConns /\ Conns \subseteq 0 .. MaxConns
  /\ {NoSocket, FailedSocket, OpenSocket} \subseteq -2 .. MaxConns
<1>1. IsFiniteSet(Conns) /\ Cardinality(Conns) = MaxConns
  BY MaxConnsAssumption, FS_Interval DEF Conns
<1>2. QED
  BY <1>1, MaxConnsAssumption DEF Conns, NoSocket, FailedSocket, OpenSocket

LEMMA SetsOfConns ==
  ASSUME NEW S \in SUBSET Conns
  PROVE  IsFiniteSet(S) /\ Cardinality(S) \in 0 .. MaxConns
<1>1. IsFiniteSet(S) /\ Cardinality(S) <= MaxConns
  BY ConnsFacts, FS_Subset
<1>2. Cardinality(S) \in Nat
  BY <1>1, FS_CardinalityType
<1>3. QED
  BY <1>1, <1>2, MaxConnsAssumption

LEMMA TakenIsFinite ==
  IsFiniteSet(Taken) /\ Cardinality(Taken) \in 0 .. MaxConns
BY SetsOfConns DEF Taken

\* A step that takes nothing back keeps the count, unless it accepts.
LEMMA TakenGrows ==
  ASSUME TableInv, TableInv', CountInv, accepted' \in {accepted, 0},
         \A k \in Conns : srv[k] \in {"accepted", "closed"} =>
                            srv'[k] \in {"accepted", "closed"}
  PROVE  CountInv'
<1>1. Taken \subseteq Taken'
  BY DEF Taken
<1>2. IsFiniteSet(Taken') /\ Cardinality(Taken') \in 0 .. MaxConns
  BY SetsOfConns DEF Taken
<1>3. Cardinality(Taken) <= Cardinality(Taken')
  BY <1>1, <1>2, FS_Subset
<1>4. accepted \in Nat
  BY DEF TableInv, TableTypes
<1>5. QED
  BY <1>2, <1>3, <1>4, TakenIsFinite, MaxConnsAssumption DEF CountInv

LEMMA TypingInit == Init => TypingInv
<1> SUFFICES ASSUME Init PROVE TypingInv
  OBVIOUS
<1>1. ClientTypes
  BY ConnsFacts DEF Init, ClientTypes
<1>2. DaemonTypes
  BY MaxConnsAssumption, MaxStartsAssumption DEF Init, DaemonTypes
<1>3. CountInv
  BY TakenIsFinite, MaxConnsAssumption DEF Init, CountInv
<1>4. QED
  BY <1>1, <1>2, <1>3 DEF TypingInv

LEMMA ClosedEnds ==
  ASSUME ClientTypes, NEW s
  PROVE  AfterClose(s) \in [Conns -> {"open", "fin", "rst"}]
BY DEF ClientTypes, AfterClose

LEMMA DroppedHeard ==
  ASSUME ClientTypes, NEW s, Dropped(s)
  PROVE  heard' \in [Conns -> BOOLEAN]
<1>1. heard' = [k \in Conns |-> IF k = s THEN FALSE ELSE heard[k]]
  BY DEF Dropped
<1>2. \A k \in Conns : heard[k] \in BOOLEAN
  BY DEF ClientTypes
<1>3. QED
  BY <1>1, <1>2

\* What connect does to the socket and to the ends, whatever comes of it.
LEMMA ConnectTypes ==
  ASSUME ClientTypes, TableTypes, NEW c \in Clients, NEW s \in {sock[c], NoSocket},
         ConnectFrom(c, s)
  PROVE  /\ ClientTypes'
         /\ UNCHANGED daemonVars
         /\ \/ srv' = srv
            \/ \E k \in Conns : srv[k] = "free" /\ srv' = [srv EXCEPT ![k] = "queued"]
<1> DEFINE before == IF s = sock[c] THEN end ELSE AfterClose(sock[c])
<1>1. PICK t \in Created(s) :
        \/ /\ sock' = [sock EXCEPT ![c] = t]
           /\ end' = before
           /\ UNCHANGED <<srv, queue>>
        \/ /\ sock' = [sock EXCEPT ![c] = NoSocket]
           /\ end' = IF t \in Conns THEN AfterClose(t) ELSE before
           /\ UNCHANGED <<srv, queue>>
        \/ \E k \in Conns :
             /\ srv[k] = "free"
             /\ sock' = [sock EXCEPT ![c] = k]
             /\ srv' = [srv EXCEPT ![k] = "queued"]
             /\ end' = [before EXCEPT ![k] = "open"]
  BY Zenon DEF ConnectFrom
<1>2. UNCHANGED <<blocked, sent, daemonVars>> /\ (heard' = heard \/ Dropped(sock[c]))
  BY Zenon DEF ConnectFrom
<1>3. sock[c] \in -2 .. MaxConns
  BY DEF ClientTypes
<1>4. t \in -2 .. MaxConns
  BY <1>3, ConnsFacts DEF Created
<1>5. before \in [Conns -> {"open", "fin", "rst"}]
  BY ClosedEnds DEF ClientTypes
<1>6. sock' \in [Clients -> -2 .. MaxConns]
  BY <1>1, <1>4, ConnsFacts DEF ClientTypes
<1>7. end' \in [Conns -> {"open", "fin", "rst"}]
  <2>1. AfterClose(t) \in [Conns -> {"open", "fin", "rst"}]
    BY ClosedEnds
  <2> HIDE DEF before
  <2>2. QED
    BY <1>1, <1>5, <2>1
<1>8. heard' \in [Conns -> BOOLEAN]
  BY <1>2, DroppedHeard DEF ClientTypes
<1>9. srv' = srv \/ \E k \in Conns : srv[k] = "free" /\ srv' = [srv EXCEPT ![k] = "queued"]
  BY <1>1
<1>10. QED
  BY <1>2, <1>6, <1>7, <1>8, <1>9 DEF ClientTypes

LEMMA TypingClient ==
  ASSUME TypingInv, TableInv, TableInv', NEW c \in Clients, Client(c)
  PROVE  TypingInv'
<1> USE DEF TypingInv
<1>1. TableTypes
  BY DEF TableInv
<1>2. CASE Connect(c) \/ Reconnect(c)
  <2>1. PICK s \in {sock[c], NoSocket} : ConnectFrom(c, s)
    BY <1>2 DEF Connect, Reconnect
  <2>2. /\ ClientTypes'
        /\ UNCHANGED daemonVars
        /\ \/ srv' = srv
           \/ \E k \in Conns : srv[k] = "free" /\ srv' = [srv EXCEPT ![k] = "queued"]
    BY <1>1, <2>1, ConnectTypes
  <2>3. \A k \in Conns : srv[k] \in {"accepted", "closed"} =>
                           srv'[k] \in {"accepted", "closed"}
    BY <1>1, <2>2 DEF TableTypes
  <2>4. CountInv'
    BY <2>2, <2>3, TakenGrows DEF daemonVars
  <2>5. QED
    BY <2>2, <2>4 DEF DaemonTypes, daemonVars
<1>3. CASE GetMainClient(c) \/ Close(c)
  <2>1. /\ sock' = [sock EXCEPT ![c] = NoSocket]
        /\ end' = AfterClose(sock[c])
        /\ sent' = sent \/ \E k \in Conns : sent' = [sent EXCEPT ![k] = TRUE]
        /\ Dropped(sock[c])
        /\ UNCHANGED <<blocked, srv, daemonVars>>
    BY <1>3 DEF GetMainClient, Close
  <2>2. ClientTypes'
    <3>1. end' \in [Conns -> {"open", "fin", "rst"}]
      BY <1>1, <2>1, ClosedEnds
    <3>2. heard' \in [Conns -> BOOLEAN]
      BY <2>1, DroppedHeard
    <3>3. QED
      BY <2>1, <3>1, <3>2, ConnsFacts DEF ClientTypes
  <2>3. QED
    BY <2>1, <2>2 DEF DaemonTypes, CountInv, Taken, daemonVars
<1>4. CASE Write(c) \/ ReadBegin(c) \/ ReadEnd(c)
  <2>1. UNCHANGED <<sock, end, srv, daemonVars>>
    BY <1>4 DEF Write, ReadBegin, ReadEnd, clientVars, connVars
  <2>2. /\ blocked' \in [Clients -> BOOLEAN]
        /\ heard' \in [Conns -> BOOLEAN]
        /\ sent' \in [Conns -> BOOLEAN]
    BY <1>4 DEF Write, ReadBegin, ReadEnd, ClientTypes, clientVars, connVars
  <2>3. QED
    BY <2>1, <2>2 DEF ClientTypes, DaemonTypes, CountInv, Taken, daemonVars
<1>5. QED
  BY <1>2, <1>3, <1>4 DEF Client

\* What the daemon's steps write, besides what TableInv has the types of.
LEMMA TypingDaemon ==
  ASSUME TypingInv, TableInv, TableInv', Start \/ Kill \/ Server
  PROVE  TypingInv'
<1> USE DEF TypingInv
<1>1. TableTypes /\ TableTypes'
  BY DEF TableInv
<1>2. UNCHANGED <<sock, blocked, end, heard>>
  BY DEF Start, Kill, Server, Bind, Listen, Accept, AcceptFails, Greet, Read, ReadFails,
     DaemonGone, clientVars, connVars
<1>3. sent' = sent \/ \E k \in Conns : sent' = [sent EXCEPT ![k] = FALSE]
  BY DEF Start, Kill, Server, Bind, Listen, Accept, AcceptFails, Greet, Read, ReadFails,
     DaemonGone, connVars, Readable
<1>4. ClientTypes'
  BY <1>2, <1>3 DEF ClientTypes
<1>5. CASE Accept
  <2> DEFINE k == Head(queue)
  <2>1. /\ queue # <<>> /\ srv' = [srv EXCEPT ![k] = "accepted"]
        /\ accepted' = accepted + 1 /\ third' \in {k, third}
        /\ pc' = "write" /\ starts' = starts
    BY <1>5 DEF Accept
  <2>2. k \in Conns /\ srv[k] = "queued"
    BY <1>1, <2>1 DEF TableInv, TableTypes, QueueInv
  <2>3. newsocket' \in Fds
    BY <1>5 DEF Accept, FreeFds
  <2>4. DaemonTypes'
    BY <2>1, <2>2, <2>3, ConnsFacts DEF DaemonTypes
  <2>5. Taken' = Taken \cup {k} /\ k \notin Taken
    BY <1>1, <2>1, <2>2 DEF Taken, TableTypes
  <2>6. Cardinality(Taken') = Cardinality(Taken) + 1
    BY <2>5, TakenIsFinite, FS_AddElement
  <2>7. CountInv'
    BY <1>1, <2>1, <2>6, TakenIsFinite DEF CountInv, TableTypes
  <2>8. QED
    BY <1>4, <2>4, <2>7
<1>6. CASE ~Accept
  <2>1. accepted' \in {accepted, 0}
    BY <1>6 DEF Start, Kill, Server, Bind, Listen, AcceptFails, Greet, Read, ReadFails,
       DaemonGone
  <2>2. \A k \in Conns : srv[k] \in {"accepted", "closed"} =>
                           srv'[k] \in {"accepted", "closed"}
    BY <1>6 DEF Start, Kill, Server, Bind, Listen, AcceptFails, Greet, Read, ReadFails,
       DaemonGone, CloseBoth, connVars
  <2>3. CountInv'
    BY <2>1, <2>2, TakenGrows
  <2>4. DaemonTypes'
    BY <1>6, MaxConnsAssumption, MaxStartsAssumption DEF DaemonTypes, Start, Kill, Server,
       Bind, Listen, AcceptFails, Greet, Read, ReadFails, DaemonGone
  <2>5. QED
    BY <1>4, <2>3, <2>4
<1>7. QED
  BY <1>5, <1>6

LEMMA TypingNext ==
  ASSUME TypingInv, TableInv, TableInv', [Next]_vars
  PROVE  TypingInv'
<1>1. CASE UNCHANGED vars
  BY <1>1 DEF TypingInv, ClientTypes, DaemonTypes, CountInv, Taken, vars, clientVars,
     connVars, daemonVars
<1>2. QED
  BY <1>1, TypingClient, TypingDaemon DEF Next

\* Every variable keeps its type: in particular a daemon never accepts more
\* connections than were made, whoever closed which descriptor.
THEOREM SocketsAreTyped == Spec => []TypeOK
<1>1. TableInv /\ TypingInv => TypeOK
  <2> SUFFICES ASSUME TableInv, TypingInv PROVE TypeOK
    OBVIOUS
  <2>1. accepted \in 0 .. MaxConns
    BY TakenIsFinite, MaxConnsAssumption DEF TableInv, TableTypes, TypingInv, CountInv
  <2>2. fd \in [Fds -> -1 .. MaxConns]
    BY MaxConnsAssumption DEF TableInv, TableTypes, Conns, Free, Listener
  <2>3. QED
    BY <2>1, <2>2 DEF TypeOK, TableInv, TableTypes, TypingInv, ClientTypes, DaemonTypes,
       Words, ConnStates
<1>2. QED
  BY <1>1, TableHolds, TypingInit, TypingNext, PTL DEF Spec

=============================================================================
