----------------------------- MODULE BsdSockets -----------------------------
(***************************************************************************)
(* neroshop::Server and neroshop::Client over BSD sockets, with the daemon *)
(* of test/sys_network around the server, any programs around the clients, *)
(* and the part of the kernel they meet: the daemon's descriptor table,    *)
(* the queue of the listening socket and the two ends of a connection.     *)
(*                                                                         *)
(* The daemon's Server is a global, made while descriptors 0 to 2 are the  *)
(* standard streams; those are closed before the loop, so clients get 0,   *)
(* 1 and 2 and what the daemon writes to stderr goes to one of them.       *)
(* (Its std::cout is dead by then: its first flush met a closed 1.)        *)
(*                                                                         *)
(* Server::close and Server::shutdown are always called together after the *)
(* socket is listening, and one after the other by one thread.             *)
(***************************************************************************)
EXTENDS Integers, FiniteSets, Sequences

CONSTANTS
  Clients,    \* the client programs, each with its main client
  MaxConns,   \* bound: connections in a behaviour
  FdLimit,    \* the daemon's descriptors are 0 .. FdLimit - 1 (RLIMIT_NOFILE)
  MaxStarts   \* bound: times the daemon is started

Stderr == 2
ListenFd == 3     \* Server::socket, opened after the standard streams

ASSUME FdLimitAssumption == FdLimit \in Nat /\ FdLimit > ListenFd
ASSUME MaxConnsAssumption == MaxConns \in Nat
ASSUME MaxStartsAssumption == MaxStarts \in Nat

Conns == 1 .. MaxConns
Fds == 0 .. (FdLimit - 1)

\* What a descriptor of the daemon refers to, besides a connection.
Free == -1
Listener == 0

\* What Client::socket holds, besides a connection.
NoSocket == 0
FailedSocket == -1
OpenSocket == -2   \* a socket that is not connected

VARIABLES
  sock,       \* sock[c]: Client::socket of c's main client
  blocked,    \* blocked[c]: c is inside Client::read
  end,        \* end[k]: the client's end: "open", closed ("fin"), reset ("rst")
  srv,        \* srv[k]: the daemon's end
  mail,       \* mail[k]: what the client has not read yet
  heard,      \* heard[k]: the client has read the connection once
  sent,       \* sent[k]: there are bytes for the daemon to read
  queue,      \* connections the kernel has completed and nobody accepted
  fd,         \* the daemon's descriptor table
  newsocket,  \* Server::newsocket
  pc,         \* the daemon: what its loop calls next, or "down"
  starts,     \* times the daemon was started (bounds the behaviour)
  accepted,   \* history: connections accepted since the daemon started
  third,      \* history: the third of them, 0 before it
  failed      \* history: an accept or a read of this daemon has failed

clientVars == <<sock, blocked>>
connVars == <<end, srv, mail, heard, sent, queue>>
daemonVars == <<fd, newsocket, pc, starts, accepted, third, failed>>
vars == <<clientVars, connVars, daemonVars>>

TypeOK ==
  /\ sock \in [Clients -> -2 .. MaxConns]
  /\ blocked \in [Clients -> BOOLEAN]
  /\ end \in [Conns -> {"open", "fin", "rst"}]
  /\ srv \in [Conns -> {"free", "queued", "accepted", "closed"}]
  /\ mail \in [Conns -> SUBSET {"greeting", "noise"}]
  /\ heard \in [Conns -> BOOLEAN]
  /\ sent \in [Conns -> BOOLEAN]
  /\ queue \in Seq(Conns)
  /\ fd \in [Fds -> -1 .. MaxConns]
  /\ newsocket \in Fds \cup {-1}
  /\ pc \in {"down", "bind", "listen", "accept", "write", "read"}
  /\ starts \in 0 .. MaxStarts
  /\ accepted \in 0 .. MaxConns
  /\ third \in 0 .. MaxConns
  /\ failed \in BOOLEAN

Init ==
  /\ sock = [c \in Clients |-> NoSocket]
  /\ blocked = [c \in Clients |-> FALSE]
  /\ end = [k \in Conns |-> "fin"]
  /\ srv = [k \in Conns |-> "free"]
  /\ mail = [k \in Conns |-> {}]
  /\ heard = [k \in Conns |-> FALSE]
  /\ sent = [k \in Conns |-> FALSE]
  /\ queue = <<>>
  /\ fd = [i \in Fds |-> Free]
  /\ newsocket = -1
  /\ pc = "down"
  /\ starts = 0
  /\ accepted = 0
  /\ third = 0
  /\ failed = FALSE

-----------------------------------------------------------------------------
(* Client.                                                                 *)

\* The ends after Client::close of s.  A socket that is closed with unread
\* data resets the connection; nobody reads that data any more.
AfterClose(s) ==
  [k \in Conns |-> IF k # s THEN end[k] ELSE IF mail[k] = {} THEN "fin" ELSE "rst"]

Dropped(s) ==
  /\ mail' = [k \in Conns |-> IF k = s THEN {} ELSE mail[k]]
  /\ heard' = [k \in Conns |-> IF k = s THEN FALSE ELSE heard[k]]

\* get_main_client: the client it gave out before is destroyed, and its
\* destructor closes; the new one has no socket.  User::is_online asks the new
\* one whether it is connected.
GetMainClient(c) ==
  /\ ~blocked[c]
  /\ sock' = [sock EXCEPT ![c] = NoSocket]
  /\ end' = AfterClose(sock[c])
  /\ Dropped(sock[c])
  /\ UNCHANGED <<blocked, srv, sent, queue, daemonVars>>

\* close, and disconnect, which writes first and then shuts down.
Close(c) ==
  /\ ~blocked[c]
  /\ sock[c] # NoSocket
  /\ sock' = [sock EXCEPT ![c] = NoSocket]
  /\ end' = AfterClose(sock[c])
  /\ \/ sent' = sent
     \/ /\ sock[c] \in Conns
        /\ sent' = [sent EXCEPT ![sock[c]] = TRUE]
  /\ Dropped(sock[c])
  /\ UNCHANGED <<blocked, srv, queue, daemonVars>>

\* Mistake: create remembers the negated errno of a failed socket().
CreatedErrno(s) == IF s = NoSocket THEN {OpenSocket, -3} ELSE {s}

\* Mistake: create always opens a socket.
CreatedAnew(s) == {OpenSocket, FailedSocket}

\* create leaves any nonzero value alone, that of a failed socket() too.
Created(s) == IF s = NoSocket THEN {OpenSocket, FailedSocket} ELSE {s}

\* The daemon listens on its port.
Listening == fd[ListenFd] = Listener /\ pc \in {"accept", "write", "read"}

\* connect, from a socket s: the address is unknown and create was all it did;
\* or ::connect fails, as it must on a descriptor of a failed socket() and on
\* one that is connected already, and the socket is closed; or it succeeds.
ConnectFrom(c, s) ==
  LET before == IF s = sock[c] THEN end ELSE AfterClose(sock[c]) IN
    /\ \E t \in Created(s) :
         \/ /\ sock' = [sock EXCEPT ![c] = t]
            /\ end' = before
            /\ UNCHANGED <<srv, queue>>
         \/ /\ t # OpenSocket \/ ~Listening
            /\ sock' = [sock EXCEPT ![c] = NoSocket]
            /\ end' = IF t \in Conns THEN AfterClose(t) ELSE before
            /\ UNCHANGED <<srv, queue>>
         \/ /\ t = OpenSocket
            /\ Listening
            /\ \E k \in Conns :
                 /\ srv[k] = "free"
                 /\ \A j \in Conns : j < k => srv[j] # "free"
                 /\ sock' = [sock EXCEPT ![c] = k]
                 /\ srv' = [srv EXCEPT ![k] = "queued"]
                 /\ queue' = Append(queue, k)
                 /\ end' = [before EXCEPT ![k] = "open"]
    /\ IF sock[c] \in Conns /\ end'[sock[c]] = "open"
       THEN UNCHANGED <<mail, heard>> ELSE Dropped(sock[c])
    /\ UNCHANGED <<blocked, sent, daemonVars>>

Connect(c) == ~blocked[c] /\ ConnectFrom(c, sock[c])

\* reconnect: close, then connect.
Reconnect(c) == ~blocked[c] /\ ConnectFrom(c, NoSocket)

Write(c) ==
  /\ ~blocked[c]
  /\ sock[c] \in Conns
  /\ sent' = [sent EXCEPT ![sock[c]] = TRUE]
  /\ UNCHANGED <<clientVars, end, srv, mail, heard, queue, daemonVars>>

\* read blocks until there is something to read or the daemon's end is closed.
\* A program reads each connection once, as the client of test/sys_network
\* does: the daemon has one thing to say.
ReadBegin(c) ==
  /\ ~blocked[c]
  /\ sock[c] \in Conns
  /\ ~heard[sock[c]]
  /\ blocked' = [blocked EXCEPT ![c] = TRUE]
  /\ UNCHANGED <<sock, connVars, daemonVars>>

ReadEnd(c) ==
  /\ blocked[c]
  /\ mail[sock[c]] # {} \/ srv[sock[c]] = "closed"
  /\ blocked' = [blocked EXCEPT ![c] = FALSE]
  /\ mail' = [mail EXCEPT ![sock[c]] = {}]
  /\ heard' = [heard EXCEPT ![sock[c]] = TRUE]
  /\ UNCHANGED <<sock, end, srv, sent, queue, daemonVars>>

-----------------------------------------------------------------------------
(* Server, and the daemon's loop around it.                                *)

\* The process is gone, and with it every descriptor and the queue.
DaemonGone ==
  /\ pc' = "down"
  /\ fd' = [i \in Fds |-> Free]
  /\ srv' = [k \in Conns |-> IF srv[k] = "free" THEN "free" ELSE "closed"]
  /\ queue' = <<>>
  /\ newsocket' = -1
  /\ accepted' = 0
  /\ third' = 0
  /\ failed' = FALSE
  /\ UNCHANGED <<clientVars, end, mail, heard, sent, starts>>

Kill == pc # "down" /\ DaemonGone

\* Mistake: the daemon keeps its stdin.
AfterDaemonizeKeepsStdin ==
  [i \in Fds |-> IF i \in {0, ListenFd} THEN Listener ELSE Free]

\* The descriptors after the daemon has closed its standard streams.
AfterDaemonize == [i \in Fds |-> IF i = ListenFd THEN Listener ELSE Free]

\* The global Server is made, newsocket is not initialised, the process goes
\* into the background.
Start ==
  /\ pc = "down"
  /\ starts < MaxStarts
  /\ starts' = starts + 1
  /\ fd' = AfterDaemonize
  /\ newsocket' \in Fds \cup {-1}
  /\ pc' = "bind"
  /\ UNCHANGED <<clientVars, connVars, accepted, third, failed>>

\* Mistake: only the client's socket is shut down and closed.
CloseClientOnly ==
  LET closed == {newsocket'} \cap Fds
      gone == {fd[i] : i \in closed} IN
    /\ fd' = [i \in Fds |-> IF i \in closed THEN Free ELSE fd[i]]
    /\ srv' = [k \in Conns |-> IF k \in gone THEN "closed" ELSE srv[k]]
    /\ queue' = IF Listener \in gone THEN <<>> ELSE queue

\* Server::shutdown and Server::close of both descriptors, whatever they refer
\* to by now; neither member is reset.  Shutting the listening socket down
\* resets whoever waits in its queue.
CloseBoth ==
  LET closed == {ListenFd, newsocket'} \cap Fds
      gone == {fd[i] : i \in closed} IN
    /\ fd' = [i \in Fds |-> IF i \in closed THEN Free ELSE fd[i]]
    /\ srv' = [k \in Conns |->
                 IF k \in gone \/ (srv[k] = "queued" /\ Listener \in gone)
                 THEN "closed" ELSE srv[k]]
    /\ queue' = IF Listener \in gone THEN <<>> ELSE queue

\* bind fails when the port is taken.  Its result, and listen's, are ignored.
Bind ==
  /\ pc = "bind"
  /\ pc' = "listen"
  /\ newsocket' = newsocket
  /\ \/ UNCHANGED <<fd, srv, queue>>
     \/ CloseBoth
  /\ UNCHANGED <<clientVars, end, mail, heard, sent, starts, accepted, third, failed>>

Listen ==
  /\ pc = "listen"
  /\ pc' = "accept"
  /\ newsocket' = newsocket
  /\ IF fd[ListenFd] = Listener THEN UNCHANGED <<fd, srv, queue>> ELSE CloseBoth
  /\ UNCHANGED <<clientVars, end, mail, heard, sent, starts, accepted, third, failed>>

FreeFds == {i \in Fds : fd[i] = Free}

\* Mistake: accept closes the client that newsocket refers to before.
AcceptClosesPrevious ==
  LET rest == [i \in Fds |-> IF i = newsocket /\ i # ListenFd THEN Free ELSE fd[i]] IN
    /\ pc = "accept"
    /\ fd[ListenFd] = Listener
    /\ queue # <<>>
    /\ \E i \in {j \in Fds : rest[j] = Free} :
         /\ newsocket' = i
         /\ fd' = [rest EXCEPT ![i] = Head(queue)]
    /\ queue' = Tail(queue)
    /\ srv' = [srv EXCEPT ![Head(queue)] = "accepted"]
    /\ accepted' = accepted + 1
    /\ third' = IF accepted' = 3 THEN Head(queue) ELSE third
    /\ pc' = "write"
    /\ UNCHANGED <<clientVars, end, mail, heard, sent, starts, failed>>

\* accept takes the lowest free descriptor, over the one in newsocket.
Accept ==
  /\ pc = "accept"
  /\ fd[ListenFd] = Listener
  /\ queue # <<>>
  /\ \E i \in FreeFds :
       /\ \A j \in FreeFds : i <= j
       /\ newsocket' = i
       /\ fd' = [fd EXCEPT ![i] = Head(queue)]
  /\ queue' = Tail(queue)
  /\ srv' = [srv EXCEPT ![Head(queue)] = "accepted"]
  /\ accepted' = accepted + 1
  /\ third' = IF accepted' = 3 THEN Head(queue) ELSE third
  /\ pc' = "write"
  /\ UNCHANGED <<clientVars, end, mail, heard, sent, starts, failed>>

\* A line on stderr reaches the connection that has its number.
Complain ==
  LET k == fd[Stderr] IN
    mail' = IF k \in Conns /\ end[k] = "open"
            THEN [mail EXCEPT ![k] = @ \cup {"noise"}] ELSE mail

\* With nobody reading that connection any more, the line can be the daemon's
\* last (SIGPIPE), and surely is if the connection was reset.
PipeBroken == fd[Stderr] \in Conns /\ end[fd[Stderr]] # "open"
PipeReset == fd[Stderr] \in Conns /\ end[fd[Stderr]] = "rst"

\* accept fails without a listening socket, and at the descriptor limit, where
\* it does not even wait for a client.  Everything is closed, and the loop
\* goes on to read.
AcceptFails ==
  /\ pc = "accept"
  /\ fd[ListenFd] # Listener \/ FreeFds = {}
  /\ \/ PipeBroken /\ DaemonGone
     \/ /\ ~PipeReset
        /\ Complain
        /\ newsocket' = -1
        /\ CloseBoth
        /\ failed' = TRUE
        /\ pc' = "read"
        /\ UNCHANGED <<clientVars, end, heard, sent, starts, accepted, third>>

\* Mistake: the greeting waits for the client to speak first.
GreetIfSpokenTo ==
  /\ pc = "write"
  /\ pc' = "read"
  /\ LET k == fd[newsocket] IN
       /\ sent[k] \/ end[k] # "open"
       /\ mail' = IF end[k] = "open" THEN [mail EXCEPT ![k] = @ \cup {"greeting"}]
                  ELSE mail
  /\ UNCHANGED <<clientVars, end, srv, heard, sent, queue, fd, newsocket, starts,
                 accepted, third, failed>>

\* Server::write of the greeting.
Greet ==
  /\ pc = "write"
  /\ pc' = "read"
  /\ LET k == fd[newsocket] IN
       mail' = IF end[k] = "open" THEN [mail EXCEPT ![k] = @ \cup {"greeting"}]
               ELSE mail
  /\ UNCHANGED <<clientVars, end, srv, heard, sent, queue, fd, newsocket, starts,
                 accepted, third, failed>>

\* newsocket refers to a connection that can be read.
Readable == newsocket \in Fds /\ fd[newsocket] \in Conns /\ end[fd[newsocket]] # "rst"

\* Server::read, once for each accept: it returns what the client wrote, or
\* nothing once the client's end is closed, and blocks until then.
Read ==
  /\ pc = "read"
  /\ Readable
  /\ sent[fd[newsocket]] \/ end[fd[newsocket]] = "fin"
  /\ sent' = [sent EXCEPT ![fd[newsocket]] = FALSE]
  /\ pc' = "accept"
  /\ UNCHANGED <<clientVars, end, srv, mail, heard, queue, fd, newsocket, starts,
                 accepted, third, failed>>

\* read fails on a connection that was reset and on anything else: perror,
\* then shutdown and close, of the listening socket too.
ReadFails ==
  /\ pc = "read"
  /\ ~Readable
  /\ \/ PipeBroken /\ DaemonGone
     \/ /\ ~PipeReset
        /\ Complain
        /\ newsocket' = newsocket
        /\ CloseBoth
        /\ failed' = TRUE
        /\ pc' = "accept"
        /\ UNCHANGED <<clientVars, end, heard, sent, starts, accepted, third>>

-----------------------------------------------------------------------------
Client(c) ==
  \/ GetMainClient(c) \/ Close(c) \/ Connect(c) \/ Reconnect(c)
  \/ Write(c) \/ ReadBegin(c) \/ ReadEnd(c)

Server ==
  Bind \/ Listen \/ Accept \/ AcceptFails \/ Greet \/ Read \/ ReadFails

Next == Start \/ Kill \/ Server \/ \E c \in Clients : Client(c)

Spec == Init /\ [][Next]_vars

\* The daemon's loop runs on; a read that has something to return returns, and
\* a program that is not inside one ends in time, or closes.
Fairness ==
  /\ WF_vars(Server)
  /\ \A c \in Clients : WF_vars(ReadEnd(c)) /\ WF_vars(Close(c))

FairSpec == Spec /\ Fairness

-----------------------------------------------------------------------------
(* What holds.                                                             *)

\* A program never loses hold of a connection: each one whose client end is
\* open is in the socket of exactly one main client, through any sequence of
\* connect, reconnect, close, and get_main_client, failed ones included.
NoClientLeak ==
  \A k \in Conns :
    end[k] = "open" => Cardinality({c \in Clients : sock[c] = k}) = 1

\* Until something fails, every client that was ever accepted still occupies a
\* descriptor of the daemon, those that have left too: it serves FdLimit - 1
\* clients in its life.
DescriptorsNeverReturned ==
  ~failed =>
    Cardinality({i \in Fds : fd[i] \in Conns}) = accepted

\* One failed accept or read is the end: until the daemon is started again it
\* accepts nobody, although its loop runs on and goes on closing descriptors
\* by number.
FailureIsForGood ==
  [][failed /\ failed' => accepted' = accepted /\ fd'[ListenFd] = Free]_vars

\* What the daemon writes to its stderr reaches a client only if it is the
\* third that was accepted.
NoiseToThirdOnly ==
  \A k \in Conns : "noise" \in mail[k] /\ srv[k] = "accepted" => k = third

\* Nobody waits for ever to be accepted, as long as the daemon lives, nothing
\* has failed and the others read their greeting and leave: the daemon does
\* not wait for a client that is waiting for it.
QueuedIsTaken ==
  \A k \in Conns : srv[k] = "queued" ~> (srv[k] # "queued" \/ pc = "down")

=============================================================================
