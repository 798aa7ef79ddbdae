------------------------------- MODULE Neromon -------------------------------
(***************************************************************************)
(* The daemon neromon (run_server, interpret_query, run_database) and its  *)
(* command-line clients (connect, disconnect, db, exit) over ZeroMQ.       *)
(*                                                                         *)
(* A client has one REQ socket and one thread: it sends a request and sits *)
(* in recv until a reply comes, with no timeout.  The socket may be        *)
(* attached to several ports, and takes any of them for a request.  A      *)
(* daemon has a server thread, which owns a REP socket, and a database     *)
(* thread, which counts the documents or indexes an input file and ends.   *)
(* All daemons here run on one host with the default database, and the     *)
(* options are as main reads them: the first of --port, --db and --input   *)
(* counts and the others are ignored, so that only a daemon on the default *)
(* port indexes.                                                           *)
(*                                                                         *)
(* ZeroMQ is external.  What is used of it: a request waits in the         *)
(* client's pipe until its daemon is up; what a daemon had taken in is     *)
(* lost when it dies; REP throws when recv is called while a reply is      *)
(* owed; a send on a REQ attached to nothing blocks; a port is bound once. *)
(***************************************************************************)
EXTENDS Integers

CONSTANTS
  Clients,      \* neroshop-cli processes
  Daemons,      \* neromon processes
  Ports,        \* ports of the host, as they are typed
  DefaultPort,  \* 55090
  BadHost,      \* a host:port that ZeroMQ refuses to connect to
  Nobody,       \* no client, no daemon, no message
  MaxStarts     \* bound: daemon starts in a behaviour

Kinds == {"connect", "query", "add", "other"}
DbKinds == Kinds \ {"connect"}
Replies == {"accept", "hits", "no hits", "echo"}
Messages == [from : Daemons, body : Replies]

ASSUME NobodyAssumption ==
  Nobody \notin Clients \cup Daemons \cup Ports \cup Kinds \cup Replies \cup Messages
ASSUME PortAssumption == DefaultPort \in Ports /\ BadHost \notin Ports
ASSUME BoundAssumption == MaxStarts \in Nat

VARIABLES
  \* the clients
  cli,        \* "prompt", "waiting" in recv, "blocked" in send, "exited"
  connected,  \* the flag connected of cli's main
  host,       \* host and port of cli's main
  attached,   \* the endpoints the REQ socket is connected to
  request,    \* the request last sent
  \* the network
  pipe,       \* pipe[c]: the port c's request waits for in c's own queue
  inbox,      \* inbox[d]: clients whose request has reached d's REP socket
  reply,      \* reply[c]: [from, body] on its way to c
  \* the daemons
  port,       \* server_port
  server,     \* server thread: "down", "bind", "recv", "interpret"
  serving,    \* the client whose request it has received and not answered
  owes,       \* the REP socket has received and not sent
  database,   \* database thread: "open", "indexing", "ended"
  writer,     \* the daemon that holds the write lock of the database
  stored,     \* the document that queries look for is in the database
  starts      \* daemon starts so far

clientVars == <<cli, connected, host, attached, request>>
networkVars == <<pipe, inbox, reply>>
serverVars == <<port, server, serving, owes>>
databaseVars == <<database, writer, stored>>
vars == <<clientVars, networkVars, serverVars, databaseVars, starts>>

TypeOK ==
  /\ cli \in [Clients -> {"prompt", "waiting", "blocked", "exited"}]
  /\ connected \in [Clients -> BOOLEAN]
  /\ host \in [Clients -> Ports \cup {BadHost}]
  /\ attached \in [Clients -> SUBSET Ports]
  /\ request \in [Clients -> Kinds \cup {Nobody}]
  /\ pipe \in [Clients -> Ports \cup {Nobody}]
  /\ inbox \in [Daemons -> SUBSET Clients]
  /\ reply \in [Clients -> Messages \cup {Nobody}]
  /\ port \in [Daemons -> Ports]
  /\ server \in [Daemons -> {"down", "bind", "recv", "interpret"}]
  /\ serving \in [Daemons -> Clients \cup {Nobody}]
  /\ owes \in [Daemons -> BOOLEAN]
  /\ database \in [Daemons -> {"open", "indexing", "ended"}]
  /\ writer \in Daemons \cup {Nobody}
  /\ stored \in BOOLEAN
  /\ starts \in 0 .. MaxStarts

\* The daemons whose REP socket is bound.
Bound == {d \in Daemons : server[d] \in {"recv", "interpret"}}

Init ==
  /\ cli = [c \in Clients |-> "prompt"]
  /\ connected = [c \in Clients |-> FALSE]
  /\ host = [c \in Clients |-> DefaultPort]
  /\ attached = [c \in Clients |-> {}]
  /\ request = [c \in Clients |-> Nobody]
  /\ pipe = [c \in Clients |-> Nobody]
  /\ inbox = [d \in Daemons |-> {}]
  /\ reply = [c \in Clients |-> Nobody]
  /\ port = [d \in Daemons |-> DefaultPort]
  /\ server = [d \in Daemons |-> "down"]
  /\ serving = [d \in Daemons |-> Nobody]
  /\ owes = [d \in Daemons |-> FALSE]
  /\ database = [d \in Daemons |-> "ended"]
  /\ writer = Nobody
  /\ stored = FALSE
  /\ starts = 0

-----------------------------------------------------------------------------
(* The command-line client.                                                *)

\* socket.send to one of the endpoints, then recv.
SendRequest(c, kind, endpoints) ==
  /\ \E p \in endpoints : pipe' = [pipe EXCEPT ![c] = p]
  /\ cli' = [cli EXCEPT ![c] = "waiting"]
  /\ request' = [request EXCEPT ![c] = kind]

\* connect: the flag is set first; the endpoint is added to the ones the socket
\* already has.
ConnectCmd(c, p) ==
  /\ cli[c] = "prompt"
  /\ host' = [host EXCEPT ![c] = p]
  /\ connected' = [connected EXCEPT ![c] = TRUE]
  /\ attached' = [attached EXCEPT ![c] = @ \cup {p}]
  /\ SendRequest(c, "connect", attached'[c])
  /\ UNCHANGED <<inbox, reply, serverVars, databaseVars, starts>>

\* connect with a host that ZeroMQ refuses: socket.connect throws, the command
\* loop catches, and host, port and the flag stay as they were just set.
ConnectRefused(c) ==
  /\ cli[c] = "prompt"
  /\ host' = [host EXCEPT ![c] = BadHost]
  /\ connected' = [connected EXCEPT ![c] = TRUE]
  /\ UNCHANGED <<cli, attached, request, networkVars, serverVars, databaseVars,
                 starts>>

\* disconnect.  With a bad host socket.disconnect throws and the flag stays.
DisconnectCmd(c) ==
  /\ cli[c] = "prompt"
  /\ connected[c]
  /\ host[c] \in attached[c]
  /\ attached' = [attached EXCEPT ![c] = @ \ {host[c]}]
  /\ connected' = [connected EXCEPT ![c] = FALSE]
  /\ UNCHANGED <<cli, host, request, networkVars, serverVars, databaseVars,
                 starts>>

\* db: refused unless connected.
DbCmd(c) ==
  /\ cli[c] = "prompt"
  /\ connected[c]
  /\ \E k \in DbKinds : SendRequest(c, k, attached[c])
  /\ UNCHANGED <<connected, host, attached, inbox, reply, serverVars,
                 databaseVars, starts>>

\* db on a socket attached to nothing: send never returns.
DbCmdBlocks(c) ==
  /\ cli[c] = "prompt"
  /\ connected[c]
  /\ attached[c] = {}
  /\ cli' = [cli EXCEPT ![c] = "blocked"]
  /\ UNCHANGED <<connected, host, attached, request, networkVars, serverVars,
                 databaseVars, starts>>

\* recv returns.
ReceiveReply(c) ==
  /\ cli[c] = "waiting"
  /\ reply[c] # Nobody
  /\ cli' = [cli EXCEPT ![c] = "prompt"]
  /\ request' = [request EXCEPT ![c] = Nobody]
  /\ reply' = [reply EXCEPT ![c] = Nobody]
  /\ UNCHANGED <<connected, host, attached, pipe, inbox, serverVars, databaseVars,
                 starts>>

\* exit, or the client is interrupted: its variables, its socket and what waits
\* in it go.
ExitCli(c) ==
  /\ cli[c] # "exited"
  /\ cli' = [cli EXCEPT ![c] = "exited"]
  /\ connected' = [connected EXCEPT ![c] = FALSE]
  /\ host' = [host EXCEPT ![c] = DefaultPort]
  /\ attached' = [attached EXCEPT ![c] = {}]
  /\ pipe' = [pipe EXCEPT ![c] = Nobody]
  /\ reply' = [reply EXCEPT ![c] = Nobody]
  /\ UNCHANGED <<request, inbox, serverVars, databaseVars, starts>>

\* ZeroMQ takes a request over to the daemon that has bound the port.
Deliver(c) ==
  /\ \E d \in Bound :
       /\ port[d] = pipe[c]
       /\ inbox' = [inbox EXCEPT ![d] = @ \cup {c}]
  /\ pipe' = [pipe EXCEPT ![c] = Nobody]
  /\ UNCHANGED <<clientVars, reply, serverVars, databaseVars, starts>>

-----------------------------------------------------------------------------
(* The daemon.                                                             *)

\* main: both threads are started.  Without an input file the second one only
\* counts the documents and ends.
Start(d) ==
  /\ server[d] = "down"
  /\ starts < MaxStarts
  /\ starts' = starts + 1
  /\ server' = [server EXCEPT ![d] = "bind"]
  /\ \/ /\ port' = [port EXCEPT ![d] = DefaultPort]
        /\ database' = [database EXCEPT ![d] = "open"]
     \/ /\ \E p \in Ports : port' = [port EXCEPT ![d] = p]
        /\ database' = [database EXCEPT ![d] = "ended"]
  /\ UNCHANGED <<clientVars, networkVars, serving, owes, writer, stored>>

\* Mistake: what the server thread throws ends only that thread.
DiesServerThreadOnly(d) ==
  /\ server' = [server EXCEPT ![d] = "down"]
  /\ serving' = [serving EXCEPT ![d] = Nobody]
  /\ owes' = [owes EXCEPT ![d] = FALSE]
  /\ inbox' = [inbox EXCEPT ![d] = {}]
  /\ UNCHANGED <<clientVars, pipe, reply, port, databaseVars, starts>>

\* The process ends, with both threads: the requests it had taken in are gone,
\* replies it had not got rid of may be, and an index not committed is dropped.
Dies(d) ==
  /\ server' = [server EXCEPT ![d] = "down"]
  /\ serving' = [serving EXCEPT ![d] = Nobody]
  /\ owes' = [owes EXCEPT ![d] = FALSE]
  /\ database' = [database EXCEPT ![d] = "ended"]
  /\ writer' = IF writer = d THEN Nobody ELSE writer
  /\ inbox' = [inbox EXCEPT ![d] = {}]
  /\ \E L \in SUBSET {c \in Clients : reply[c] # Nobody /\ reply[c].from = d} :
       reply' = [c \in Clients |-> IF c \in L THEN Nobody ELSE reply[c]]
  /\ UNCHANGED <<clientVars, pipe, port, stored, starts>>

\* run_server: the socket is bound.
Bind(d) ==
  /\ server[d] = "bind"
  /\ \A e \in Bound : port[e] # port[d]
  /\ server' = [server EXCEPT ![d] = "recv"]
  /\ UNCHANGED <<clientVars, networkVars, port, serving, owes, databaseVars,
                 starts>>

\* Another daemon has the port: bind throws, and nothing catches it.
BindThrows(d) ==
  /\ server[d] = "bind"
  /\ \E e \in Bound : port[e] = port[d]
  /\ Dies(d)

\* kill_daemon, or Ctrl-C.
Kill(d) ==
  /\ server[d] # "down"
  /\ Dies(d)

\* Mistake: the request that is returned stays in the queue.
ServerRecvKeeps(d, c) ==
  /\ server[d] = "recv"
  /\ ~owes[d]
  /\ c \in inbox[d]
  /\ server' = [server EXCEPT ![d] = "interpret"]
  /\ serving' = [serving EXCEPT ![d] = c]
  /\ owes' = [owes EXCEPT ![d] = TRUE]
  /\ UNCHANGED <<clientVars, networkVars, port, databaseVars, starts>>

\* Mistake: the server reads one request and lets go of the others.
ServerRecvOnlyOne(d, c) ==
  /\ server[d] = "recv"
  /\ ~owes[d]
  /\ c \in inbox[d]
  /\ inbox' = [inbox EXCEPT ![d] = {}]
  /\ server' = [server EXCEPT ![d] = "interpret"]
  /\ serving' = [serving EXCEPT ![d] = c]
  /\ owes' = [owes EXCEPT ![d] = TRUE]
  /\ UNCHANGED <<clientVars, pipe, reply, port, databaseVars, starts>>

\* recv returns one of the requests that have arrived.
ServerRecv(d, c) ==
  /\ server[d] = "recv"
  /\ ~owes[d]
  /\ c \in inbox[d]
  /\ inbox' = [inbox EXCEPT ![d] = @ \ {c}]
  /\ server' = [server EXCEPT ![d] = "interpret"]
  /\ serving' = [serving EXCEPT ![d] = c]
  /\ owes' = [owes EXCEPT ![d] = TRUE]
  /\ UNCHANGED <<clientVars, pipe, reply, port, databaseVars, starts>>

\* recv while a reply is owed: the exception leaves the thread, and with it
\* goes the process.
ServerRecvThrows(d) ==
  /\ server[d] = "recv"
  /\ owes[d]
  /\ Dies(d)

\* db_query: what a search finds; without a database it finds nothing.
QueryResult == IF stored THEN "hits" ELSE "no hits"

\* Mistake: the db branch has no case for adding.
ReplyToNoAdd(kind) ==
  CASE kind = "connect" -> "accept"
    [] kind = "query" -> QueryResult
    [] OTHER -> Nobody

\* What interpret_query sends back; Nobody where it sends nothing.  Its reply to
\* a command it does not know is left out: the clients send no such request.
ReplyTo(kind) ==
  CASE kind = "connect" -> "accept"
    [] kind = "query" -> QueryResult
    [] kind = "add" -> "echo"
    [] OTHER -> Nobody

\* Mistake: what no branch produced is sent all the same.
InterpretSendsNothing(d) ==
  /\ server[d] = "interpret"
  /\ LET c == serving[d]
     IN reply' = IF cli[c] # "waiting" THEN reply
                 ELSE [reply EXCEPT ![c] = [from |-> d, body |-> ReplyTo(request[c])]]
  /\ owes' = [owes EXCEPT ![d] = FALSE]
  /\ server' = [server EXCEPT ![d] = "recv"]
  /\ UNCHANGED <<clientVars, pipe, inbox, port, serving, databaseVars, starts>>

\* interpret_query, back to recv.  The reply to a client that has gone is
\* dropped by the socket.
Interpret(d) ==
  /\ server[d] = "interpret"
  /\ LET c == serving[d]
         body == ReplyTo(request[c])
     IN /\ reply' = IF body = Nobody \/ cli[c] # "waiting" THEN reply
                    ELSE [reply EXCEPT ![c] = [from |-> d, body |-> body]]
        /\ owes' = [owes EXCEPT ![d] = body = Nobody]
        /\ serving' = [serving EXCEPT ![d] = IF body = Nobody THEN c ELSE Nobody]
  /\ server' = [server EXCEPT ![d] = "recv"]
  /\ UNCHANGED <<clientVars, pipe, inbox, port, databaseVars, starts>>

\* Mistake: the database is created anew (DB_CREATE_OR_OVERWRITE).
DatabaseOpenOverwrites(d) ==
  /\ database[d] = "open"
  /\ writer = Nobody
  /\ writer' = d
  /\ stored' = FALSE
  /\ database' = [database EXCEPT ![d] = "indexing"]
  /\ UNCHANGED <<clientVars, networkVars, serverVars, starts>>

\* run_database: index_db opens the database for writing.
DatabaseOpen(d) ==
  /\ database[d] = "open"
  /\ writer = Nobody
  /\ writer' = d
  /\ database' = [database EXCEPT ![d] = "indexing"]
  /\ UNCHANGED <<clientVars, networkVars, serverVars, stored, starts>>

\* Another daemon holds the lock: the constructor throws outside index_db's
\* try, and the process goes.
DatabaseLocked(d) ==
  /\ database[d] = "open"
  /\ writer # Nobody
  /\ Dies(d)

\* Mistake: the database is left open by the thread that ends.
DatabaseCommitLeavesOpen(d) ==
  /\ database[d] = "indexing"
  /\ stored' = TRUE
  /\ database' = [database EXCEPT ![d] = "ended"]
  /\ UNCHANGED <<clientVars, networkVars, serverVars, writer, starts>>

\* The documents are added and committed, the database is closed.
DatabaseCommit(d) ==
  /\ database[d] = "indexing"
  /\ stored' = TRUE
  /\ writer' = Nobody
  /\ database' = [database EXCEPT ![d] = "ended"]
  /\ UNCHANGED <<clientVars, networkVars, serverVars, starts>>

\* A Xapian::Error is caught and logged: the database is closed with what was
\* added before it, if that can be committed, and the daemon goes on.
DatabaseFails(d) ==
  /\ database[d] = "indexing"
  /\ stored' \in {stored, TRUE}
  /\ writer' = Nobody
  /\ database' = [database EXCEPT ![d] = "ended"]
  /\ UNCHANGED <<clientVars, networkVars, serverVars, starts>>

-----------------------------------------------------------------------------
Client(c) ==
  \/ \E p \in Ports : ConnectCmd(c, p)
  \/ ConnectRefused(c)
  \/ DisconnectCmd(c)
  \/ DbCmd(c)
  \/ DbCmdBlocks(c)
  \/ ReceiveReply(c)
  \/ ExitCli(c)

Daemon(d) ==
  \/ Start(d)
  \/ Bind(d)
  \/ BindThrows(d)
  \/ Kill(d)
  \/ \E c \in Clients : ServerRecv(d, c)
  \/ ServerRecvThrows(d)
  \/ Interpret(d)
  \/ DatabaseOpen(d)
  \/ DatabaseLocked(d)
  \/ DatabaseCommit(d)
  \/ DatabaseFails(d)

Next ==
  \/ \E c \in Clients : Client(c) \/ Deliver(c)
  \/ \E d \in Daemons : Daemon(d)

Spec == Init /\ [][Next]_vars

\* Threads run and ZeroMQ moves messages; REP takes requests from its peers in
\* turn, so one that stays is taken even though others are taken in between.
\* Nothing is assumed of the users, nor that a daemon is started, nor that
\* index_db ends: it does not over a file that it cannot read.
Fairness ==
  /\ \A c \in Clients : WF_vars(Deliver(c)) /\ WF_vars(ReceiveReply(c))
  /\ \A d \in Daemons :
       /\ WF_vars(Bind(d) \/ BindThrows(d))
       /\ \A c \in Clients : SF_vars(ServerRecv(d, c))
       /\ WF_vars(ServerRecvThrows(d))
       /\ WF_vars(Interpret(d))
       /\ WF_vars(DatabaseOpen(d) \/ DatabaseLocked(d))

FairSpec == Spec /\ Fairness

-----------------------------------------------------------------------------
(* What holds.                                                             *)

\* Client c's request, on its way to an answer: in its pipe, at a daemon, or
\* being interpreted.
Underway(c) ==
  \/ pipe[c] # Nobody
  \/ \E d \in Daemons : c \in inbox[d] \/ (server[d] = "interpret" /\ serving[d] = c)

\* Daemon d has taken c's request in and not answered it.
AtDaemon(d, c) == c \in inbox[d] \/ (owes[d] /\ serving[d] = c)

\* A request is in one place only, and with its reply in none; a client that is
\* at its prompt has nothing underway and no reply that could reach it later,
\* so a reply is never taken for the answer to another request.
OneCopy ==
  \A c \in Clients :
    /\ pipe[c] # Nobody =>
         cli[c] = "waiting" /\ reply[c] = Nobody /\ \A d \in Daemons : ~AtDaemon(d, c)
    /\ \A d \in Daemons :
         AtDaemon(d, c) =>
           /\ cli[c] \in {"waiting", "exited"}
           /\ reply[c] = Nobody
           /\ ~(c \in inbox[d] /\ owes[d] /\ serving[d] = c)
           /\ \A e \in Daemons : AtDaemon(e, c) => e = d
    /\ reply[c] # Nobody => cli[c] = "waiting"

\* The server thread owes a reply at its next recv only for a request that
\* interpret_query answers in none of its branches.
DiesOfSilenceOnly ==
  \A d \in Daemons :
    server[d] = "recv" /\ owes[d] =>
      serving[d] # Nobody /\ request[serving[d]] = "other"

\* The write lock is held by a daemon that is alive and indexing.
WriterAlive ==
  \A d \in Daemons :
    (writer = d) <=> (database[d] = "indexing" /\ server[d] # "down")

\* A daemon's threads live and end together, its server thread interprets only
\* what it owes a reply to, and no request is without a kind.
ThreadsTogether ==
  /\ \A d \in Daemons :
       /\ server[d] = "down" => database[d] = "ended" /\ inbox[d] = {}
       /\ server[d] = "interpret" => owes[d]
       /\ owes[d] => d \in Bound /\ serving[d] \in Clients
  /\ \A c \in Clients :
       cli[c] = "waiting" \/ (\E d \in Daemons : AtDaemon(d, c)) =>
         request[c] \in Kinds

\* A client that waits on a daemon which knows its request gets an answer, in
\* spite of other clients, unless the daemon goes down.
AnsweredWhileUp ==
  \A c \in Clients, d \in Daemons :
    (/\ cli[c] = "waiting" /\ request[c] # "other" /\ d \in Bound
     /\ pipe[c] = port[d] \/ c \in inbox[d]) ~>
      (cli[c] # "waiting" \/ server[d] = "down")

\* What client c waits for, and the answer on its way to it: the service's view.
Asked == [c \in Clients |-> IF cli[c] = "waiting" THEN request[c] ELSE Nobody]
Answered ==
  [c \in Clients |->
    IF cli[c] # "waiting" THEN Nobody
    ELSE IF reply[c] # Nobody THEN reply[c].body
    ELSE IF Underway(c) THEN Nobody ELSE "lost"]

\* The daemon and its clients implement the search service.
Service == INSTANCE SearchService WITH
  Nothing <- Nobody, Lost <- "lost",
  asked <- Asked, answer <- Answered, stored <- stored

ServiceSpec == Service!ServiceSpec

-----------------------------------------------------------------------------
(* What the repository says and the code does not do.                      *)

\* cli.cpp, in connect and in db_cmd after the send: "wait for reply from
\* server".  By the time run_server is back at recv, interpret_query has sent a
\* reply to the request it was given.
EveryRequestAnswered == \A d \in Daemons : server[d] = "recv" => ~owes[d]

\* The help text of db: "You must have connected to a neroshop daemon first".  A
\* db command that gets past the flag is sent over a socket that is attached to
\* the daemon the client connected to last.
DbNeedsConnect ==
  \A c \in Clients :
    cli[c] = "blocked" \/ (cli[c] = "waiting" /\ request[c] \in DbKinds) =>
      host[c] \in attached[c]

=============================================================================
