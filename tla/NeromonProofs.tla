---------------------------- MODULE NeromonProofs ----------------------------
(***************************************************************************)
(* Proofs about Neromon, for any clients, daemons, ports and bounds: its   *)
(* type invariant, that a request is in one place and its reply in none,   *)
(* why a server thread may throw, that the database lock is held by a live *)
(* daemon, and that the whole implements SearchService.                    *)
(***************************************************************************)
EXTENDS Neromon, TLAPS

\* interpret_query answers every kind of request but one, and as the service
\* promises.
LEMMA RepliesToAllButOther ==
  ASSUME NEW kind \in Kinds
  PROVE  /\ ReplyTo(kind) = Nobody <=> kind = "other"
         /\ kind # "other" => /\ ReplyTo(kind) \in Replies
                              /\ ReplyTo(kind) = Service!AnswerTo(kind, stored)
  BY NobodyAssumption
  DEF Kinds, Replies, Messages, ReplyTo, QueryResult, Service!AnswerTo

\* The initial state is of the right type.
LEMMA InitType == Init => TypeOK
<1> SUFFICES ASSUME Init PROVE TypeOK
  OBVIOUS
<1> USE PortAssumption, BoundAssumption DEF Init
<1>1. connected \in [Clients -> BOOLEAN] /\ owes \in [Daemons -> BOOLEAN]
      /\ stored \in BOOLEAN
  OBVIOUS
<1>2. starts \in 0 .. MaxStarts
  OBVIOUS
<1>. QED
  BY <1>1, <1>2 DEF TypeOK

\* The end of a process keeps every variable in its type.
LEMMA DiesType ==
  ASSUME TypeOK, NEW d \in Daemons, Dies(d)
  PROVE  TypeOK'
<1>1. owes' \in [Daemons -> BOOLEAN] /\ connected' \in [Clients -> BOOLEAN]
      /\ stored' \in BOOLEAN
  BY DEF Dies, TypeOK, clientVars
<1>2. reply' \in [Clients -> Messages \cup {Nobody}]
  BY DEF Dies, TypeOK
<1>3. server' \in [Daemons -> {"down", "bind", "recv", "interpret"}]
      /\ serving' \in [Daemons -> Clients \cup {Nobody}]
      /\ database' \in [Daemons -> {"open", "indexing", "ended"}]
      /\ writer' \in Daemons \cup {Nobody} /\ inbox' \in [Daemons -> SUBSET Clients]
  BY DEF Dies, TypeOK
<1>. QED
  BY <1>1, <1>2, <1>3 DEF Dies, TypeOK, clientVars

\* Every step preserves the type invariant.
LEMMA TypeStep ==
  ASSUME TypeOK, ThreadsTogether, [Next]_vars
  PROVE  TypeOK'
<1> USE BoundAssumption DEF clientVars, networkVars, serverVars, databaseVars
<1>1. ASSUME NEW c \in Clients, NEW p \in Ports, ConnectCmd(c, p)
      PROVE  TypeOK'
  <2>1. connected' \in [Clients -> BOOLEAN]
    BY <1>1 DEF ConnectCmd, TypeOK
  <2>2. attached' \in [Clients -> SUBSET Ports]
    BY <1>1 DEF ConnectCmd, TypeOK
  <2>3. pipe' \in [Clients -> Ports \cup {Nobody}]
    BY <1>1, <2>2 DEF ConnectCmd, SendRequest, TypeOK
  <2>. QED
    BY <1>1, <2>1, <2>2, <2>3 DEF ConnectCmd, SendRequest, TypeOK, Kinds
<1>2. ASSUME NEW c \in Clients, ConnectRefused(c) \/ DisconnectCmd(c)
      PROVE  TypeOK'
  <2>1. connected' \in [Clients -> BOOLEAN]
    BY <1>2 DEF ConnectRefused, DisconnectCmd, TypeOK
  <2>. QED
    BY <1>2, <2>1 DEF ConnectRefused, DisconnectCmd, TypeOK
<1>3. ASSUME NEW c \in Clients, DbCmd(c) \/ DbCmdBlocks(c)
      PROVE  TypeOK'
  <2>1. CASE DbCmd(c)
    <3>1. pipe' \in [Clients -> Ports \cup {Nobody}]
      BY <2>1 DEF DbCmd, SendRequest, TypeOK
    <3>. QED
      BY <2>1, <3>1 DEF DbCmd, SendRequest, TypeOK, DbKinds, Kinds
  <2>2. CASE DbCmdBlocks(c)
    BY <2>2 DEF DbCmdBlocks, TypeOK
  <2>. QED
    BY <1>3, <2>1, <2>2
<1>4. ASSUME NEW c \in Clients, ReceiveReply(c) \/ ExitCli(c) \/ Deliver(c)
      PROVE  TypeOK'
  <2>1. CASE ReceiveReply(c)
    BY <2>1 DEF ReceiveReply, TypeOK
  <2>2. CASE ExitCli(c)
    <3>1. connected' \in [Clients -> BOOLEAN]
      BY <2>2 DEF ExitCli, TypeOK
    <3>2. host' \in [Clients -> Ports \cup {BadHost}]
      BY <2>2, PortAssumption DEF ExitCli, TypeOK
    <3>. QED
      BY <2>2, <3>1, <3>2 DEF ExitCli, TypeOK
  <2>3. CASE Deliver(c)
    <3>1. inbox' \in [Daemons -> SUBSET Clients]
      BY <2>3 DEF Deliver, Bound, TypeOK
    <3>. QED
      BY <2>3, <3>1 DEF Deliver, TypeOK
  <2>. QED
    BY <1>4, <2>1, <2>2, <2>3
<1>5. ASSUME NEW d \in Daemons, Start(d)
      PROVE  TypeOK'
  BY <1>5, PortAssumption DEF Start, TypeOK
<1>6. ASSUME NEW d \in Daemons,
             Kill(d) \/ BindThrows(d) \/ ServerRecvThrows(d) \/ DatabaseLocked(d)
      PROVE  TypeOK'
  BY <1>6, DiesType DEF Kill, BindThrows, ServerRecvThrows, DatabaseLocked
<1>7. ASSUME NEW d \in Daemons, Bind(d)
      PROVE  TypeOK'
  BY <1>7 DEF Bind, TypeOK
<1>8. ASSUME NEW d \in Daemons, NEW c \in Clients, ServerRecv(d, c)
      PROVE  TypeOK'
  <2>1. owes' \in [Daemons -> BOOLEAN]
    BY <1>8 DEF ServerRecv, TypeOK
  <2>. QED
    BY <1>8, <2>1 DEF ServerRecv, TypeOK
<1>9. ASSUME NEW d \in Daemons, Interpret(d)
      PROVE  TypeOK'
  <2> DEFINE c == serving[d]
  <2>1. c \in Clients /\ request[c] \in Kinds
    BY <1>9 DEF Interpret, ThreadsTogether, AtDaemon
  <2>2. ReplyTo(request[c]) \in Replies \cup {Nobody}
    BY <2>1, RepliesToAllButOther
  <2>3. reply' \in [Clients -> Messages \cup {Nobody}]
    BY <1>9, <2>1, <2>2 DEF Interpret, Messages, TypeOK
  <2>4. owes' \in [Daemons -> BOOLEAN]
    BY <1>9 DEF Interpret, TypeOK
  <2>5. serving' \in [Daemons -> Clients \cup {Nobody}]
    BY <1>9, <2>1 DEF Interpret, TypeOK
  <2>. QED
    BY <1>9, <2>3, <2>4, <2>5 DEF Interpret, TypeOK
<1>10. ASSUME NEW d \in Daemons,
              DatabaseOpen(d) \/ DatabaseCommit(d) \/ DatabaseFails(d)
       PROVE  TypeOK'
  <2>1. stored' \in BOOLEAN
    BY <1>10 DEF DatabaseOpen, DatabaseCommit, DatabaseFails, TypeOK
  <2>. QED
    BY <1>10, <2>1 DEF DatabaseOpen, DatabaseCommit, DatabaseFails, TypeOK
<1>11. CASE UNCHANGED vars
  BY <1>11 DEF vars, TypeOK
<1>. QED
  BY <1>1, <1>2, <1>3, <1>4, <1>5, <1>6, <1>7, <1>8, <1>9, <1>10, <1>11
  DEF Next, Client, Daemon

-----------------------------------------------------------------------------
(* The inductive invariant is the conjunction of the invariants that TLC    *)
(* checks: OneCopy keeps request[c] as it is while a daemon owes c a reply, *)
(* ThreadsTogether says that there is such a c and what becomes of the      *)
(* daemon that does not reply.                                              *)

NeromonInv ==
  TypeOK /\ OneCopy /\ ThreadsTogether /\ DiesOfSilenceOnly /\ WriterAlive

\* The initial state satisfies the invariant.
LEMMA InitInv == Init => NeromonInv
<1> SUFFICES ASSUME Init PROVE NeromonInv
  OBVIOUS
<1>1. TypeOK
  BY InitType
<1>2. OneCopy
  BY NobodyAssumption DEF Init, OneCopy, AtDaemon
<1>3. ThreadsTogether
  BY DEF Init, ThreadsTogether, AtDaemon
<1>4. DiesOfSilenceOnly /\ WriterAlive
  BY NobodyAssumption DEF Init, DiesOfSilenceOnly, WriterAlive
<1>. QED
  BY <1>1, <1>2, <1>3, <1>4 DEF NeromonInv

\* A client at its prompt has no request anywhere and no reply coming.
LEMMA NothingAtPrompt ==
  ASSUME OneCopy, NEW c \in Clients, cli[c] = "prompt"
  PROVE  pipe[c] = Nobody /\ reply[c] = Nobody /\ \A d \in Daemons : ~AtDaemon(d, c)
  BY DEF OneCopy

\* When a process ends it has no request and no lock, and nothing else moves.
LEMMA DiesEffect ==
  ASSUME TypeOK, NEW d \in Daemons, Dies(d)
  PROVE  /\ \A c \in Clients : ~AtDaemon(d, c)'
         /\ \A e \in Daemons \ {d}, c \in Clients : AtDaemon(e, c)' <=> AtDaemon(e, c)
         /\ \A c \in Clients : reply'[c] = reply[c] \/ reply'[c] = Nobody
  BY DEF TypeOK, Dies, AtDaemon

\* Every step keeps each request in one place, and its reply in none.
LEMMA OneCopyStep ==
  ASSUME NeromonInv, [Next]_vars
  PROVE  OneCopy'
<1> USE DEF NeromonInv, clientVars, networkVars, serverVars, databaseVars
<1>1. ASSUME NEW c \in Clients, NEW kind, NEW endpoints, cli[c] = "prompt",
             SendRequest(c, kind, endpoints),
             UNCHANGED <<inbox, reply, serverVars>>
      PROVE  OneCopy'
  BY <1>1, NothingAtPrompt DEF SendRequest, TypeOK, OneCopy, AtDaemon
<1>2. ASSUME NEW c \in Clients, NEW p \in Ports, ConnectCmd(c, p)
      PROVE  OneCopy'
  BY <1>1, <1>2 DEF ConnectCmd
<1>3. ASSUME NEW c \in Clients, DbCmd(c)
      PROVE  OneCopy'
  BY <1>1, <1>3 DEF DbCmd
<1>4. ASSUME NEW c \in Clients, ConnectRefused(c) \/ DisconnectCmd(c)
      PROVE  OneCopy'
  BY <1>4 DEF ConnectRefused, DisconnectCmd, OneCopy, AtDaemon
<1>5. ASSUME NEW c \in Clients, DbCmdBlocks(c)
      PROVE  OneCopy'
  BY <1>5, NothingAtPrompt DEF DbCmdBlocks, TypeOK, OneCopy, AtDaemon
<1>6. ASSUME NEW c \in Clients, ReceiveReply(c)
      PROVE  OneCopy'
  BY <1>6 DEF ReceiveReply, TypeOK, OneCopy, AtDaemon
<1>7. ASSUME NEW c \in Clients, ExitCli(c)
      PROVE  OneCopy'
  BY <1>7 DEF ExitCli, TypeOK, OneCopy, AtDaemon
<1>8. ASSUME NEW c \in Clients, Deliver(c)
      PROVE  OneCopy'
  <2>1. PICK d \in Bound : /\ port[d] = pipe[c]
                           /\ inbox' = [inbox EXCEPT ![d] = @ \cup {c}]
    BY <1>8 DEF Deliver
  <2>2. pipe[c] # Nobody
    BY <2>1, NobodyAssumption DEF Bound, TypeOK
  <2>3. \A e \in Daemons, x \in Clients :
          AtDaemon(e, x)' <=> AtDaemon(e, x) \/ (e = d /\ x = c)
    BY <1>8, <2>1 DEF Deliver, Bound, TypeOK, AtDaemon
  <2>. QED
    BY <1>8, <2>1, <2>2, <2>3 DEF Deliver, Bound, TypeOK, OneCopy, AtDaemon
<1>9. ASSUME NEW d \in Daemons, Start(d)
      PROVE  OneCopy'
  BY <1>9 DEF Start, OneCopy, AtDaemon
<1>10. ASSUME NEW d \in Daemons,
              Kill(d) \/ BindThrows(d) \/ ServerRecvThrows(d) \/ DatabaseLocked(d)
       PROVE  OneCopy'
  <2>1. Dies(d)
    BY <1>10 DEF Kill, BindThrows, ServerRecvThrows, DatabaseLocked
  <2>2. \A e \in Daemons, x \in Clients : AtDaemon(e, x)' => e # d /\ AtDaemon(e, x)
    BY <2>1, DiesEffect
  <2>3. UNCHANGED <<cli, pipe>>
    BY <2>1 DEF Dies
  <2>4. \A e \in Daemons \ {d} :
          inbox'[e] = inbox[e] /\ owes'[e] = owes[e] /\ serving'[e] = serving[e]
    BY <2>1 DEF Dies, TypeOK
  <2>. QED
    BY <2>1, <2>2, <2>3, <2>4, DiesEffect DEF OneCopy
<1>11. ASSUME NEW d \in Daemons,
              Bind(d) \/ DatabaseOpen(d) \/ DatabaseCommit(d) \/ DatabaseFails(d)
       PROVE  OneCopy'
  <2>1. UNCHANGED <<cli, pipe, inbox, reply, serving, owes>>
    BY <1>11 DEF Bind, DatabaseOpen, DatabaseCommit, DatabaseFails
  <2>. QED
    BY <2>1 DEF OneCopy, AtDaemon
<1>12. ASSUME NEW d \in Daemons, NEW c \in Clients, ServerRecv(d, c)
       PROVE  OneCopy'
  <2>1. /\ inbox'[d] = inbox[d] \ {c} /\ owes'[d] /\ serving'[d] = c
        /\ ~owes[d] /\ c \in inbox[d]
        /\ UNCHANGED <<cli, pipe, reply>>
    BY <1>12 DEF ServerRecv, TypeOK
  <2>2. \A e \in Daemons \ {d} :
          inbox'[e] = inbox[e] /\ owes'[e] = owes[e] /\ serving'[e] = serving[e]
    BY <1>12 DEF ServerRecv, TypeOK
  <2>3. \A e \in Daemons, x \in Clients : AtDaemon(e, x)' <=> AtDaemon(e, x)
    BY <2>1, <2>2 DEF AtDaemon
  <2>4. \A e \in Daemons, x \in Clients :
          AtDaemon(e, x) => ~(x \in inbox'[e] /\ owes'[e] /\ serving'[e] = x)
    BY <2>1, <2>2 DEF OneCopy
  <2>. QED
    BY <2>1, <2>3, <2>4 DEF OneCopy
<1>13. ASSUME NEW d \in Daemons, Interpret(d)
       PROVE  OneCopy'
  <2>1. PICK c \in Clients : c = serving[d] /\ owes[d] /\ AtDaemon(d, c)
    BY <1>13 DEF Interpret, ThreadsTogether, AtDaemon
  <2> DEFINE body == ReplyTo(request[c])
  <2>2. /\ UNCHANGED <<cli, pipe, inbox>>
        /\ owes'[d] = (body = Nobody)
        /\ owes'[d] => serving'[d] = c
        /\ \A e \in Daemons \ {d} : owes'[e] = owes[e] /\ serving'[e] = serving[e]
        /\ \A x \in Clients \ {c} : reply'[x] = reply[x]
    BY <1>13, <2>1 DEF Interpret, TypeOK
  <2>3. \A e \in Daemons, x \in Clients : AtDaemon(e, x)' => AtDaemon(e, x)
    BY <2>1, <2>2 DEF AtDaemon
  <2>4. \A e \in Daemons, x \in Clients :
          AtDaemon(e, x) => ~(x \in inbox'[e] /\ owes'[e] /\ serving'[e] = x)
    BY <2>1, <2>2 DEF OneCopy, AtDaemon
  <2>5. CASE body = Nobody \/ cli[c] # "waiting"
    <3>1. UNCHANGED <<cli, pipe, reply>>
      BY <1>13, <2>1, <2>5 DEF Interpret
    <3>. QED
      BY <2>3, <2>4, <3>1 DEF OneCopy
  <2>6. CASE body # Nobody /\ cli[c] = "waiting"
    <3>1. \A e \in Daemons : ~AtDaemon(e, c)'
      <4>1. \A e \in Daemons : AtDaemon(e, c) => e = d
        BY <2>1 DEF OneCopy
      <4>2. c \notin inbox[d]
        BY <2>1 DEF OneCopy, AtDaemon
      <4>3. ~owes'[d]
        BY <2>2, <2>6
      <4>. QED
        BY <2>2, <2>3, <4>1, <4>2, <4>3 DEF AtDaemon
    <3>2. pipe[c] = Nobody
      BY <2>1 DEF OneCopy
    <3>3. ASSUME NEW x \in Clients \ {c}
          PROVE  \A e \in Daemons :
                   AtDaemon(e, x)' =>
                     /\ AtDaemon(e, x)
                     /\ ~(x \in inbox'[e] /\ owes'[e] /\ serving'[e] = x)
      BY <2>3, <2>4
    <3>. QED
      BY <2>2, <2>3, <2>6, <3>1, <3>2, <3>3 DEF OneCopy
  <2>. QED
    BY <2>5, <2>6
<1>14. CASE UNCHANGED vars
  BY <1>14 DEF vars, OneCopy, AtDaemon
<1>. QED
  BY <1>2, <1>3, <1>4, <1>5, <1>6, <1>7, <1>8, <1>9, <1>10, <1>11, <1>12, <1>13,
     <1>14 DEF Next, Client, Daemon

\* A daemon's threads stay together, and requests keep their kinds.
LEMMA ThreadsTogetherStep ==
  ASSUME NeromonInv, [Next]_vars
  PROVE  ThreadsTogether'
<1> USE DEF NeromonInv, clientVars, networkVars, serverVars, databaseVars
<1>1. ASSUME NEW c \in Clients, NEW kind \in Kinds, NEW endpoints,
             cli[c] = "prompt", SendRequest(c, kind, endpoints),
             UNCHANGED <<inbox, serverVars, databaseVars>>
      PROVE  ThreadsTogether'
  BY <1>1 DEF SendRequest, TypeOK, ThreadsTogether, AtDaemon, Bound
<1>2. ASSUME NEW c \in Clients, NEW p \in Ports, ConnectCmd(c, p)
      PROVE  ThreadsTogether'
  BY <1>1, <1>2 DEF ConnectCmd, Kinds
<1>3. ASSUME NEW c \in Clients, DbCmd(c)
      PROVE  ThreadsTogether'
  BY <1>1, <1>3 DEF DbCmd, DbKinds
<1>4. ASSUME NEW c \in Clients,
             ConnectRefused(c) \/ DisconnectCmd(c) \/ DbCmdBlocks(c)
               \/ ReceiveReply(c) \/ ExitCli(c)
      PROVE  ThreadsTogether'
  <2>1. CASE ReceiveReply(c)
    <3>1. \A d \in Daemons : ~AtDaemon(d, c)
      BY <2>1 DEF ReceiveReply, OneCopy
    <3>2. \A d \in Daemons, x \in Clients : AtDaemon(d, x)' <=> AtDaemon(d, x)
      BY <2>1 DEF ReceiveReply, AtDaemon
    <3>3. /\ cli'[c] = "prompt"
          /\ \A x \in Clients \ {c} : cli'[x] = cli[x] /\ request'[x] = request[x]
          /\ UNCHANGED <<server, serving, owes, database, inbox>>
      BY <2>1 DEF ReceiveReply, TypeOK
    <3>. QED
      BY <3>1, <3>2, <3>3 DEF ThreadsTogether, Bound
  <2>2. CASE ~ReceiveReply(c)
    BY <1>4, <2>2 DEF ConnectRefused, DisconnectCmd, DbCmdBlocks, ExitCli,
                      TypeOK, ThreadsTogether, AtDaemon, Bound
  <2>. QED
    BY <2>1, <2>2
<1>5. ASSUME NEW c \in Clients, Deliver(c)
      PROVE  ThreadsTogether'
  <2>1. PICK d \in Bound : /\ port[d] = pipe[c]
                           /\ inbox' = [inbox EXCEPT ![d] = @ \cup {c}]
    BY <1>5 DEF Deliver
  <2>2. request[c] \in Kinds
    BY <2>1, NobodyAssumption DEF Bound, TypeOK, OneCopy, ThreadsTogether
  <2>. QED
    BY <1>5, <2>1, <2>2 DEF Deliver, Bound, TypeOK, ThreadsTogether, AtDaemon
<1>6. ASSUME NEW d \in Daemons, Start(d) \/ Bind(d)
      PROVE  ThreadsTogether'
  BY <1>6 DEF Start, Bind, Bound, TypeOK, ThreadsTogether, AtDaemon
<1>7. ASSUME NEW d \in Daemons,
             Kill(d) \/ BindThrows(d) \/ ServerRecvThrows(d) \/ DatabaseLocked(d)
      PROVE  ThreadsTogether'
  <2>1. Dies(d)
    BY <1>7 DEF Kill, BindThrows, ServerRecvThrows, DatabaseLocked
  <2>2. /\ server'[d] = "down" /\ ~owes'[d]
        /\ inbox'[d] = {} /\ database'[d] = "ended"
    BY <2>1 DEF Dies, TypeOK
  <2>3. \A e \in Daemons \ {d} :
          /\ server'[e] = server[e] /\ owes'[e] = owes[e]
          /\ serving'[e] = serving[e] /\ database'[e] = database[e]
          /\ inbox'[e] = inbox[e]
    BY <2>1 DEF Dies, TypeOK
  <2>4. \A e \in Daemons, x \in Clients : AtDaemon(e, x)' => AtDaemon(e, x)
    BY <2>1, DiesEffect
  <2>5. UNCHANGED <<cli, request>>
    BY <2>1 DEF Dies
  <2>. QED
    BY <2>2, <2>3, <2>4, <2>5 DEF ThreadsTogether, Bound
<1>8. ASSUME NEW d \in Daemons, NEW c \in Clients, ServerRecv(d, c)
      PROVE  ThreadsTogether'
  <2>1. /\ inbox'[d] = inbox[d] \ {c} /\ owes'[d] /\ serving'[d] = c
        /\ server'[d] = "interpret" /\ c \in inbox[d]
        /\ UNCHANGED <<cli, request, database>>
    BY <1>8 DEF ServerRecv, TypeOK
  <2>2. \A e \in Daemons \ {d} :
          /\ inbox'[e] = inbox[e] /\ owes'[e] = owes[e]
          /\ serving'[e] = serving[e] /\ server'[e] = server[e]
    BY <1>8 DEF ServerRecv, TypeOK
  <2>3. \A e \in Daemons, x \in Clients : AtDaemon(e, x)' => AtDaemon(e, x)
    BY <2>1, <2>2 DEF AtDaemon
  <2>. QED
    BY <2>1, <2>2, <2>3 DEF ThreadsTogether, Bound
<1>9. ASSUME NEW d \in Daemons, Interpret(d)
      PROVE  ThreadsTogether'
  <2>1. /\ server[d] = "interpret" /\ server'[d] = "recv"
        /\ owes'[d] => serving'[d] = serving[d]
        /\ UNCHANGED <<cli, request, inbox, database>>
    BY <1>9 DEF Interpret, TypeOK
  <2>2. owes[d] /\ serving[d] \in Clients
    BY <2>1 DEF ThreadsTogether
  <2>3. \A e \in Daemons \ {d} :
          server'[e] = server[e] /\ owes'[e] = owes[e] /\ serving'[e] = serving[e]
    BY <1>9 DEF Interpret, TypeOK
  <2>4. \A e \in Daemons, x \in Clients : AtDaemon(e, x)' => AtDaemon(e, x)
    BY <2>1, <2>2, <2>3 DEF AtDaemon
  <2>. QED
    BY <2>1, <2>2, <2>3, <2>4 DEF ThreadsTogether, Bound
<1>10. ASSUME NEW d \in Daemons,
              DatabaseOpen(d) \/ DatabaseCommit(d) \/ DatabaseFails(d)
       PROVE  ThreadsTogether'
  <2>1. /\ database[d] # "ended"
        /\ \A e \in Daemons \ {d} : database'[e] = database[e]
        /\ UNCHANGED <<cli, request, inbox, server, serving, owes>>
    BY <1>10 DEF DatabaseOpen, DatabaseCommit, DatabaseFails, TypeOK
  <2>. QED
    BY <2>1 DEF Bound, ThreadsTogether, AtDaemon
<1>11. CASE UNCHANGED vars
  BY <1>11 DEF vars, ThreadsTogether, AtDaemon, Bound
<1>. QED
  BY <1>2, <1>3, <1>4, <1>5, <1>6, <1>7, <1>8, <1>9, <1>10, <1>11
  DEF Next, Client, Daemon

\* A daemon that is back at recv and owes a reply got a request of the kind no
\* branch answers, and stays that way.
LEMMA DiesOfSilenceOnlyStep ==
  ASSUME NeromonInv, [Next]_vars
  PROVE  DiesOfSilenceOnly'
<1> USE DEF NeromonInv, clientVars, networkVars, serverVars, databaseVars
<1>1. ASSUME NEW c \in Clients, NEW kind, NEW endpoints, cli[c] = "prompt",
             SendRequest(c, kind, endpoints), UNCHANGED serverVars
      PROVE  DiesOfSilenceOnly'
  <2>1. \A d \in Daemons : owes[d] => serving[d] # c
    BY <1>1, NothingAtPrompt DEF AtDaemon
  <2>. QED
    BY <1>1, <2>1 DEF SendRequest, TypeOK, DiesOfSilenceOnly
<1>2. ASSUME NEW c \in Clients, NEW p \in Ports, ConnectCmd(c, p)
      PROVE  DiesOfSilenceOnly'
  BY <1>1, <1>2 DEF ConnectCmd
<1>3. ASSUME NEW c \in Clients, DbCmd(c)
      PROVE  DiesOfSilenceOnly'
  BY <1>1, <1>3 DEF DbCmd
<1>4. ASSUME UNCHANGED <<request, server, serving, owes>>
      PROVE  DiesOfSilenceOnly'
  BY <1>4 DEF DiesOfSilenceOnly
<1>5. ASSUME NEW c \in Clients,
             ConnectRefused(c) \/ DisconnectCmd(c) \/ DbCmdBlocks(c)
               \/ ReceiveReply(c) \/ ExitCli(c) \/ Deliver(c)
      PROVE  DiesOfSilenceOnly'
  <2>1. CASE ReceiveReply(c)
    <3>1. \A d \in Daemons : owes[d] => serving[d] # c
      BY <2>1 DEF ReceiveReply, OneCopy, AtDaemon
    <3>. QED
      BY <2>1, <3>1 DEF ReceiveReply, TypeOK, DiesOfSilenceOnly
  <2>2. CASE ~ReceiveReply(c)
    BY <1>4, <1>5, <2>2
    DEF ConnectRefused, DisconnectCmd, DbCmdBlocks, ExitCli, Deliver
  <2>. QED
    BY <2>1, <2>2
<1>6. ASSUME NEW d \in Daemons,
             DatabaseOpen(d) \/ DatabaseCommit(d) \/ DatabaseFails(d)
      PROVE  DiesOfSilenceOnly'
  BY <1>4, <1>6 DEF DatabaseOpen, DatabaseCommit, DatabaseFails
<1>7. ASSUME NEW d \in Daemons, Start(d) \/ Bind(d)
      PROVE  DiesOfSilenceOnly'
  BY <1>7 DEF Start, Bind, TypeOK, Bound, ThreadsTogether, DiesOfSilenceOnly
<1>8. ASSUME NEW d \in Daemons,
             Kill(d) \/ BindThrows(d) \/ ServerRecvThrows(d) \/ DatabaseLocked(d)
      PROVE  DiesOfSilenceOnly'
  BY <1>8 DEF Kill, BindThrows, ServerRecvThrows, DatabaseLocked, Dies, TypeOK,
              DiesOfSilenceOnly
<1>9. ASSUME NEW d \in Daemons, NEW c \in Clients, ServerRecv(d, c)
      PROVE  DiesOfSilenceOnly'
  BY <1>9 DEF ServerRecv, TypeOK, DiesOfSilenceOnly
<1>10. ASSUME NEW d \in Daemons, Interpret(d)
       PROVE  DiesOfSilenceOnly'
  <2> DEFINE c == serving[d]
             body == ReplyTo(request[c])
  <2>1. c \in Clients /\ request[c] \in Kinds
    BY <1>10 DEF Interpret, ThreadsTogether, AtDaemon
  <2>2. body = Nobody => request[c] = "other"
    BY <2>1, RepliesToAllButOther
  <2>3. /\ owes'[d] = (body = Nobody)
        /\ owes'[d] => serving'[d] = c
        /\ UNCHANGED request
    BY <1>10 DEF Interpret, TypeOK
  <2>4. \A e \in Daemons \ {d} :
          server'[e] = server[e] /\ owes'[e] = owes[e] /\ serving'[e] = serving[e]
    BY <1>10 DEF Interpret, TypeOK
  <2>5. c # Nobody
    BY <2>1, NobodyAssumption
  <2>. QED
    BY <2>2, <2>3, <2>4, <2>5 DEF DiesOfSilenceOnly
<1>11. CASE UNCHANGED vars
  BY <1>4, <1>11 DEF vars
<1>. QED
  BY <1>2, <1>3, <1>5, <1>6, <1>7, <1>8, <1>9, <1>10, <1>11
  DEF Next, Client, Daemon

\* The write lock stays with a daemon that is alive and indexing.
LEMMA WriterAliveStep ==
  ASSUME NeromonInv, [Next]_vars
  PROVE  WriterAlive'
<1> USE DEF NeromonInv, clientVars, networkVars, serverVars, databaseVars
<1>1. ASSUME UNCHANGED <<server, database, writer>>
      PROVE  WriterAlive'
  BY <1>1 DEF WriterAlive
<1>2. ASSUME NEW c \in Clients, Client(c) \/ Deliver(c)
      PROVE  WriterAlive'
  BY <1>1, <1>2
  DEF Client, ConnectCmd, ConnectRefused, DisconnectCmd, DbCmd, DbCmdBlocks,
      ReceiveReply, ExitCli, Deliver
<1>3. ASSUME NEW d \in Daemons, Start(d)
      PROVE  WriterAlive'
  BY <1>3 DEF Start, TypeOK, ThreadsTogether, WriterAlive
<1>4. ASSUME NEW d \in Daemons, Bind(d) \/ Interpret(d)
      PROVE  WriterAlive'
  BY <1>4 DEF Bind, Interpret, TypeOK, WriterAlive
<1>5. ASSUME NEW d \in Daemons, NEW c \in Clients, ServerRecv(d, c)
      PROVE  WriterAlive'
  BY <1>5 DEF ServerRecv, TypeOK, WriterAlive
<1>6. ASSUME NEW d \in Daemons,
             Kill(d) \/ BindThrows(d) \/ ServerRecvThrows(d) \/ DatabaseLocked(d)
      PROVE  WriterAlive'
  <2>1. Dies(d)
    BY <1>6 DEF Kill, BindThrows, ServerRecvThrows, DatabaseLocked
  <2>. QED
    BY <2>1, NobodyAssumption DEF Dies, TypeOK, WriterAlive
<1>7. ASSUME NEW d \in Daemons, DatabaseOpen(d)
      PROVE  WriterAlive'
  BY <1>7, NobodyAssumption DEF DatabaseOpen, TypeOK, ThreadsTogether, WriterAlive
<1>8. ASSUME NEW d \in Daemons, DatabaseCommit(d) \/ DatabaseFails(d)
      PROVE  WriterAlive'
  <2>1. /\ database[d] = "indexing" /\ database' = [database EXCEPT ![d] = "ended"]
        /\ writer' = Nobody /\ server' = server
    BY <1>8 DEF DatabaseCommit, DatabaseFails
  <2>. QED
    BY <2>1, NobodyAssumption DEF TypeOK, ThreadsTogether, WriterAlive
<1>9. CASE UNCHANGED vars
  BY <1>1, <1>9 DEF vars
<1>. QED
  BY <1>2, <1>3, <1>4, <1>5, <1>6, <1>7, <1>8, <1>9 DEF Next, Daemon

\* The invariants of the daemon and its clients hold in every behaviour: a
\* request is in one place and no reply outlives its question, a server thread
\* throws only over a request interpret_query does not answer, and the database
\* is locked only by a daemon that is alive.
THEOREM NeromonInvariant ==
  Spec => [](TypeOK /\ OneCopy /\ ThreadsTogether /\ DiesOfSilenceOnly /\ WriterAlive)
<1>1. NeromonInv /\ [Next]_vars => NeromonInv'
  <2> SUFFICES ASSUME NeromonInv, [Next]_vars PROVE NeromonInv'
    OBVIOUS
  <2>1. TypeOK'
    BY TypeStep DEF NeromonInv
  <2>. QED
    BY <2>1, OneCopyStep, ThreadsTogetherStep, DiesOfSilenceOnlyStep,
       WriterAliveStep DEF NeromonInv
<1>2. Spec => []NeromonInv
  BY InitInv, <1>1, PTL DEF Spec
<1>. QED
  BY <1>2, PTL DEF NeromonInv

\* The clients', the daemons' and the network's variables stay in their types.
THEOREM NeromonIsTyped == Spec => []TypeOK
  BY NeromonInvariant, PTL

\* The database is locked for writing only by a daemon that is alive: a crash or
\* a termination in the middle of indexing does not lock out the next daemon.
THEOREM LockIsHeldByTheLiving == Spec => []WriterAlive
  BY NeromonInvariant, PTL

\* No daemon runs on with one of its two threads.
THEOREM ThreadsEndTogether == Spec => []ThreadsTogether
  BY NeromonInvariant, PTL

\* A server thread throws only over a request that interpret_query left
\* unanswered.
THEOREM OnlySilenceKills == Spec => []DiesOfSilenceOnly
  BY NeromonInvariant, PTL

-----------------------------------------------------------------------------
(* The service.  A request that is underway is a question without an       *)
(* answer; an owed reply that will never be sent, and whatever was with a  *)
(* daemon that died, are lost.                                             *)

\* A request is at most at one daemon, and then it is nowhere else.
LEMMA UnderwayIsSomewhere ==
  ASSUME NeromonInv, NEW c \in Clients
  PROVE  /\ Underway(c) => reply[c] = Nobody
         /\ cli[c] = "waiting" => request[c] \in Kinds /\ request[c] # Nobody
  BY NobodyAssumption
  DEF NeromonInv, Underway, OneCopy, ThreadsTogether, AtDaemon

\* The initial state is an initial state of the service.
LEMMA InitRefines == Init => Service!ServiceInit
  BY DEF Init, Asked, Answered, Service!ServiceInit

\* A step that moves nobody's question or answer is a stuttering step.
LEMMA SameView ==
  ASSUME UNCHANGED <<cli, request, reply>>,
         \A c \in Clients : Underway(c)' <=> Underway(c)
  PROVE  UNCHANGED <<Asked, Answered>>
  BY DEF Asked, Answered

\* What a client does is to ask, to take its answer or to give up, or nothing.
LEMMA ClientRefines ==
  ASSUME NeromonInv, NEW c \in Clients, Client(c) \/ Deliver(c)
  PROVE  Service!ServiceNext \/ UNCHANGED Service!serviceVars
<1> USE DEF clientVars, networkVars, serverVars, databaseVars
<1>1. ASSUME NEW kind \in Kinds, NEW endpoints \in SUBSET Ports,
             cli[c] = "prompt", SendRequest(c, kind, endpoints),
             UNCHANGED <<inbox, reply, serverVars, databaseVars>>
      PROVE  Service!Ask(c)
  <2>1. pipe[c] = Nobody /\ reply[c] = Nobody /\ pipe'[c] # Nobody
    BY <1>1, NothingAtPrompt, NobodyAssumption DEF NeromonInv, TypeOK, SendRequest
  <2>2. /\ cli'[c] = "waiting" /\ request'[c] = kind
        /\ \A x \in Clients \ {c} :
             cli'[x] = cli[x] /\ request'[x] = request[x] /\ pipe'[x] = pipe[x]
    BY <1>1 DEF NeromonInv, TypeOK, SendRequest
  <2>3. \A x \in Clients : IF x = c THEN Underway(x)' ELSE Underway(x)' <=> Underway(x)
    BY <1>1, <2>1, <2>2 DEF Underway
  <2>4. Asked' = [Asked EXCEPT ![c] = kind] /\ Asked[c] = Nobody
    BY <1>1, <2>2 DEF Asked
  <2>5. Answered' = Answered
    BY <1>1, <2>1, <2>2, <2>3 DEF Answered
  <2>. QED
    BY <1>1, <2>4, <2>5 DEF Service!Ask, Service!Kinds, Kinds
<1>2. ASSUME NEW p \in Ports, ConnectCmd(c, p)
      PROVE  Service!Ask(c)
  <2>1. attached'[c] \in SUBSET Ports
    BY <1>2 DEF ConnectCmd, NeromonInv, TypeOK
  <2>. QED
    BY <1>1, <1>2, <2>1 DEF ConnectCmd, Kinds
<1>3. ASSUME DbCmd(c)
      PROVE  Service!Ask(c)
  BY <1>1, <1>3 DEF DbCmd, DbKinds, NeromonInv, TypeOK
<1>4. ASSUME ConnectRefused(c) \/ DisconnectCmd(c)
      PROVE  UNCHANGED Service!serviceVars
  BY <1>4, SameView DEF ConnectRefused, DisconnectCmd, Underway, Service!serviceVars
<1>5. ASSUME DbCmdBlocks(c)
      PROVE  UNCHANGED Service!serviceVars
  <2>1. \A x \in Clients : cli'[x] = "waiting" <=> cli[x] = "waiting"
    BY <1>5 DEF DbCmdBlocks, NeromonInv, TypeOK
  <2>2. \A x \in Clients : Underway(x)' <=> Underway(x)
    BY <1>5 DEF DbCmdBlocks, Underway
  <2>. QED
    BY <1>5, <2>1, <2>2 DEF DbCmdBlocks, Asked, Answered, Service!serviceVars
<1>6. ASSUME cli[c] = "waiting", cli'[c] # "waiting",
             \A x \in Clients \ {c} : /\ cli'[x] = cli[x] /\ reply'[x] = reply[x]
                                      /\ request'[x] = request[x]
                                      /\ Underway(x)' <=> Underway(x),
             UNCHANGED stored
      PROVE  Service!Take(c)
  <2>1. Asked[c] # Nobody
    BY <1>6, UnderwayIsSomewhere DEF Asked
  <2>2. Asked' = [Asked EXCEPT ![c] = Nobody]
    BY <1>6 DEF Asked
  <2>3. Answered' = [Answered EXCEPT ![c] = Nobody]
    BY <1>6 DEF Answered
  <2>. QED
    BY <1>6, <2>1, <2>2, <2>3 DEF Service!Take
<1>7. ASSUME ReceiveReply(c)
      PROVE  Service!Take(c)
  <2>1. \A x \in Clients : Underway(x)' <=> Underway(x)
    BY <1>7 DEF ReceiveReply, Underway
  <2>2. /\ cli[c] = "waiting" /\ cli'[c] = "prompt"
        /\ \A x \in Clients \ {c} :
             cli'[x] = cli[x] /\ reply'[x] = reply[x] /\ request'[x] = request[x]
    BY <1>7 DEF ReceiveReply, NeromonInv, TypeOK
  <2>. QED
    BY <1>6, <1>7, <2>1, <2>2 DEF ReceiveReply
<1>8. ASSUME ExitCli(c)
      PROVE  Service!Take(c) \/ UNCHANGED Service!serviceVars
  <2>1. /\ cli'[c] = "exited"
        /\ \A x \in Clients \ {c} :
             cli'[x] = cli[x] /\ reply'[x] = reply[x] /\ pipe'[x] = pipe[x]
    BY <1>8 DEF ExitCli, NeromonInv, TypeOK
  <2>2. \A x \in Clients \ {c} : Underway(x)' <=> Underway(x)
    BY <1>8, <2>1 DEF ExitCli, Underway
  <2>3. CASE cli[c] = "waiting"
    BY <1>6, <1>8, <2>1, <2>2, <2>3 DEF ExitCli
  <2>4. CASE cli[c] # "waiting"
    <3>1. Asked' = Asked /\ Answered' = Answered
      BY <1>8, <2>1, <2>2, <2>4 DEF ExitCli, Asked, Answered
    <3>. QED
      BY <1>8, <3>1 DEF ExitCli, Service!serviceVars
  <2>. QED
    BY <2>3, <2>4
<1>9. ASSUME Deliver(c)
      PROVE  UNCHANGED Service!serviceVars
  <2>1. PICK d \in Bound : /\ port[d] = pipe[c]
                           /\ inbox' = [inbox EXCEPT ![d] = @ \cup {c}]
    BY <1>9 DEF Deliver
  <2>2. d \in Daemons /\ pipe[c] # Nobody
    BY <2>1, NobodyAssumption DEF Bound, NeromonInv, TypeOK
  <2>3. /\ c \in inbox'[d]
        /\ \A x \in Clients \ {c} :
             /\ pipe'[x] = pipe[x]
             /\ \A e \in Daemons : x \in inbox'[e] <=> x \in inbox[e]
    BY <1>9, <2>1, <2>2 DEF Deliver, NeromonInv, TypeOK
  <2>4. UNCHANGED <<server, serving>>
    BY <1>9 DEF Deliver
  <2>5. \A x \in Clients : Underway(x)' <=> Underway(x)
    BY <2>2, <2>3, <2>4 DEF Underway
  <2>. QED
    BY <1>9, <2>5, SameView DEF Deliver, Service!serviceVars
<1>. QED
  BY <1>2, <1>3, <1>4, <1>5, <1>7, <1>8, <1>9 DEF Client, Service!ServiceNext

\* A process that ends loses questions and answers, and nothing else.
LEMMA DiesRefines ==
  ASSUME NeromonInv, NEW d \in Daemons, Dies(d)
  PROVE  Service!Lose
<1> DEFINE C == {c \in Clients : cli[c] = "waiting" /\ Answered'[c] # Answered[c]}
<1>1. UNCHANGED <<cli, request, pipe, stored>>
  BY DEF Dies, clientVars
<1>2. \A c \in Clients : Underway(c)' => Underway(c)
  <2>1. inbox'[d] = {} /\ server'[d] = "down"
    BY DEF Dies, NeromonInv, TypeOK
  <2>2. \A e \in Daemons \ {d} :
          inbox'[e] = inbox[e] /\ server'[e] = server[e] /\ serving'[e] = serving[e]
    BY DEF Dies, NeromonInv, TypeOK
  <2>. QED
    BY <1>1, <2>1, <2>2 DEF Underway
<1>3. \A c \in Clients : reply'[c] = reply[c] \/ reply'[c] = Nobody
  BY DiesEffect DEF NeromonInv
<1>4. ASSUME NEW c \in C
      PROVE  Asked[c] # Nobody /\ Answered'[c] = "lost"
  <2>1. c \in Clients /\ cli[c] = "waiting" /\ Answered'[c] # Answered[c]
    BY <1>4
  <2>2. Asked[c] # Nobody
    BY <2>1, UnderwayIsSomewhere DEF Asked
  <2>3. reply[c] # Nobody => ~Underway(c)
    BY <2>1, UnderwayIsSomewhere
  <2>4. Answered'[c] = "lost"
    BY <1>1, <1>2, <1>3, <2>1, <2>3 DEF Answered
  <2>. QED
    BY <2>2, <2>4
<1>5. \A c \in Clients \ C : Answered'[c] = Answered[c]
  BY <1>1 DEF Answered
<1>6. Answered' = [c \in Clients |-> IF c \in C THEN "lost" ELSE Answered[c]]
  <2>1. Answered' = [c \in Clients |-> Answered'[c]]
    BY DEF Answered
  <2>. QED
    BY <1>4, <1>5, <2>1
<1>7. Asked' = Asked
  BY <1>1 DEF Asked
<1>8. C \in SUBSET {c \in Clients : Asked[c] # Nobody}
  BY <1>4
<1>. QED
  BY <1>1, <1>6, <1>7, <1>8 DEF Service!Lose

\* interpret_query answers the question, or never will.
LEMMA InterpretRefines ==
  ASSUME NeromonInv, NEW d \in Daemons, Interpret(d)
  PROVE  Service!ServiceNext \/ UNCHANGED Service!serviceVars
<1>1. PICK c \in Clients : /\ c = serving[d] /\ AtDaemon(d, c)
                            /\ request[c] \in Kinds /\ server[d] = "interpret"
  BY DEF Interpret, NeromonInv, ThreadsTogether, AtDaemon
<1> DEFINE body == ReplyTo(request[c])
<1>2. /\ UNCHANGED <<cli, request, pipe, inbox, stored>>
      /\ server'[d] = "recv"
      /\ \A e \in Daemons \ {d} : server'[e] = server[e] /\ serving'[e] = serving[e]
  BY DEF Interpret, NeromonInv, TypeOK, clientVars, databaseVars
<1>3. \A x \in Clients \ {c} : Underway(x)' <=> Underway(x)
  BY <1>1, <1>2 DEF Underway
<1>4. Underway(c) /\ ~Underway(c)'
  <2>1. Underway(c)
    BY <1>1 DEF Underway
  <2>2. pipe[c] = Nobody /\ \A e \in Daemons : c \notin inbox[e]
    BY <1>1 DEF NeromonInv, OneCopy, ThreadsTogether, AtDaemon
  <2>3. \A e \in Daemons \ {d} : ~(server[e] = "interpret" /\ serving[e] = c)
    BY <1>1 DEF NeromonInv, OneCopy, ThreadsTogether, AtDaemon
  <2>. QED
    BY <1>2, <2>1, <2>2, <2>3 DEF Underway
<1>5. Asked' = Asked
  BY <1>2 DEF Asked
<1>6. CASE cli[c] # "waiting"
  <2>1. reply' = reply
    BY <1>1, <1>6 DEF Interpret
  <2>2. Answered' = Answered
    BY <1>2, <1>3, <1>6, <2>1 DEF Answered
  <2>. QED
    BY <1>2, <1>5, <2>2 DEF Service!serviceVars
<1>7. CASE cli[c] = "waiting" /\ body = Nobody
  <2>1. reply' = reply
    BY <1>1, <1>7 DEF Interpret
  <2>2. Answered' = [x \in Clients |-> IF x \in {c} THEN "lost" ELSE Answered[x]]
    BY <1>1, <1>2, <1>3, <1>4, <1>7, <2>1, UnderwayIsSomewhere DEF Answered
  <2>3. {c} \in SUBSET {x \in Clients : Asked[x] # Nobody}
    BY <1>1, <1>7, UnderwayIsSomewhere DEF Asked
  <2>. QED
    BY <1>2, <1>5, <2>2, <2>3 DEF Service!ServiceNext, Service!Lose
<1>8. CASE cli[c] = "waiting" /\ body # Nobody
  <2>1. request[c] # "other" /\ body \in Replies
        /\ body = Service!AnswerTo(request[c], stored)
    BY <1>1, <1>8, RepliesToAllButOther
  <2>2. reply' = [reply EXCEPT ![c] = [from |-> d, body |-> body]]
    BY <1>1, <1>8 DEF Interpret
  <2>3. [from |-> d, body |-> body] # Nobody
    BY <2>1, NobodyAssumption DEF Messages
  <2>4. /\ reply'[c] # Nobody /\ reply'[c].body = body
        /\ \A x \in Clients \ {c} : reply'[x] = reply[x]
    BY <1>1, <2>2, <2>3 DEF NeromonInv, TypeOK
  <2>5. Asked[c] \in {"connect", "query", "add"} /\ Asked[c] = request[c]
    BY <1>1, <1>8, <2>1 DEF Asked, Kinds
  <2>6. Answered[c] = Nobody
    BY <1>1, <1>4, <1>8, UnderwayIsSomewhere DEF Answered
  <2>7. Answered' = [Answered EXCEPT ![c] = Service!AnswerTo(Asked[c], stored)]
    <3>1. \A x \in Clients :
            Answered'[x] = IF x = c THEN body ELSE Answered[x]
      BY <1>2, <1>3, <1>8, <2>4 DEF Answered
    <3>2. body = Service!AnswerTo(Asked[c], stored)
      BY <2>1, <2>5
    <3>3. /\ Answered' = [x \in Clients |-> Answered'[x]]
          /\ Answered = [x \in Clients |-> Answered[x]]
      BY DEF Answered
    <3>. QED
      BY <1>1, <3>1, <3>2, <3>3
  <2>. QED
    BY <1>1, <1>2, <1>5, <2>5, <2>6, <2>7 DEF Service!ServiceNext, Service!Answer
<1>. QED
  BY <1>6, <1>7, <1>8

\* What a daemon does is to answer, to lose, to store, or nothing.
LEMMA DaemonRefines ==
  ASSUME NeromonInv, NEW d \in Daemons, Daemon(d)
  PROVE  Service!ServiceNext \/ UNCHANGED Service!serviceVars
<1> USE DEF clientVars, networkVars, serverVars, databaseVars
<1>1. ASSUME Start(d) \/ Bind(d)
      PROVE  UNCHANGED Service!serviceVars
  <2>1. /\ server[d] # "interpret" /\ server'[d] # "interpret"
        /\ \A e \in Daemons \ {d} : server'[e] = server[e]
        /\ UNCHANGED <<cli, request, reply, pipe, inbox, serving, stored>>
    BY <1>1 DEF Start, Bind, NeromonInv, TypeOK
  <2>2. \A x \in Clients : Underway(x)' <=> Underway(x)
    BY <2>1 DEF Underway
  <2>. QED
    BY <2>1, <2>2, SameView DEF Service!serviceVars
<1>2. ASSUME NEW c \in Clients, ServerRecv(d, c)
      PROVE  UNCHANGED Service!serviceVars
  <2>1. /\ server[d] = "recv" /\ server'[d] = "interpret" /\ serving'[d] = c
        /\ c \in inbox[d] /\ inbox'[d] = inbox[d] \ {c}
        /\ UNCHANGED <<cli, request, reply, pipe, stored>>
    BY <1>2 DEF ServerRecv, NeromonInv, TypeOK
  <2>2. \A e \in Daemons \ {d} :
          server'[e] = server[e] /\ inbox'[e] = inbox[e] /\ serving'[e] = serving[e]
    BY <1>2 DEF ServerRecv, NeromonInv, TypeOK
  <2>3. \A x \in Clients : Underway(x)' <=> Underway(x)
    BY <2>1, <2>2 DEF Underway
  <2>. QED
    BY <2>1, <2>3, SameView DEF Service!serviceVars
<1>3. ASSUME DatabaseOpen(d)
      PROVE  UNCHANGED Service!serviceVars
  BY <1>3, SameView DEF DatabaseOpen, Underway, Service!serviceVars
<1>4. ASSUME DatabaseCommit(d) \/ DatabaseFails(d)
      PROVE  Service!Store \/ UNCHANGED Service!serviceVars
  <2>1. UNCHANGED <<Asked, Answered>>
    BY <1>4, SameView DEF DatabaseCommit, DatabaseFails, Underway
  <2>. QED
    BY <1>4, <2>1 DEF DatabaseCommit, DatabaseFails, Service!Store, Service!serviceVars
<1>5. ASSUME Kill(d) \/ BindThrows(d) \/ ServerRecvThrows(d) \/ DatabaseLocked(d)
      PROVE  Service!Lose
  BY <1>5, DiesRefines DEF Kill, BindThrows, ServerRecvThrows, DatabaseLocked
<1>. QED
  BY <1>1, <1>2, <1>3, <1>4, <1>5, InterpretRefines DEF Daemon, Service!ServiceNext

\* The daemon and its clients, with ZeroMQ between them, implement the search
\* service: an answer is of the kind that was asked for, is given once and to
\* the one that asked, shows the store as it is when interpret_query looks, and
\* what a daemon's end takes away is lost, never answered late.
THEOREM NeromonImplementsService == Spec => ServiceSpec
<1>1. NeromonInv /\ [Next]_vars => [Service!ServiceNext]_Service!serviceVars
  <2> SUFFICES ASSUME NeromonInv, [Next]_vars
               PROVE  [Service!ServiceNext]_Service!serviceVars
    OBVIOUS
  <2>1. CASE Next
    BY <2>1, ClientRefines, DaemonRefines DEF Next
  <2>2. CASE UNCHANGED vars
    <3>1. \A x \in Clients : Underway(x)' <=> Underway(x)
      BY <2>2 DEF vars, clientVars, networkVars, serverVars, Underway
    <3>. QED
      BY <2>2, <3>1, SameView
      DEF vars, clientVars, networkVars, databaseVars, Service!serviceVars
  <2>. QED
    BY <2>1, <2>2
<1>2. Spec => []NeromonInv
  BY NeromonInvariant, PTL DEF NeromonInv
<1>. QED
  BY InitRefines, <1>1, <1>2, PTL DEF Spec, ServiceSpec, Service!ServiceSpec

=============================================================================
