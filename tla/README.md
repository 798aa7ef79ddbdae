# neroshop in TLA+

A specification of the parts of neroshop that have a protocol in them: the
seller's wallet that hands out one subaddress per order, the daemon `neromon`
with its command-line clients, the indexing of a text file into the daemon's
full-text database, the client and server classes over BSD sockets, and the
smaller parts of the library in which several steps must fit together: start-up,
key pairs, price conversion, the wallet's message box, registration. Every
definition is a translation of the C++ under `src/src/`; `PROJECT.json` names the
lines. TLC checks small instances, TLAPS proves every safety property for every
value of the constants.

Paths below are relative to the repository. The C++ sources are in `src/`.

## 1. The system

neroshop is a marketplace on Monero. At this commit it consists of three
programs (`neroshop`, `neromon`, `neroshop-cli`), of which the first one only
loads its configuration, and a library of classes that the graphical test
program `test/main0.cpp` ties together. Many operations of the shop classes
(`User`, `Cart`, `Item`, `Order`, `Seller`'s listings) have empty bodies or only
query a database that is commented out.

| component | source | state it keeps | operations | talks to |
|---|---|---|---|---|
| seller's wallet, order answering | `wallet.cpp`, `seller.cpp` | the `monero_wallet_full` object, its synced flag, `recent_address_list`, subaddresses | open, destroy, `daemon_connect`, `address_new`, `address_unused`, `on_output_received`, `on_order_received` | monero-cpp (calls, and callbacks on its sync thread), message box |
| neromon | `daemon.cpp` | REP socket, server thread, database thread | start with options, bind, recv, `interpret_query`, index, end | cli over ZeroMQ, `db.cpp` by calls, file lock with other daemons |
| neroshop-cli | `cli.cpp` | REQ socket, `connected`, `host` | connect, disconnect, db, exit | neromon over ZeroMQ |
| full-text index | `db.cpp` | the Xapian database, the paragraph being read | `index_db`, `db_query`, `db_add` | standard input redirected from a file |
| BSD sockets | `client.cpp`, `server.cpp`, `test/sys_network` | the client's socket, the server's `socket` and `newsocket`, the client singleton | create, connect, bind, listen, accept, read, write, close | each other |
| price conversion | `converter.cpp` | a static response string, `currencies_in_usd` | `convert_xmr` over six price sources | curl |
| message boxes | `message.cpp` | two static boxes, lists of labels, buttons, edits | `set_text`, `show`, `hide`, `restore`, draw | written by the wallet's thread and by the main thread |
| configuration, start-up | `config.hpp`, `main.cpp` | `config.lua` | `create_config`, `load_config` | the file system |
| key pairs, encryption | `encryptor.cpp` | `public.pem`, `private.pem` | generate, save, encrypt, decrypt | OpenSSL, the file system |
| validation | `validator.cpp` | none | `register_user` and its checks of name, password, confirmation and email | bcrypt, OpenSSL |
| users, carts, items, orders | `user.cpp`, `buyer.cpp`, `cart.cpp`, `item.cpp`, `order.cpp` | lists of orders, favourites, cart contents | login, logout, add, remove (mostly stubs) | |
| database wrappers | `database/*.hpp`, `database.cpp` | a connection | connect, execute | not called by the programs |
| front-end | `catalog.cpp`, `icon.cpp`, `qr.cpp`, `test/main0.cpp` | widgets | event loop | all of the above |
| logging | `logging.hpp`, `debug.hpp` | none | output | |

What is hard:

* **Two threads in the wallet.** `on_output_received` runs on monero-cpp's sync
  thread, `address_unused` and `on_order_received` on the main thread; they share
  `recent_address_list` and the library's view of subaddresses without a lock.
* **A gap in the listener.** `daemon_connect` removes the listener, starts the
  background sync and only then adds the listener again.
* **Restarts without saving.** `close(false)` forgets everything scanned, the
  recent list and unsaved subaddresses.
* **A strict request/reply socket.** A REP socket must answer before it
  receives again; `interpret_query` has a branch that answers nothing; a REQ
  client waits without a timeout; a daemon may die between request and reply.
* **Two threads, one process, one lock.** An exception in either daemon thread
  ends the process; a second daemon finds the database locked, or the port taken.
* **A flag set too early.** The client's `connected` is set before `connect`.
* **Stream arithmetic.** `getline` followed by `ignore()` decides which characters
  reach the index and whether the loop notices the end of the file.
* **Descriptors by number.** `accept` overwrites the descriptor it returned
  before, so none is ever given back; a failure of one client's socket closes
  the listening socket too; the standard streams were closed, so a client gets
  the number of stderr, and with it what is written there.
* **A response that outlives its request.** The price sources answer into one
  static string, which an exception leaves as it is for the next conversion.
* **Files written in two steps.** `config.lua`, `public.pem` and `private.pem` are
  emptied first and written afterwards, by programs that may run at once and
  die in between; nobody looks at what is in the file, only whether it exists.
* **One message box, two threads.** The sync thread fills the box that the main
  thread empties whenever it finds it hidden.

`PROJECT.json` lists these and the others as hazards, each at its line.

## 2. Modules

```
AddressLedger   abstract: what the wallet promises about subaddresses
  ^ implements
SellerWallet    wallet.cpp, seller.cpp     <- MCSellerWallet, SellerWalletProofs
SearchService   abstract: what neromon promises to a client
  ^ implements
Neromon         daemon.cpp, cli.cpp        <- MCNeromon, NeromonProofs
IndexDb         db.cpp, what DatabaseCommit and DatabaseFails of Neromon do in one step   <- MCIndexDb, IndexDbProofs
BsdSockets      client.cpp, server.cpp     <- MCBsdSockets, BsdSocketsProofs
Library         the parts that share no state  <- MCLibrary, LibraryProofs
  |- StartUp    config.hpp, main.cpp       <- StartUpProofs
  |- KeyPair    encryptor.cpp              <- KeyPairProofs
  |- Converter  converter.cpp              <- ConverterProofs
  |- MessageBox message.cpp, wallet.cpp    <- proofs in LibraryProofs
  |- Validator  validator.cpp              <- proofs in LibraryProofs
```

### SellerWallet

The main thread is `pc`; it is inside `daemon_connect` (`connecting`, `syncing`,
`syncDone`) or `on_order_received` (`scanning`), or between calls.

| action | code |
|---|---|
| `Open` | `Wallet::open` |
| `Exit` | `~Seller`/`~Wallet` at logout, or the program killed at any point |
| `ConnectBegin`, `DaemonReached`, `SyncDone`, `SyncThrows`, `AddListener` | the statements of `daemon_connect` between which the other thread can run |
| `OrderBegin` | `on_order_received` up to the call of `address_unused`, with its ten `address_new` |
| `ScanAddress` | one iteration of `address_unused` |
| `OrderAnswer`, `OrderOutOfRange` | the random pick, and the pick from an empty list |
| `Scan` | monero-cpp takes in the chain's view of a payment, and `on_output_received` if the listener is set |
| `Pay`, `Mine` | a customer and the Monero network |

A subaddress is its index; a payment is a stage (`pending`, `confirmed`, `settled`
while locked, `unlocked`). `Used` is the library's `m_is_used` as the source
describes it. The pick keeps the code's range: `[0, size - 1)` as a real,
truncated, so every element but the last.

External and assumed: monero-cpp's sync returns when it has caught up with the
chain; its background thread keeps scanning while the object lives; what opening
an unsaved file restores of the subaddresses is any number between the primary
address and all of them. The data race on the vector is taken as a step of whole
accesses.

### Neromon

A client is `cli` (at the prompt, in recv, blocked in send, gone), its flag
`connected`, its `host` and the endpoints its socket is really attached to. A
daemon is a server thread (`down`, `bind`, `recv`, `interpret`), the REP socket's
state `owes`, and a database thread. A request is in `pipe` (the client's own
queue for a port nobody has bound), in `inbox` (arrived at a daemon), or is the
one `serving`; the answer is in `reply`.

| action | code |
|---|---|
| `ConnectCmd`, `ConnectRefused` | `connect` in `cli.cpp` and the command loop around it, which sets the flag first and catches |
| `DisconnectCmd`, `DbCmd`, `DbCmdBlocks`, `ExitCli` | the commands of the loop |
| `ReceiveReply`, `Deliver` | recv returns; ZeroMQ moves a request |
| `Start` | `main` of the daemon with the options it accepts: of `--port`, `--db`, `--input` only the first one counts |
| `Bind`, `BindThrows`, `ServerRecv`, `ServerRecvThrows`, `Interpret` | `run_server` and `interpret_query` |
| `DatabaseOpen`, `DatabaseLocked`, `DatabaseCommit`, `DatabaseFails` | `run_database`, `index_db` with its catch of Xapian's errors, after which the daemon goes on |
| `Kill` | `kill_daemon`, Ctrl-C |
| `Dies` (used by five of them) | the end of the process: both threads, the lock, the requests taken in |

External and assumed of ZeroMQ: a request waits in the client until its daemon is
up; what the daemon had taken in is lost with it; a reply may be lost too; REP
throws when recv is called while a reply is owed; a send on a socket attached to
nothing blocks; a port is bound by one process. All daemons run on one host with
the default database directory. A query is one step: a Xapian reader that is
overtaken by two commits (`DatabaseModifiedError`) is left out, as a daemon
commits once. Of the replies "unknown command" is left out, because every request
that `cli.cpp` can send is a connect or begins with "db". Clients may ask any number
of times; only the starts of daemons are bounded.

### IndexDb

Characters are positions in the file, newline or not; `getline`, `ignore`, eof and
bad follow the C++ standard. `TakeLine` is the second half of the loop body.
Exceptions of Xapian (`XapianError`) may come at every call that can throw.

### BsdSockets

A client program `c` has `sock[c]`, the member `socket` of its main client: nothing,
the -1 of a failed `socket()`, a socket that is not connected, or a connection. A
connection is its two ends (`end` the client's, `srv` the daemon's), what the
client has not read (`mail`: a greeting, or a line of the daemon's stderr) and
whether the daemon has anything to read (`sent`). The daemon is a descriptor table
`fd`, `newsocket`, and `pc`, the call its loop is at.

| action | code |
|---|---|
| `GetMainClient` | `Client::get_main_client`, which destroys the client it gave out before |
| `Connect`, `Reconnect`, `Close` | `connect` with the `create` in it, `reconnect`, `close` and `disconnect` |
| `Write`, `ReadBegin`, `ReadEnd` | `Client::write`, and `Client::read`, which blocks |
| `Start` | the global `Server` and the steps of the test daemon that close the standard streams |
| `Bind`, `Listen` | `Server::bind`, `Server::listen`; their results are ignored |
| `Accept`, `AcceptFails` | `Server::accept`; `newsocket` is overwritten, or everything is closed |
| `Greet`, `Read`, `ReadFails` | `Server::write` and `Server::read` in the daemon's loop |
| `Kill` | the process ends |

External and assumed of the kernel: `accept` and `socket` take the lowest free
descriptor; a descriptor that is closed ends the connection it refers to; closing
a socket with unread data resets the connection; writing to one that was reset
raises SIGPIPE, which the daemon does not handle; the queue of the listening
socket is taken in order and is longer than the connections of a behaviour.

### StartUp

`cfg` is the file, `launch[p]` where program `p` is in its start, `lua[p]` what its
settings came from. `FileThere`, `RunText`, `SecondLook`, `OpenFile` and `WriteFile` are
`create_config` from one access to the file system to the next; `LoadFile` is
`load_config`; `Check` is `main`'s look at the network type; `Exit`, `Kill` and
`UserEdits` are the prompt's exit, a kill at any point, and an editor.

### KeyPair

`pub` and `priv` are the keys in the two files, numbered by pair. `Generate`,
`OpenPublic`, `WritePublic`, `OpenPrivate`, `WritePrivate` are `generate_key_pair` from one
call that may fail to the next; `Crash` may come between any two. Writing has three
outcomes: `PEM_write_bio_*` fails and is reported; the key is in the file; or it was
only buffered and the flush in `BIO_free_all` fails, of which nobody learns: true is
returned over a file that is empty or cut. `Encrypt` and
`Decrypt` are `public_encrypt` and `private_decrypt` with those files. The cipher text
goes into a `std::string` without its length: it may come out cut, whole, or longer.

### Converter

`json` is the static string, `source` the request `convert_xmr` is at. Each request is
`Refused`, `Answered` or `Throws`; `GoOn` is what follows. `rates` is whether the table
`currencies_in_usd` has the currency; dividing by the zero that `operator[]` makes
otherwise gives an infinite price.

### MessageBox

`post` is where `on_output_received` is in filling and showing the box, on the sync
thread; `draw` is where `on_draw` is in `restore`, on the main thread. `OnSyncProgress`
is the notification at 100 % of the first sync, which holds the main thread;
`SyncedAgain` with `PostDone` is the one of a background sync, on the sync thread;
`PressClose` is the button in the main loop, `PressCloseInSync` the same button as
`on_sync_progress` looks at it. The flag of label 0 is left out: the box draws that
label itself.

### Validator

`FillIn` is the user, `RegisterUser` is `register_user` with all its checks. A name is a
sequence of kinds of characters; `FirstChar` and `LastChar` are what the code's
`find_first_of(username)` and `find_last_of(username)` of the name in itself amount to.

### Library

The five parts above have no variable in common, nor one with the other modules,
and together they have far more states than TLC can visit. What one of them does is
the same in every interleaving with the others, so `Library` explores them one at a
time: `part` is chosen in the initial state, and `Next` is that part's step with the
rest unchanged. `LibraryProofs` proves the same properties of `Interleaved`, where
the parts step in any order.

## 3. What TLC checks

| run | bounds | question |
|---|---|---|
| `wallet_two_orders` | 2 orders, 1 new subaddress per order, 3 subaddresses, the file opened twice | the promises of the wallet under every interleaving, and that payments are noticed |
| `wallet_three_orders` | 3 orders, 3 subaddresses, file opened twice, orders symmetric | the inductive invariant of the proofs; here the list does become empty, after a restart, and only when all there is was paid |
| `neromon_protocol` | 2 clients that may ask for ever, 2 daemons, 2 ports, 2 starts | where a request can be, why a daemon dies, who has the lock, refinement of `SearchService` |
| `neromon_answers` | 2 clients that may ask for ever, 1 daemon, 2 starts | a client is answered in spite of the other one |
| `index_paragraphs` | every file of up to 10 characters | what reaches the documents, after an error too, how it is divided, and that indexing ends |
| `bsd_sockets` | 2 client programs, 3 connections, 4 descriptors, the daemon started twice | who holds a connection, what a failure does to the daemon, whom its stderr reaches, that a queued client is accepted |
| `library_parts` | 3 programs starting at once; 4 key pairs; all behaviours of a conversion; 3 deposits; names of up to 4 characters where 2 to 3 are allowed | the properties of the five parts of `Library` |

The code creates ten subaddresses per order; one is enough for TLC, as the
properties depend on whether the batch is empty and whether the pick has an
alternative, and the proofs cover every batch. Two orders are enough for one
subaddress to be given out twice, the third makes a list empty after a restart.
Two clients are enough for one to be served before the other, and to lose a
request because of the other's; two daemons for a taken port, a locked database
and a client attached to two endpoints; two starts for a daemon that comes back.
Ten characters hold three lines with blank lines at each place, text on both
sides of three newlines in a row, and every relation of a newline to the end of
the file. Four descriptors are the fewest with
which the daemon gets to its loop and one accept more than the table holds is
tried: three connections fill it, the third has stderr's number, and the accept
after it fails. Two client programs leave one to wait while another is served, and
one program can hold two connections after another; a second start shows that a
new daemon owes nothing to the old one. Three programs are enough for one to look
for `config.lua` while a second truncates it and a third has written it. Four key
pairs let a pair be lost, replaced, and lost again after a success. Names one
character shorter and one longer than the limits reach both of them; `MinLength`
is the code's 2, and a `MaxLength` of 3 instead of 30 leaves room for a character
that is neither first nor last.

Deadlock is not checked: bounded starts and openings end, clients exit, a client may be blocked in send for ever, indexing terminates, a
form is answered once, and connections are bounded.

The properties, each with a mutant of the code in the module that breaks it:

* `PickInRange` - with the file opened once, the pick is from a list that is not
  empty. After a second opening it may be: the subaddresses may be gone.
* `EmptyOnlyIfAllPaid` - however often the file is opened, the list comes out empty
  only when every subaddress the wallet has, the batch just created included, had
  been given out and paid before: this is what a restart can do, and all it can do.
* `OfferNotKnown` - what the wallet knew as paid when the handler began is not
  handed out by it, whatever the sync thread does meanwhile.
* `BlindNeverGrows` - while synced and listening, no locked payment is added to
  those whose subaddress is still on offer.
* `PaymentNoticed` - a payment becomes recent or used in the end.
* `LedgerSpec` - a subaddress with a payment recorded as settled at the last
  `daemon_connect` is never given out again, across restarts.
* `OneCopy` - a request is in one place and its reply in none; a reply never
  reaches a client that asked something else since.
* `DiesOfSilenceOnly` - the server thread throws at recv only over a request that no
  branch of `interpret_query` answers.
* `WriterAlive` - the database is locked by a daemon that is alive and indexing.
* `ThreadsTogether` - the threads of a daemon end together, and the server
  interprets only what it owes a reply to.
* `ServiceSpec` - the refinement of `SearchService`.
* `AnsweredWhileUp` - a known request is answered, or the client or the daemon goes.
* `InOrder`, `OnlyAfterNewlineLost`, `IndexingEnds` - the text of the documents is
  the text of the file in its order; only newlines and characters right after
  one are missing; the loop ends unless the file cannot be read.
* `NoGapBeforeStored` - wherever a Xapian error stops the indexing, the documents are
  the beginning of the text: before a stored character nothing is missing but
  newlines and what `ignore()` took.
* `TwoBlankLinesEndParagraph` - what one empty line should do and does not (see
  `index_blank_line` below), two empty lines do: whichever of their newlines
  `ignore()` takes, no document has text from both sides.
* `EndComesNearer` - unless there is a read error, every step of the loop decreases
  `Left`: what remains of the file, then of the last paragraph, then the commit.
* `NoClientLeak` - a connection whose client end is open is in the socket of exactly
  one main client, whatever sequence of calls led there.
* `DescriptorsNeverReturned` - as long as nothing has failed, whoever was accepted
  occupies a descriptor, also after leaving: the daemon serves a limited number
  of clients in its life.
* `FailureIsForGood` - after one failed accept or read nobody is accepted until the
  daemon is started again.
* `NoiseToThirdOnly` - what the daemon writes to stderr reaches the third client it
  accepted, and no other.
* `QueuedIsTaken` - who waits in the queue leaves it in the end: the daemon does not
  wait for a client that waits for the daemon.
* `BrokenNeedsDamage` - the race of several programs that create `config.lua` does not
  leave it empty or cut; a crash, a full disk or the user does.
* `WedgedForGood` - once it is, no program gets to its prompt or repairs it until the
  user acts: `create_config` asks whether the file exists, and no more.
* `RefusedOnlyOverBroken` - a program is left without settings by `load_config` only
  over a file that was damaged, or that another program is writing at that moment.
* `SuccessLeavesNoOlderKey` - when `generate_key_pair` returned true, each file holds the
  newest pair's key or, where the unnoticed flush failed, none: never halves of
  different pairs. That true means a saved pair cannot be said of this code.
* `LostForGood` - a private key that no file holds and no call will write does not
  come back, and no message for it is read, among them those for a public half
  that was saved before its private half failed.
* `CleanBetweenSources` - within a conversion no source's answer is read as another's.
* `RubbishSpoils` - a conversion that began with the rest of an earlier answer gives no
  finite price by way of dollars.
* `WholeUnlessRaced` - a shown box tells of one thing, whole, and can be closed, unless
  a `restore` met its posting.
* `ByTheRules` - registration welcomes and refuses by the rules of `validator.hpp`,
  although the code finds the first and last character in a roundabout way.

### Fairness

* `SellerWallet!FairSpec`: the sync thread scans every payment it can (it runs every
  five seconds) and blocks are mined. The main thread, customers, orders,
  restarts and the reachability of the Monero daemon get none.
* `Neromon!FairSpec`: weak fairness of each thread's steps, of ZeroMQ's delivery and
  of recv returning; strong fairness of a daemon taking the request of one
  client, because a REP socket takes from its peers in turn: the other client may
  ask without end. Nothing is assumed of users, of starts or of kills, nor that
  indexing ends, which it does not over a file that cannot be read.
* `IndexDb!FairSpec`: the database thread runs; read errors and exceptions may come
  but need not.
* `BsdSockets!FairSpec`: the daemon's loop runs on; a read with something to return
  returns; a program that is not inside a read closes its socket in time, as the
  client of `test/sys_network` does after reading once (`ReadBegin` lets a program read
  once per connection, which `Client::read` does not demand). Nothing is assumed of
  connecting, writing, starts or kills. Without the second assumption the daemon's
  one thread may stay in `read` for ever, and nobody else is served.
* `Library` has no liveness: its parts are calls of a user.

### Where the code does not do what the repository says

| run | statement | what happens |
|---|---|---|
| `wallet_once_per_customer` | `wallet.hpp`: a subaddress "is only used once then never again" | the pick is from all unused subaddresses and is not marked: two orders may get the same |
| `wallet_recent_skipped` | `wallet.cpp`: "skip any recently used subaddress" | one that becomes recent after it was looked at is still picked |
| `neromon_silence` | `cli.cpp`: "wait for reply from server" | a db command that is neither query nor add is never answered; the daemon dies at its next recv |
| `cli_connected_flag` | help text: "You must have connected to a neroshop daemon first" | after a refused connect the flag is set, and db blocks for ever |
| `index_blank_line` | `db.cpp`: an empty line ends the paragraph | `ignore()` eats the newline of the empty line |

## 4. What is proved

Every invariant and every action property of the runs is stated by a theorem.

Assumptions: those named in the modules. `BatchAssumption`, `BoundAssumption`,
`NoOrderAssumption` of `SellerWallet`; `NobodyAssumption`, `PortAssumption`,
`BoundAssumption` of `Neromon`; `LengthAssumption` of `IndexDb`; `FdLimitAssumption`,
`MaxConnsAssumption`, `MaxStartsAssumption` of `BsdSockets`; `MaxPairs \in Nat`,
`LengthAssumption` and `TypedAssumption` of `Library`. They say that constants are in
their types, that sentinels are not members of anything, that a name needs at
least one character (`validator.hpp` asks for two), and that what users type is a
form. The sets of orders, clients, daemons, ports, programs, deposits and forms
are arbitrary, also infinite; files and names have any length.

* `SellerWalletProofs!WalletInvariant`: `Spec => [](TypeOK /\ WalletInv)`. Neither
  `PickInRange` nor `OfferNotKnown` is inductive. The strengthening says what the
  handler has done so far (`HandlerInv`: what it knew is still recent or used and
  off its list), that the wallet's view does not run ahead of the chain
  (`PaidWasOffered`), that only orders' subaddresses are ever recent
  (`RecentWasOffered`), that these, and what the handler's loop has passed over, were
  paid (`PassedOverWasPaid`), that what had settled is known to a synced wallet
  (`SettledIsKnown`), and that the new batch lies above everything offered as long
  as the file was opened once (`FirstLoadInv`).
* `WalletIsTyped`, `PickIsInRange`, `EmptyListIsAllPaid`, `OfferedIsNotKnown` follow from it.
* `NoNewBlindPayments`: `BlindNeverGrows` with one more fact (`OpenInv`): whoever is
  synced has the wallet open.
* `WalletImplementsLedger`: `Spec => LedgerSpec`, by `offered <- sub`,
  `spent <- settled`.
* `NeromonProofs!NeromonInvariant`: the conjunction of the five invariants of
  `neromon_protocol` is inductive. They need each other: a daemon's silence is
  explained by the kind of the request it owes a reply for, which stays as it is
  because `OneCopy` keeps the client from asking again; that there is such a
  request is `ThreadsTogether`; the lock goes with its holder because a daemon that
  is down has no database thread.
* `NeromonIsTyped`, `OnlySilenceKills`, `LockIsHeldByTheLiving`, `ThreadsEndTogether`
  follow from it.
* `NeromonImplementsService`: `Spec => ServiceSpec`. A client's request is `asked`,
  its reply `answer`; a request that is in no queue and not being interpreted, and
  has no reply, is `lost`. connect and db map to Ask, `ReceiveReply` and leaving
  to Take, `Interpret` to Answer (or to Lose, where it is silent), the end of a
  process to Lose, the commit to Store, everything else stutters.
* `BsdSocketsProofs!FailedDaemonStaysDeaf`: `FailureIsForGood`, from `DeafInv`: a daemon
  that has failed has no listening socket, and is up. `ConnectionsAreHeld`:
  `NoClientLeak`, from `HeldInv`: a connection in a socket is open, an open one is in a
  socket, no two sockets hold the same, and a connection nobody made is not open.
  `NoDescriptorComesBack` and `StderrReachesTheThird`: `DescriptorsNeverReturned` and
  `NoiseToThirdOnly`, from `TableInv`: until something fails, clients fill the table
  from below without a gap (`FilledFromBelow`), so the third gets stderr's number
  (`ThirdInv`); every connection waits in the queue once (`QueueInv`), so that nobody
  who waits is in the table; and before the loop there is nobody (`QuietBeforeLoop`).
  `ServiceIsLimited`: from these, a daemon accepts at most `FdLimit - 1` clients in its
  life, failures included. `SocketsAreTyped`: `TypeOK`; that `accepted` stays within the
  number of connections takes a count (`CountInv`): a daemon has accepted no more than
  the kernel has handed over, as each was waiting in the queue before.
* `IndexDbProofs!IndexInvariant`: `IndexInv` says of the text what the loop has done
  with the file so far. Whatever is in a document lies behind the reader
  (`BehindReader`), which is what makes the next line come after everything before
  it; every character behind the reader is kept, or a newline, or right after one
  (`PassedIsKept`), which at the end of the file is `OnlyAfterNewlineLost`; and the
  paragraph being gathered began after the last two empty lines that were passed
  (`ParaPastBlank`), as a line that is not empty cannot start inside three newlines
  and `ignore()` takes one of them at most. The four kinds of step that take a line come down
  to one lemma, `TakingKeepsInv`, about taking the characters up to some place and
  going on at most three further. `DocumentsAreNotEmpty`, `TextStaysInOrder`,
  `LossesFollowNewlines`, `StoredIsABeginning`, `TwoBlankLinesSeparate` follow.
  `IndexingIsBounded`: `EndComesNearer`, and that its measure is between 0 and
  `Size + 4`. With the fairness of `FairSpec` this is why `IndexingEnds` holds; the step
  from the one to the other is TLC's.
  That `getline` finds its newline (`LineEndIsFirstNewline`) needs that a set of
  numbers has a least element. The induction theorems of the library take a
  predicate, which the provers cannot instantiate; `LeastNatural` takes the set, and
  gets it from the well-foundedness of "less than".
* `StartUpProofs!BrokenFileNeedsDamage` is inductive as it stands once the types are
  known; `BrokenFileIsForGood`: each step out of a wedged state leads to one.
  `OnlyBrokenFilesRefuse`: `RefusedOnlyOverBroken`, from `TextBeforeLoad`: who goes to
  `load_config` while there is no file has run the built-in text.
* `KeyPairProofs!NoOlderKeyAfterSuccess`, from `SavingInv`: what is being saved is the
  newest pair, half by half, and each file is emptied before it is written.
  `LostKeysStayLost`: a number is given to one pair only, so a lost one is never in
  `pkey` again.
* `ConverterProofs!CleanAfterTheFirst`, `NoPriceFromRubbish`, from `RatesInv`: the rates
  are read by the first request or not at all, and by none that finds rubbish.
* `LibraryProofs`: each property of `library_parts` holds of `Interleaved`, all parts
  side by side, for every value of the constants. `Interleaved` implies the
  specification of each part alone, to which the theorems above apply
  (`StartUpBreaksNoFile`, `StartUpStaysWedged`, `StartUpRefusesOverBroken`,
  `SavedKeysAreNotOlder`, `LostKeysAreLost`, `AnswersStayApart`, `RubbishGivesNoPrice`).
  `ShownBoxIsWhole`, from `Apart` (without a race the two threads are never both
  inside the box), `PostedSoFar` (what a posting has done by each of its steps) and
  `NothingBeforeSync`.
  `RegistrationKeepsTheRules`: `ByTheRules`, from `UsernameByTheRules` and
  `PasswordByTheRules`: for a name of any length, that searching the name in itself
  finds its ends (`EndsOfName`) and that the characters refused are those not listed
  (`CharsAllowedAreListed`) makes the code's checks and the documented rules agree.
  `PartsAreTyped`: the types of all five parts, with `KeyPairTypes` and `ConverterTypes`
  for two of them.

Only model-checked: liveness (`PaymentNoticed`, `AnsweredWhileUp`, `IndexingEnds`,
`QueuedIsTaken`), which rests on fairness and `ENABLED`, beyond these provers; and
the five statements of the repository that the code does not keep, each refuted by
a run.

## 5. Not modelled

* Most of the source is widgets and image data: `icon.cpp` alone is 26,149 of the
  33,953 lines of implementation, `catalog.cpp` and `test/main0.cpp` lay out windows.
  The lines that are mapped are the ones that keep state.
* Stubs. In `item.cpp`, `cart.cpp`, `user.cpp`, `buyer.cpp`, `order.cpp` and most of
  `seller.cpp` the operations on stock, carts, favourites, orders and logins are
  empty or return a constant (`set_quantity` does nothing, `get_total_quantity`
  returns 0, `login` and `is_seller` return false), because the database they were
  written for is commented out. The bodies that are left decide nothing without it:
  `User::create_order` appends an order whose own creation is empty, `logout` resets
  fields, a cart's operations count an item quantity that is always 0. The branch of
  the front-end's login that would make a seller's wallet is never taken.
  The wallet's transfers, sweeping and restoring are stubs as well.
* Database wrappers, which nobody calls; logging; QR codes.
* Cryptography, JSON and HTTP: external. A price is finite or not; its value is not
  modelled, nor is the average of several.
* Torn memory in the data race on `recent_address_list`.
* Of the message boxes: making children, positions and colours.
* The Windows branches of `client.cpp` and `server.cpp`.

## 6. What is left

1. `Session` (`user.cpp`, `main0.cpp`): login and logout, with `SellerWallet`'s `Exit` as
   the logout of a seller, once login does something.
2. The stock of an item against the carts that reserve it, once `set_quantity` has a
   body.
3. An abstract specification of the greeting service that `BsdSockets` implements:
   who is greeted, once, and in the order of the queue.
4. The wallet's box in `SellerWallet` itself: `MessageBox` takes its deposits from
   anywhere, and not from the scans.
