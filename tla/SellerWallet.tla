---------------------------- MODULE SellerWallet ----------------------------
(***************************************************************************)
(* A seller's wallet and the subaddresses it hands out, one per order:     *)
(* Seller::on_order_received with neroshop::Wallet (open, destructor,      *)
(* daemon_connect, address_new, address_unused) and the callback           *)
(* on_output_received.                                                     *)
(*                                                                         *)
(* Three kinds of process step here:                                       *)
(*   - the main thread, which opens the wallet, connects it to a daemon    *)
(*     and answers orders.  pc says where it is; each loop iteration of    *)
(*     address_unused is a step, because the next process can run between  *)
(*     two of them;                                                        *)
(*   - monero-cpp's background sync thread, started by start_syncing,      *)
(*     which takes up the chain's view of a payment and runs the callback; *)
(*   - the world outside: customers pay, blocks are mined, the program is  *)
(*     stopped or dies.                                                    *)
(*                                                                         *)
(* A subaddress is its index in account 0; index 0 is the primary address. *)
(* A customer pays an order at most once, and only to what it was given.   *)
(* The wallet file is never saved (the only close is close(false)), so     *)
(* what opening it again restores is between the primary address alone and *)
(* everything created, and the chain has to be scanned again.              *)
(***************************************************************************)
EXTENDS Integers

CONSTANTS
  Orders,     \* the orders that customers place
  NoOrder,    \* no order is being answered
  Batch,      \* subaddresses created for each order (10 in the code)
  MaxCount,   \* bound: subaddresses created in a behaviour
  MaxLoads    \* bound: times the wallet file is opened in a behaviour

ASSUME BatchAssumption == Batch \in Nat \ {0}
ASSUME BoundAssumption == MaxCount \in Nat \ {0} /\ MaxLoads \in Nat
ASSUME NoOrderAssumption == NoOrder \notin Orders

Address == 0 .. (MaxCount - 1)
NoAddress == -1

\* The life of a payment on the chain.  "settled" is the second confirmation
\* and later while the output is still locked, "unlocked" is spendable.
Stage == {"none", "pending", "confirmed", "settled", "unlocked"}
Locked == {"pending", "confirmed", "settled"}     \* tx->m_is_locked
Settled == {"settled", "unlocked"}

VARIABLES
  wallet,      \* Seller::wallet->monero_wallet_obj: "null" or "open"
  synced,      \* monero_wallet_obj->is_synced()
  listening,   \* this Wallet is registered as the object's listener
  background,  \* start_syncing was called on the object
  count,       \* account 0's m_subaddresses.size()
  recent,      \* Wallet::recent_address_list
  pc,          \* the main thread
  order,       \* the order on_order_received is answering
  next,        \* address_unused's i
  unused,      \* address_unused's address_list
  sub,         \* sub[o]: the subaddress order o was answered with
  tx,          \* tx[o]: the chain's stage of the payment of order o
  seen,        \* seen[o]: the stage the wallet's last scan saw
  loads,       \* times the wallet file was opened (bounds the behaviour)
  known,       \* history: what the running handler knew as paid when it began
  settled      \* history: subaddresses with a settled payment at the last
               \* completed daemon_connect

walletVars == <<wallet, synced, listening, background, recent>>
handlerVars == <<order, next, unused, known>>
chainVars == <<sub, tx>>
vars == <<wallet, synced, listening, background, count, recent, pc, order,
          next, unused, sub, tx, seen, loads, known, settled>>

PC == {"idle", "connecting", "syncing", "syncDone", "scanning"}

TypeOK ==
  /\ wallet \in {"null", "open"}
  /\ synced \in BOOLEAN
  /\ listening \in BOOLEAN
  /\ background \in BOOLEAN
  /\ count \in 1 .. MaxCount
  /\ recent \in SUBSET Address
  /\ pc \in PC
  /\ order \in Orders \cup {NoOrder}
  /\ next \in 0 .. MaxCount
  /\ unused \in SUBSET Address
  /\ sub \in [Orders -> Address \cup {NoAddress}]
  /\ tx \in [Orders -> Stage]
  /\ seen \in [Orders -> Stage]
  /\ loads \in 0 .. MaxLoads
  /\ known \in SUBSET Address
  /\ settled \in SUBSET Address

\* The subaddresses with m_is_used: the wallet has scanned a payment to them
\* that has its second confirmation.
Used == {sub[o] : o \in {p \in Orders : seen[p] \in Settled}}

-----------------------------------------------------------------------------
Init ==
  /\ wallet = "null"
  /\ synced = FALSE
  /\ listening = FALSE
  /\ background = FALSE
  /\ count = 1
  /\ recent = {}
  /\ pc = "idle"
  /\ order = NoOrder
  /\ next = 0
  /\ unused = {}
  /\ sub = [o \in Orders |-> NoAddress]
  /\ tx = [o \in Orders |-> "none"]
  /\ seen = [o \in Orders |-> "none"]
  /\ loads = 0
  /\ known = {}
  /\ settled = {}

\* Mistake: the synced state of the object that was replaced is kept.
OpenKeepsSynced ==
  /\ pc = "idle"
  /\ loads < MaxLoads
  /\ loads' = loads + 1
  /\ wallet' = "open"
  /\ listening' = FALSE
  /\ background' = FALSE
  /\ count' \in 1 .. count
  /\ seen' = [o \in Orders |-> "none"]
  /\ UNCHANGED <<synced, recent, pc, handlerVars, chainVars, settled>>

\* Wallet::open: a new monero_wallet_full replaces whatever was there.  It has
\* no listener, no sync thread and, as nothing was saved, nothing scanned.
\* recent_address_list belongs to the Wallet and is left alone.
Open ==
  /\ pc = "idle"
  /\ loads < MaxLoads
  /\ loads' = loads + 1
  /\ wallet' = "open"
  /\ synced' = FALSE
  /\ listening' = FALSE
  /\ background' = FALSE
  /\ count' \in 1 .. count
  /\ seen' = [o \in Orders |-> "none"]
  /\ UNCHANGED <<recent, pc, handlerVars, chainVars, settled>>

\* The Wallet and the main thread's work are gone.
ProcessGone ==
  /\ wallet' = "null"
  /\ synced' = FALSE
  /\ listening' = FALSE
  /\ background' = FALSE
  /\ recent' = {}
  /\ pc' = "idle"
  /\ order' = NoOrder
  /\ next' = 0
  /\ unused' = {}
  /\ known' = {}
  /\ seen' = [o \in Orders |-> "none"]
  /\ UNCHANGED <<count, chainVars, loads, settled>>

\* The program stops: a logout destroys the Seller and its Wallet with it
\* (remove_listener, close(false), reset), or the program is killed anywhere.
Exit ==
  /\ wallet = "open"
  /\ ProcessGone

-----------------------------------------------------------------------------
(* daemon_connect, on the main thread.                                     *)

\* set_daemon_connection; whether the library forgets that it was synced is
\* its own business.
ConnectBegin ==
  /\ pc = "idle"
  /\ wallet = "open"
  /\ pc' = "connecting"
  /\ synced' \in {synced, FALSE}
  /\ UNCHANGED <<wallet, listening, background, recent, count, handlerVars,
                 chainVars, seen, loads, settled>>

\* The busy loop sees is_connected_to_daemon() and calls sync(0, *this),
\* which registers the listener.
DaemonReached ==
  /\ pc = "connecting"
  /\ pc' = "syncing"
  /\ listening' = TRUE
  /\ UNCHANGED <<wallet, synced, background, recent, count, handlerVars,
                 chainVars, seen, loads, settled>>

\* Mistake: the background sync is never started.
SyncDoneNoBackground ==
  /\ pc = "syncing"
  /\ seen = tx
  /\ pc' = "syncDone"
  /\ synced' = TRUE
  /\ listening' = FALSE
  /\ settled' = Used
  /\ UNCHANGED <<wallet, background, recent, count, handlerVars, chainVars, seen,
                 loads>>

\* sync returns once the wallet has caught up with the chain; then
\* remove_listener and start_syncing(5000).
SyncDone ==
  /\ pc = "syncing"
  /\ seen = tx
  /\ pc' = "syncDone"
  /\ synced' = TRUE
  /\ listening' = FALSE
  /\ background' = TRUE
  /\ settled' = Used
  /\ UNCHANGED <<wallet, recent, count, handlerVars, chainVars, seen, loads>>

\* sync throws (the daemon went away): the exception leaves daemon_connect.
SyncThrows ==
  /\ pc = "syncing"
  /\ pc' = "idle"
  /\ listening' \in BOOLEAN
  /\ UNCHANGED <<wallet, synced, background, recent, count, handlerVars,
                 chainVars, seen, loads, settled>>

\* add_listener, the last statement.  Until here the background thread's
\* notifications have reached nobody.
AddListener ==
  /\ pc = "syncDone"
  /\ pc' = "idle"
  /\ listening' = TRUE
  /\ UNCHANGED <<wallet, synced, background, recent, count, handlerVars,
                 chainVars, seen, loads, settled>>

-----------------------------------------------------------------------------
(* Seller::on_order_received, on the main thread.                          *)

\* Mistake: the handler does not ask whether the wallet is synced.
OrderBeginUnsynced(o) ==
  /\ pc = "idle"
  /\ wallet = "open"
  /\ sub[o] = NoAddress
  /\ count + Batch <= MaxCount
  /\ count' = count + Batch
  /\ pc' = "scanning"
  /\ order' = o
  /\ next' = 0
  /\ unused' = {}
  /\ known' = recent \cup Used
  /\ UNCHANGED <<walletVars, chainVars, seen, loads, settled>>

\* Mistake: no subaddress is created for the order.
OrderBeginNoBatch(o) ==
  /\ pc = "idle"
  /\ wallet = "open"
  /\ synced
  /\ sub[o] = NoAddress
  /\ pc' = "scanning"
  /\ order' = o
  /\ next' = 0
  /\ unused' = {}
  /\ known' = recent \cup Used
  /\ UNCHANGED <<walletVars, count, chainVars, seen, loads, settled>>

\* The handler throws unless the wallet is open and synced.  It creates its
\* batch of subaddresses and enters address_unused.
OrderBegin(o) ==
  /\ pc = "idle"
  /\ wallet = "open"
  /\ synced
  /\ sub[o] = NoAddress
  /\ count + Batch <= MaxCount
  /\ count' = count + Batch
  /\ pc' = "scanning"
  /\ order' = o
  /\ next' = 0
  /\ unused' = {}
  /\ known' = recent \cup Used
  /\ UNCHANGED <<walletVars, chainVars, seen, loads, settled>>

\* Mistake: i <= size() for i < size().
ScanAddressTooFar ==
  /\ pc = "scanning"
  /\ next <= count
  /\ next' = next + 1
  /\ unused' = IF next \in Used \/ next \in recent
               THEN unused ELSE unused \cup {next}
  /\ UNCHANGED <<walletVars, count, pc, order, known, chainVars, seen, loads,
                 settled>>

\* Mistake: the recent list is not consulted.
ScanAddressIgnoresRecent ==
  /\ pc = "scanning"
  /\ next < count
  /\ next' = next + 1
  /\ unused' = IF next \in Used THEN unused ELSE unused \cup {next}
  /\ UNCHANGED <<walletVars, count, pc, order, known, chainVars, seen, loads,
                 settled>>

\* Mistake: the loop starts at 1, past the primary address.
ScanAddressFromOne ==
  /\ pc = "scanning"
  /\ next < count
  /\ next' = next + 1
  /\ unused' = IF next = 0 \/ next \in Used \/ next \in recent
               THEN unused ELSE unused \cup {next}
  /\ UNCHANGED <<walletVars, count, pc, order, known, chainVars, seen, loads,
                 settled>>

\* One iteration of address_unused.
ScanAddress ==
  /\ pc = "scanning"
  /\ next < count
  /\ next' = next + 1
  /\ unused' = IF next \in Used \/ next \in recent
               THEN unused ELSE unused \cup {next}
  /\ UNCHANGED <<walletVars, count, pc, order, known, chainVars, seen, loads,
                 settled>>

\* static_cast<int> of a real drawn from [0, size - 1): every element but the
\* last, and the only one of a list of one.  address_list is in index order.
Choosable(list) == {a \in list : (\E b \in list : a < b) \/ list = {a}}

\* The answer.  Nothing marks the subaddress as taken.
OrderAnswer ==
  /\ pc = "scanning"
  /\ next >= count
  /\ \E a \in Choosable(unused) : sub' = [sub EXCEPT ![order] = a]
  /\ pc' = "idle"
  /\ order' = NoOrder
  /\ next' = 0
  /\ unused' = {}
  /\ known' = {}
  /\ UNCHANGED <<walletVars, count, tx, seen, loads, settled>>

\* With no unused subaddress size() - 1 wraps around, and the element read
\* lies far outside the vector: the program dies.
OrderOutOfRange ==
  /\ pc = "scanning"
  /\ next >= count
  /\ unused = {}
  /\ ProcessGone

-----------------------------------------------------------------------------
(* The background thread and the world.                                    *)

\* Mistake: only a confirmed output is remembered.
OnOutputReceivedConfirmed(o, stage) ==
  recent' = IF listening /\ wallet = "open" /\ synced /\ stage = "confirmed"
            THEN recent \cup {sub[o]} ELSE recent

\* on_output_received returns early without an object or before it is synced,
\* and remembers the subaddress of an output that is still locked.
OnOutputReceived(o, stage) ==
  recent' = IF listening /\ wallet = "open" /\ synced /\ stage \in Locked
            THEN recent \cup {sub[o]} ELSE recent

\* A scan, by sync or by the background thread, takes up the stage of one
\* payment and notifies the listener.  get_address in the callback indexes
\* m_subaddresses, so the library knows the subaddress by then.
Scan(o) ==
  /\ pc = "syncing" \/ background
  /\ seen[o] # tx[o]
  /\ seen' = [seen EXCEPT ![o] = tx[o]]
  /\ count' = IF count <= sub[o] THEN sub[o] + 1 ELSE count
  /\ OnOutputReceived(o, tx[o])
  /\ UNCHANGED <<wallet, synced, listening, background, pc, handlerVars,
                 chainVars, loads, settled>>

Pay(o) ==
  /\ sub[o] # NoAddress
  /\ tx[o] = "none"
  /\ tx' = [tx EXCEPT ![o] = "pending"]
  /\ UNCHANGED <<walletVars, count, pc, handlerVars, sub, seen, loads, settled>>

\* The payment goes one stage deeper into the chain.
After(stage) ==
  CASE stage = "pending" -> "confirmed"
    [] stage = "confirmed" -> "settled"
    [] OTHER -> "unlocked"

Mine(o) ==
  /\ tx[o] \in Locked
  /\ tx' = [tx EXCEPT ![o] = After(@)]
  /\ UNCHANGED <<walletVars, count, pc, handlerVars, sub, seen, loads, settled>>

-----------------------------------------------------------------------------
Connect ==
  ConnectBegin \/ DaemonReached \/ SyncDone \/ SyncThrows \/ AddListener

Order ==
  \/ \E o \in Orders : OrderBegin(o)
  \/ ScanAddress
  \/ OrderAnswer
  \/ OrderOutOfRange

World == \E o \in Orders : Scan(o) \/ Pay(o) \/ Mine(o)

Next == Open \/ Exit \/ Connect \/ Order \/ World

Spec == Init /\ [][Next]_vars

\* The background thread syncs every five seconds for as long as it runs, and
\* blocks keep being mined.  Nothing is assumed of the user or the daemon.
Fairness == \A o \in Orders : WF_vars(Scan(o)) /\ WF_vars(Mine(o))

FairSpec == Spec /\ Fairness

-----------------------------------------------------------------------------
(* What holds.                                                             *)

\* An order is never answered with a subaddress that the wallet knew as paid,
\* by its recent list or by m_is_used, when the handler began: the filter runs
\* address by address while the background thread changes both, and the answer
\* is picked after the last look.
OfferNotKnown ==
  [][\A o \in Orders : sub'[o] # sub[o] => sub'[o] \notin known]_vars

\* With the wallet file opened once, on_order_received always has a subaddress
\* to pick, whatever is paid while it runs: the batch it created itself was
\* offered to nobody yet.
PickInRange == pc = "scanning" /\ next >= count /\ loads <= 1 => unused # {}

\* The subaddresses that were given to an order and paid, as the chain has it.
Paid == {sub[o] : o \in {p \in Orders : tx[p] # "none"}}

\* However often the wallet file is opened, the list to pick from comes out
\* empty only when every subaddress the wallet has at that moment, the batch
\* created for this very order included, was given out before and paid: what a
\* restart forgets, and what the sync thread changes between two iterations,
\* never hides a subaddress that could have been offered.
EmptyOnlyIfAllPaid ==
  pc = "scanning" /\ next >= count /\ unused = {} => 0 .. (count - 1) \subseteq Paid

\* Orders with a payment the wallet has scanned and still holds locked, whose
\* subaddress is nevertheless on offer again.
Blind == {o \in Orders : seen[o] \in {"pending", "confirmed"} /\ sub[o] \notin recent}

\* While the wallet is synced and listening no payment becomes one of those;
\* the initial sync and the gap between remove_listener and add_listener are
\* where they come from.
BlindNeverGrows == [][listening /\ synced => Blind' \subseteq Blind]_vars

\* A payment made while the wallet is synced, or found by its sync, is noticed
\* in the end: its subaddress becomes recent or used, even when the
\* notification of its first appearance fell into the listener gap.  Unless
\* the wallet stops being synced (it is closed or opened anew).
PaymentNoticed ==
  \A o \in Orders :
    (tx[o] # "none" /\ synced) ~> (sub[o] \in recent \cup Used \/ ~synced)

\* The wallet implements the ledger: a subaddress with a settled payment when
\* the wallet was last connected is given to nobody after that, across
\* restarts that lose the recent list and everything scanned.
Ledger == INSTANCE AddressLedger WITH offered <- sub, spent <- settled

LedgerSpec == Ledger!LedgerSpec

-----------------------------------------------------------------------------
(* Why it holds: the inductive invariant.                                  *)

\* Money goes only where an order was sent, and the wallet's view of a payment
\* does not run ahead of the chain.
PaidWasOffered ==
  \A o \in Orders :
    /\ tx[o] # "none" => sub[o] \in Address
    /\ seen[o] # "none" => tx[o] # "none"
    /\ seen[o] \in Settled => tx[o] \in Settled

\* Only subaddresses of orders are remembered as recent.
RecentWasOffered == recent \subseteq {sub[o] : o \in Orders} \cap Address

\* A remembered subaddress was paid, and so was every one that the handler's
\* loop has passed over.
PassedOverWasPaid ==
  /\ recent \subseteq Paid
  /\ pc = "scanning" => 0 .. (next - 1) \subseteq unused \cup Paid

\* What had settled when the wallet was last connected has settled on the
\* chain, and a synced wallet has scanned it.
SettledIsKnown ==
  /\ settled \subseteq {sub[o] : o \in {p \in Orders : tx[p] \in Settled}}
  /\ synced => settled \subseteq Used

\* In the handler: whatever it knew as paid when it began is still recent or
\* used and has been kept off the list so far.
HandlerInv ==
  pc = "scanning" =>
    /\ wallet = "open" /\ synced
    /\ order \in Orders /\ sub[order] = NoAddress
    /\ settled \subseteq known
    /\ known \subseteq recent \cup Used
    /\ unused \cap known = {}
    /\ unused \subseteq 0 .. (next - 1)
    /\ next <= count

\* Until the wallet file is opened a second time the batch being scanned lies
\* above every subaddress that was offered, so all of it is listed.
FirstLoadInv ==
  /\ loads = 0 => wallet = "null" /\ \A o \in Orders : sub[o] = NoAddress
  /\ loads <= 1 =>
       /\ \A o \in Orders : sub[o] < count
       /\ pc = "scanning" =>
            /\ Batch < count
            /\ \A o \in Orders : sub[o] < count - Batch
            /\ (count - Batch) .. (next - 1) \subseteq unused

WalletInv ==
  /\ PaidWasOffered
  /\ RecentWasOffered
  /\ PassedOverWasPaid
  /\ SettledIsKnown
  /\ HandlerInv
  /\ FirstLoadInv

-----------------------------------------------------------------------------
(* What the repository says and the code does not do.                      *)

\* wallet.hpp: "a new subaddress is generated for each customer and is only
\* used once then never again!"
OncePerCustomer ==
  \A o, p \in Orders : o # p /\ sub[o] = sub[p] => sub[o] = NoAddress

\* wallet.cpp: "skip any recently used subaddress".
RecentNotOffered ==
  [][\A o \in Orders : sub'[o] # sub[o] => sub'[o] \notin recent]_vars

=============================================================================
