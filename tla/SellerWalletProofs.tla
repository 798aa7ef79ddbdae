------------------------- MODULE SellerWalletProofs -------------------------
(***************************************************************************)
(* Proofs about SellerWallet, for every set of orders, batch size and      *)
(* bound: its type and inductive invariant, that a running first session   *)
(* always has a subaddress to give, that a subaddress known as paid is not *)
(* given, and that the wallet implements AddressLedger.                    *)
(***************************************************************************)
EXTENDS SellerWallet, TLAPS

\* The initial state is of the right type and satisfies the invariant.
LEMMA InitInv == Init => TypeOK /\ WalletInv
<1> SUFFICES ASSUME Init PROVE TypeOK /\ WalletInv
  OBVIOUS
<1> USE BatchAssumption, BoundAssumption, NoOrderAssumption DEF Init, NoAddress
<1>1. TypeOK
  <2>1. tx \in [Orders -> Stage] /\ seen \in [Orders -> Stage]
    BY DEF Stage
  <2>2. sub \in [Orders -> Address \cup {NoAddress}]
    OBVIOUS
  <2>3. synced \in BOOLEAN /\ listening \in BOOLEAN /\ background \in BOOLEAN
    OBVIOUS
  <2>. QED
    BY <2>1, <2>2, <2>3 DEF TypeOK, PC
<1>2. PaidWasOffered
  BY DEF PaidWasOffered, Settled
<1>3. RecentWasOffered /\ SettledIsKnown
  BY DEF RecentWasOffered, SettledIsKnown
<1>4. HandlerInv /\ FirstLoadInv /\ PassedOverWasPaid
  BY DEF HandlerInv, FirstLoadInv, PassedOverWasPaid
<1>. QED
  BY <1>1, <1>2, <1>3, <1>4 DEF WalletInv

\* Only what was offered can be used, so the used subaddresses are addresses.
LEMMA UsedIsAddress ==
  ASSUME TypeOK, WalletInv
  PROVE  Used \subseteq Address
  BY DEF TypeOK, WalletInv, PaidWasOffered, Used, Settled

\* Every step preserves the type invariant.
LEMMA TypeStep ==
  ASSUME TypeOK, WalletInv, [Next]_vars
  PROVE  TypeOK'
<1> USE BatchAssumption, BoundAssumption, NoOrderAssumption
    DEF walletVars, handlerVars, chainVars
<1>1. CASE Open
  <2>1. seen' \in [Orders -> Stage]
    BY <1>1 DEF Open, Stage
  <2>2. synced' \in BOOLEAN /\ listening' \in BOOLEAN /\ background' \in BOOLEAN
    BY <1>1 DEF Open
  <2>. QED
    BY <1>1, <2>1, <2>2 DEF Open, TypeOK
<1>2. CASE Exit
  <2>1. seen' \in [Orders -> Stage]
    BY <1>2 DEF Exit, ProcessGone, Stage
  <2>2. synced' \in BOOLEAN /\ listening' \in BOOLEAN /\ background' \in BOOLEAN
    BY <1>2 DEF Exit, ProcessGone
  <2>. QED
    BY <1>2, <2>1, <2>2 DEF Exit, ProcessGone, TypeOK, PC
<1>3. CASE ConnectBegin
  BY <1>3 DEF ConnectBegin, TypeOK, PC
<1>4. CASE DaemonReached
  BY <1>4 DEF DaemonReached, TypeOK, PC
<1>5. CASE SyncDone
  BY <1>5, UsedIsAddress DEF SyncDone, TypeOK, PC
<1>6. CASE SyncThrows
  BY <1>6 DEF SyncThrows, TypeOK, PC
<1>7. CASE AddListener
  BY <1>7 DEF AddListener, TypeOK, PC
<1>8. ASSUME NEW o \in Orders, OrderBegin(o)
      PROVE  TypeOK'
  <2>1. known' \subseteq Address
    BY <1>8, UsedIsAddress DEF OrderBegin, TypeOK
  <2>. QED
    BY <1>8, <2>1 DEF OrderBegin, TypeOK, PC
<1>9. CASE ScanAddress
  <2>1. next \in Address
    BY <1>9 DEF ScanAddress, TypeOK, Address
  <2>2. unused' \subseteq Address
    BY <1>9, <2>1 DEF ScanAddress, TypeOK
  <2>. QED
    BY <1>9, <2>2 DEF ScanAddress, TypeOK, PC
<1>10. CASE OrderAnswer
  <2>1. sub' \in [Orders -> Address \cup {NoAddress}]
    BY <1>10 DEF OrderAnswer, Choosable, TypeOK
  <2>. QED
    BY <1>10, <2>1 DEF OrderAnswer, TypeOK, PC
<1>11. CASE OrderOutOfRange
  <2>1. seen' \in [Orders -> Stage]
    BY <1>11 DEF OrderOutOfRange, ProcessGone, Stage
  <2>2. synced' \in BOOLEAN /\ listening' \in BOOLEAN /\ background' \in BOOLEAN
    BY <1>11 DEF OrderOutOfRange, ProcessGone
  <2>. QED
    BY <1>11, <2>1, <2>2 DEF OrderOutOfRange, ProcessGone, TypeOK, PC
<1>12. ASSUME NEW o \in Orders, Scan(o)
       PROVE  TypeOK'
  <2>1. sub[o] \in Address
    BY <1>12 DEF Scan, TypeOK, WalletInv, PaidWasOffered, Stage
  <2>2. count' \in 1 .. MaxCount
    BY <1>12, <2>1 DEF Scan, TypeOK, Address
  <2>3. recent' \subseteq Address
    BY <1>12, <2>1 DEF Scan, OnOutputReceived, TypeOK
  <2>. QED
    BY <1>12, <2>2, <2>3 DEF Scan, TypeOK
<1>13. ASSUME NEW o \in Orders, Pay(o)
       PROVE  TypeOK'
  BY <1>13 DEF Pay, TypeOK, Stage
<1>14. ASSUME NEW o \in Orders, Mine(o)
       PROVE  TypeOK'
  BY <1>14 DEF Mine, After, TypeOK, Stage, Locked
<1>15. CASE UNCHANGED vars
  BY <1>15 DEF vars, TypeOK
<1>. QED
  BY <1>1, <1>2, <1>3, <1>4, <1>5, <1>6, <1>7, <1>8, <1>9, <1>10, <1>11,
     <1>12, <1>13, <1>14, <1>15 DEF Next, Connect, Order, World

-----------------------------------------------------------------------------
(* One lemma for each conjunct of the inductive invariant.                 *)

\* Three actions forget what was scanned.
LEMMA ForgetScanned ==
  ASSUME Open \/ Exit \/ OrderOutOfRange
  PROVE  /\ sub' = sub /\ tx' = tx /\ settled' = settled
         /\ \A o \in Orders : seen'[o] = "none"
         /\ ~synced' /\ pc' = "idle"
  BY DEF Open, Exit, OrderOutOfRange, ProcessGone, handlerVars, chainVars

\* An answer gives an address to the order being answered and to no other.
LEMMA AnswerStep ==
  ASSUME TypeOK, WalletInv, OrderAnswer
  PROVE  /\ sub[order] = NoAddress /\ order \in Orders
         /\ sub'[order] \in unused
         /\ \A o \in Orders : o # order => sub'[o] = sub[o]
         /\ sub[order] \notin Address
<1>1. PICK a \in Choosable(unused) : sub' = [sub EXCEPT ![order] = a]
  BY DEF OrderAnswer
<1>2. a \in unused
  BY DEF Choosable
<1>3. pc = "scanning" /\ order \in Orders /\ sub[order] = NoAddress
  BY DEF OrderAnswer, WalletInv, HandlerInv
<1>. QED
  BY <1>1, <1>2, <1>3 DEF TypeOK, NoAddress, Address

LEMMA PaidWasOfferedStep ==
  ASSUME TypeOK, WalletInv, [Next]_vars
  PROVE  PaidWasOffered'
<1>1. PaidWasOffered
  BY DEF WalletInv
<1>2. CASE UNCHANGED <<sub, tx, seen>>
  BY <1>1, <1>2 DEF PaidWasOffered
<1>3. CASE Open \/ Exit \/ OrderOutOfRange
  BY <1>1, <1>3, ForgetScanned DEF PaidWasOffered, Settled
<1>4. CASE OrderAnswer
  <2>1. tx' = tx /\ seen' = seen
    BY <1>4 DEF OrderAnswer
  <2>2. \A o \in Orders : o # order => sub'[o] = sub[o]
    BY <1>4, AnswerStep
  <2>3. sub'[order] \in Address
    BY <1>4, AnswerStep DEF TypeOK
  <2>. QED
    BY <1>1, <2>1, <2>2, <2>3 DEF PaidWasOffered
<1>5. ASSUME NEW o \in Orders, Scan(o)
      PROVE  PaidWasOffered'
  BY <1>1, <1>5 DEF Scan, chainVars, PaidWasOffered, TypeOK
<1>6. ASSUME NEW o \in Orders, Pay(o)
      PROVE  PaidWasOffered'
  <2>1. sub[o] \in Address
    BY <1>6 DEF Pay, TypeOK
  <2>. QED
    BY <1>1, <1>6, <2>1 DEF Pay, PaidWasOffered, TypeOK, Settled
<1>7. ASSUME NEW o \in Orders, Mine(o)
      PROVE  PaidWasOffered'
  <2>1. tx'[o] \in Stage \ {"none"} /\ (tx[o] \in Settled => tx'[o] \in Settled)
    BY <1>7 DEF Mine, After, Locked, Settled, Stage, TypeOK
  <2>2. \A p \in Orders : p # o => tx'[p] = tx[p]
    BY <1>7 DEF Mine, TypeOK
  <2>3. tx[o] # "none"
    BY <1>7 DEF Mine, Locked
  <2>4. sub' = sub /\ seen' = seen
    BY <1>7 DEF Mine
  <2>. QED
    BY <1>1, <2>1, <2>2, <2>3, <2>4 DEF PaidWasOffered
<1>. QED
  BY <1>2, <1>3, <1>4, <1>5, <1>6, <1>7
  DEF Next, Connect, Order, World, ConnectBegin, DaemonReached, SyncDone,
      SyncThrows, AddListener, OrderBegin, ScanAddress, chainVars, vars

\* A subaddress that an order holds is held for good.
LEMMA SubKept ==
  ASSUME TypeOK, WalletInv, [Next]_vars, NEW o \in Orders, sub[o] \in Address
  PROVE  sub'[o] = sub[o]
<1>1. CASE OrderAnswer
  BY <1>1, AnswerStep
<1>2. CASE sub' = sub
  BY <1>2
<1>. QED
  BY <1>1, <1>2, ForgetScanned
  DEF Next, Connect, Order, World, ConnectBegin, DaemonReached, SyncDone,
      SyncThrows, AddListener, OrderBegin, ScanAddress, Scan, Pay, Mine,
      chainVars, vars

LEMMA RecentWasOfferedStep ==
  ASSUME TypeOK, WalletInv, [Next]_vars
  PROVE  RecentWasOffered'
<1>1. \A a \in recent : \E o \in Orders : sub[o] = a /\ a \in Address
  BY DEF WalletInv, RecentWasOffered
<1>2. \A a \in recent : \E o \in Orders : sub'[o] = a /\ a \in Address
  BY <1>1, SubKept
<1>3. CASE recent' \subseteq recent
  BY <1>2, <1>3 DEF RecentWasOffered
<1>4. ASSUME NEW o \in Orders, Scan(o)
      PROVE  RecentWasOffered'
  <2>1. sub' = sub /\ sub[o] \in Address
    BY <1>4 DEF Scan, chainVars, TypeOK, WalletInv, PaidWasOffered, Stage
  <2>2. recent' \subseteq recent \cup {sub[o]}
    BY <1>4 DEF Scan, OnOutputReceived
  <2>. QED
    BY <1>2, <2>1, <2>2 DEF RecentWasOffered
<1>. QED
  BY <1>3, <1>4
  DEF Next, Connect, Order, World, Open, Exit, ProcessGone, OrderOutOfRange,
      ConnectBegin, DaemonReached, SyncDone, SyncThrows, AddListener, OrderBegin,
      ScanAddress, OrderAnswer, Pay, Mine, walletVars, vars

\* A paid subaddress is paid for good.
LEMMA PaidGrows ==
  ASSUME TypeOK, WalletInv, [Next]_vars
  PROVE  Paid \subseteq Paid'
<1>1. ASSUME NEW o \in Orders, tx[o] # "none"
      PROVE  sub'[o] = sub[o]
  BY <1>1, SubKept DEF WalletInv, PaidWasOffered
<1>2. ASSUME NEW o \in Orders, tx[o] # "none"
      PROVE  tx'[o] # "none"
  <2>1. CASE tx' = tx
    BY <1>2, <2>1
  <2>2. ASSUME NEW p \in Orders, Pay(p) \/ Mine(p)
        PROVE  tx'[o] # "none"
    BY <1>2, <2>2 DEF Pay, Mine, After, TypeOK, Stage
  <2>. QED
    BY <2>1, <2>2, ForgetScanned
    DEF Next, Connect, Order, World, ConnectBegin, DaemonReached, SyncDone,
        SyncThrows, AddListener, OrderBegin, ScanAddress, OrderAnswer, Scan,
        chainVars, vars
<1>. QED
  BY <1>1, <1>2 DEF Paid

\* What the wallet has seen as used was paid.
LEMMA UsedWasPaid ==
  ASSUME TypeOK, WalletInv
  PROVE  Used \subseteq Paid
  BY DEF WalletInv, PaidWasOffered, Used, Paid, Settled

LEMMA PassedOverWasPaidStep ==
  ASSUME TypeOK, WalletInv, [Next]_vars
  PROVE  PassedOverWasPaid'
<1>1. PassedOverWasPaid
  BY DEF WalletInv
<1>2. Paid \subseteq Paid'
  BY PaidGrows
<1>3. recent' \subseteq Paid'
  <2>1. CASE recent' \subseteq recent
    BY <1>1, <1>2, <2>1 DEF PassedOverWasPaid
  <2>2. ASSUME NEW o \in Orders, Scan(o)
        PROVE  recent' \subseteq Paid'
    <3>1. tx[o] # "none"
      BY <2>2 DEF Scan, WalletInv, PaidWasOffered, TypeOK
    <3>2. sub[o] \in Paid
      BY <3>1 DEF Paid
    <3>3. recent' \subseteq recent \cup {sub[o]}
      BY <2>2 DEF Scan, OnOutputReceived
    <3>. QED
      BY <1>1, <1>2, <3>2, <3>3 DEF PassedOverWasPaid
  <2>. QED
    BY <2>1, <2>2
    DEF Next, Connect, Order, World, Open, Exit, ProcessGone, OrderOutOfRange,
        ConnectBegin, DaemonReached, SyncDone, SyncThrows, AddListener, OrderBegin,
        ScanAddress, OrderAnswer, Pay, Mine, walletVars, vars
<1>4. ASSUME pc' = "scanning"
      PROVE  0 .. (next' - 1) \subseteq unused' \cup Paid'
  <2>1. ASSUME NEW o \in Orders, OrderBegin(o)
        PROVE  0 .. (next' - 1) \subseteq unused' \cup Paid'
    BY <2>1 DEF OrderBegin
  <2>2. CASE ScanAddress
    <3>1. 0 .. (next - 1) \subseteq unused \cup Paid
      BY <1>1, <2>2 DEF PassedOverWasPaid, ScanAddress
    <3>2. unused \subseteq unused' /\ next \in unused' \cup Paid
      BY <1>1, <2>2, UsedWasPaid DEF ScanAddress, PassedOverWasPaid
    <3>3. 0 .. (next' - 1) \subseteq 0 .. (next - 1) \cup {next}
      BY <2>2 DEF ScanAddress, TypeOK
    <3>. QED
      BY <1>2, <3>1, <3>2, <3>3
  <2>3. CASE pc = "scanning" /\ next' = next /\ unused' = unused
    BY <1>1, <1>2, <2>3 DEF PassedOverWasPaid
  <2>. QED
    BY <1>4, <2>1, <2>2, <2>3
    DEF Next, Connect, Order, World, Open, Exit, ProcessGone, OrderOutOfRange,
        ConnectBegin, DaemonReached, SyncDone, SyncThrows, AddListener, OrderAnswer,
        Scan, Pay, Mine, handlerVars, vars
<1>. QED
  BY <1>3, <1>4 DEF PassedOverWasPaid

\* What the wallet has scanned as used stays used, until it forgets all of it.
LEMMA UsedGrows ==
  ASSUME TypeOK, WalletInv, [Next]_vars
  PROVE  Used \subseteq Used' \/ Open \/ Exit \/ OrderOutOfRange
<1>1. ASSUME NEW o \in Orders, seen[o] \in Settled
      PROVE  sub'[o] = sub[o]
  BY <1>1, SubKept DEF WalletInv, PaidWasOffered, Settled
<1>2. CASE seen' = seen
  BY <1>1, <1>2 DEF Used
<1>3. ASSUME NEW p \in Orders, Scan(p)
      PROVE  Used \subseteq Used'
  <2>1. \A o \in Orders : seen[o] \in Settled => seen'[o] \in Settled
    BY <1>3 DEF Scan, TypeOK, WalletInv, PaidWasOffered
  <2>. QED
    BY <1>1, <2>1 DEF Used
<1>. QED
  BY <1>2, <1>3
  DEF Next, Connect, Order, World, ConnectBegin, DaemonReached, SyncDone,
      SyncThrows, AddListener, OrderBegin, ScanAddress, OrderAnswer, Pay, Mine, vars

\* Nor does a settled payment come undone on the chain.
LEMMA SettledOnChainGrows ==
  ASSUME TypeOK, WalletInv, [Next]_vars
  PROVE  {sub[o] : o \in {p \in Orders : tx[p] \in Settled}}
           \subseteq {sub[o] : o \in {p \in Orders : tx[p] \in Settled}}'
<1>1. ASSUME NEW o \in Orders, tx[o] \in Settled
      PROVE  sub'[o] = sub[o]
  BY <1>1, SubKept DEF WalletInv, PaidWasOffered, Settled
<1>2. ASSUME NEW o \in Orders, tx[o] \in Settled
      PROVE  tx'[o] \in Settled
  <2>1. CASE tx' = tx
    BY <1>2, <2>1
  <2>2. ASSUME NEW p \in Orders, Pay(p) \/ Mine(p)
        PROVE  tx'[o] \in Settled
    BY <1>2, <2>2 DEF Pay, Mine, After, TypeOK, Settled, Stage
  <2>. QED
    BY <2>1, <2>2, ForgetScanned
    DEF Next, Connect, Order, World, ConnectBegin, DaemonReached, SyncDone,
        SyncThrows, AddListener, OrderBegin, ScanAddress, OrderAnswer, Scan,
        chainVars, vars
<1>. QED
  BY <1>1, <1>2

LEMMA SettledIsKnownStep ==
  ASSUME TypeOK, WalletInv, [Next]_vars
  PROVE  SettledIsKnown'
<1>1. SettledIsKnown
  BY DEF WalletInv
<1>2. CASE SyncDone
  <2>1. settled' = Used /\ Used' = Used /\ Used
          = {sub[o] : o \in {p \in Orders : tx[p] \in Settled}}
    BY <1>2 DEF SyncDone, Used, chainVars
  <2>2. sub' = sub /\ tx' = tx
    BY <1>2 DEF SyncDone, chainVars
  <2>. QED
    BY <2>1, <2>2 DEF SettledIsKnown
<1>3. CASE Open \/ Exit \/ OrderOutOfRange
  BY <1>1, <1>3, ForgetScanned DEF SettledIsKnown
<1>4. CASE settled' = settled /\ (synced' => synced) /\ Used \subseteq Used'
  BY <1>1, <1>4, SettledOnChainGrows DEF SettledIsKnown
<1>5. CASE Used \subseteq Used' /\ ~SyncDone /\ ~Open /\ ~Exit /\ ~OrderOutOfRange
  <2>1. settled' = settled
    BY <1>5
    DEF Next, Connect, Order, World, ConnectBegin, DaemonReached, SyncThrows,
        AddListener, OrderBegin, ScanAddress, OrderAnswer, Scan, Pay, Mine, vars
  <2>2. synced' => synced
    BY <1>5
    DEF Next, Connect, Order, World, ConnectBegin, DaemonReached, SyncThrows,
        AddListener, OrderBegin, ScanAddress, OrderAnswer, Scan, Pay, Mine,
        walletVars, vars
  <2>. QED
    BY <1>4, <1>5, <2>1, <2>2
<1>. QED
  BY <1>2, <1>3, <1>5, UsedGrows

LEMMA HandlerInvStep ==
  ASSUME TypeOK, WalletInv, [Next]_vars
  PROVE  HandlerInv'
<1>1. HandlerInv
  BY DEF WalletInv
<1>2. CASE pc' # "scanning"
  BY <1>2 DEF HandlerInv
<1>3. ASSUME NEW o \in Orders, OrderBegin(o)
      PROVE  HandlerInv'
  <2>1. settled \subseteq known'
    BY <1>3 DEF OrderBegin, WalletInv, SettledIsKnown
  <2>2. Used' = Used
    BY <1>3 DEF OrderBegin, chainVars, Used
  <2>3. wallet' = "open" /\ synced' /\ recent' = recent /\ sub' = sub
    BY <1>3 DEF OrderBegin, walletVars, chainVars
  <2>4. order' \in Orders /\ sub'[order'] = NoAddress
    BY <1>3, <2>3 DEF OrderBegin
  <2>5. unused' = {} /\ next' <= count'
    BY <1>3, BatchAssumption DEF OrderBegin, TypeOK
  <2>6. known' \subseteq recent' \cup Used'
    BY <1>3, <2>2, <2>3 DEF OrderBegin
  <2>7. settled' = settled
    BY <1>3 DEF OrderBegin
  <2>. QED
    BY <2>1, <2>3, <2>4, <2>5, <2>6, <2>7 DEF HandlerInv
<1>4. CASE ScanAddress
  <2>1. Used' = Used
    BY <1>4 DEF ScanAddress, chainVars, Used
  <2>2. unused' \cap known' = {}
    BY <1>1, <1>4 DEF ScanAddress, HandlerInv
  <2>3. unused' \subseteq 0 .. (next' - 1)
    BY <1>1, <1>4 DEF ScanAddress, HandlerInv, TypeOK
  <2>4. next' <= count'
    BY <1>4 DEF ScanAddress, TypeOK
  <2>. QED
    BY <1>1, <1>4, <2>1, <2>2, <2>3, <2>4
    DEF ScanAddress, HandlerInv, walletVars, chainVars
<1>5. ASSUME NEW o \in Orders, Scan(o), pc = "scanning"
      PROVE  HandlerInv'
  <2>1. Used \subseteq Used'
    BY <1>5, UsedGrows DEF Scan, Open, Exit, ProcessGone, OrderOutOfRange
  <2>2. recent \subseteq recent'
    BY <1>5 DEF Scan, OnOutputReceived
  <2>3. count <= count'
    BY <1>5 DEF Scan, TypeOK, Address, NoAddress
  <2>4. next' <= count'
    BY <1>1, <1>5, <2>3 DEF HandlerInv, Scan, handlerVars, TypeOK
  <2>. QED
    BY <1>1, <1>5, <2>1, <2>2, <2>4 DEF Scan, HandlerInv, handlerVars, chainVars
<1>6. ASSUME NEW o \in Orders, Pay(o) \/ Mine(o)
      PROVE  HandlerInv'
  <2>1. Used' = Used
    BY <1>6 DEF Pay, Mine, Used
  <2>. QED
    BY <1>1, <1>6, <2>1 DEF Pay, Mine, HandlerInv, walletVars, handlerVars
<1>7. CASE UNCHANGED vars
  <2>1. Used' = Used
    BY <1>7 DEF vars, Used
  <2>. QED
    BY <1>1, <1>7, <2>1 DEF vars, HandlerInv
<1>. QED
  BY <1>2, <1>3, <1>4, <1>5, <1>6, <1>7
  DEF Next, Connect, Order, World, Open, Exit, ProcessGone, OrderOutOfRange,
      ConnectBegin, DaemonReached, SyncDone, SyncThrows, AddListener, OrderAnswer,
      Scan

\* While the file was opened once, no subaddress of the batch being scanned was
\* offered to anyone, so none of it is recent or used.
LEMMA BatchIsFresh ==
  ASSUME TypeOK, WalletInv, pc = "scanning", loads <= 1,
         NEW a \in (count - Batch) .. (count - 1)
  PROVE  a \notin recent /\ a \notin Used
<1>1. \A o \in Orders : sub[o] < count - Batch
  BY DEF WalletInv, FirstLoadInv
<1>2. ASSUME NEW o \in Orders
      PROVE  sub[o] # a
  <2>1. sub[o] \in Int /\ count \in Int /\ Batch \in Int
    BY BatchAssumption DEF TypeOK, Address, NoAddress
  <2>. QED
    BY <1>1, <2>1
<1>. QED
  BY <1>2 DEF WalletInv, RecentWasOffered, Used

LEMMA FirstLoadInvStep ==
  ASSUME TypeOK, WalletInv, [Next]_vars
  PROVE  FirstLoadInv'
<1> USE BatchAssumption
<1>1. FirstLoadInv
  BY DEF WalletInv
<1>2. CASE Open
  <2>1. loads \in Nat /\ loads' = loads + 1 /\ count' \in 1 .. count /\ sub' = sub
    <3>1. sub' = sub
      BY <1>2, ForgetScanned
    <3>2. loads \in Nat
      BY BoundAssumption DEF TypeOK
    <3>. QED
      BY <1>2, <3>1, <3>2 DEF Open
  <2>2. loads' <= 1 => \A o \in Orders : sub'[o] < count'
    BY <1>1, <2>1 DEF FirstLoadInv, NoAddress
  <2>. QED
    BY <1>2, <2>1, <2>2, ForgetScanned DEF FirstLoadInv
<1>3. CASE Exit \/ OrderOutOfRange
  BY <1>1, <1>3, ForgetScanned
  DEF Exit, OrderOutOfRange, ProcessGone, FirstLoadInv, TypeOK
<1>4. CASE ConnectBegin \/ DaemonReached \/ SyncDone \/ SyncThrows \/ AddListener
  BY <1>1, <1>4
  DEF ConnectBegin, DaemonReached, SyncDone, SyncThrows, AddListener,
      FirstLoadInv, chainVars, TypeOK
<1>5. ASSUME NEW o \in Orders, OrderBegin(o)
      PROVE  FirstLoadInv'
  BY <1>1, <1>5
  DEF OrderBegin, FirstLoadInv, chainVars, walletVars, TypeOK, Address, NoAddress
<1>6. CASE ScanAddress
  <2>1. sub' = sub /\ loads' = loads /\ wallet' = wallet /\ count' = count
    BY <1>6 DEF ScanAddress, chainVars, walletVars
  <2>2. ASSUME loads <= 1
        PROVE  (count - Batch) .. next \subseteq unused'
    <3>1. (count - Batch) .. (next - 1) \subseteq unused
      BY <1>1, <1>6, <2>2 DEF FirstLoadInv, ScanAddress
    <3>2. next \in (count - Batch) .. (count - 1) => next \in unused'
      BY <1>6, <2>2, BatchIsFresh DEF ScanAddress
    <3>3. unused \subseteq unused'
      BY <1>6 DEF ScanAddress
    <3>. QED
      BY <1>6, <3>1, <3>2, <3>3 DEF ScanAddress, TypeOK
  <2>. QED
    BY <1>1, <1>6, <2>1, <2>2 DEF FirstLoadInv, ScanAddress, TypeOK
<1>7. CASE OrderAnswer
  <2>1. sub'[order] < count
    <3>1. sub'[order] \in 0 .. (next - 1) /\ next <= count
      BY <1>7, AnswerStep DEF WalletInv, HandlerInv, OrderAnswer
    <3>. QED
      BY <3>1 DEF TypeOK
  <2>2. loads # 0
    BY <1>1, <1>7 DEF FirstLoadInv, OrderAnswer, WalletInv, HandlerInv
  <2>3. loads' = loads /\ count' = count /\ pc' = "idle"
    BY <1>7 DEF OrderAnswer
  <2>. QED
    BY <1>1, <1>7, <2>1, <2>2, <2>3, AnswerStep DEF FirstLoadInv, TypeOK
<1>8. ASSUME NEW o \in Orders, Scan(o)
      PROVE  FirstLoadInv'
  <2>1. loads <= 1 => count' = count
    BY <1>1, <1>8 DEF Scan, FirstLoadInv, TypeOK, Address, NoAddress
  <2>. QED
    BY <1>1, <1>8, <2>1 DEF Scan, FirstLoadInv, chainVars, handlerVars
<1>9. ASSUME NEW o \in Orders, Pay(o) \/ Mine(o)
      PROVE  FirstLoadInv'
  BY <1>1, <1>9 DEF Pay, Mine, FirstLoadInv, walletVars, handlerVars
<1>10. CASE UNCHANGED vars
  BY <1>1, <1>10 DEF vars, FirstLoadInv
<1>. QED
  BY <1>2, <1>3, <1>4, <1>5, <1>6, <1>7, <1>8, <1>9, <1>10
  DEF Next, Connect, Order, World

-----------------------------------------------------------------------------
(* The theorems.                                                           *)

\* The invariant holds throughout every behaviour: types, and WalletInv.
THEOREM WalletInvariant == Spec => [](TypeOK /\ WalletInv)
<1>1. TypeOK /\ WalletInv /\ [Next]_vars => (TypeOK /\ WalletInv)'
  <2> SUFFICES ASSUME TypeOK, WalletInv, [Next]_vars
               PROVE  (TypeOK /\ WalletInv)'
    OBVIOUS
  <2>1. PaidWasOffered' /\ RecentWasOffered' /\ SettledIsKnown'
    BY PaidWasOfferedStep, RecentWasOfferedStep, SettledIsKnownStep
  <2>2. HandlerInv' /\ FirstLoadInv'
    BY HandlerInvStep, FirstLoadInvStep
  <2>3. PassedOverWasPaid'
    BY PassedOverWasPaidStep
  <2>. QED
    BY <2>1, <2>2, <2>3, TypeStep DEF WalletInv
<1>. QED
  BY <1>1, InitInv, PTL DEF Spec

\* The wallet's, the chain's and the handlers' variables stay in their types.
THEOREM WalletIsTyped == Spec => []TypeOK
BY WalletInvariant, PTL

\* In a session that opened the wallet file once, on_order_received never
\* indexes an empty list, whatever is paid while it runs.
THEOREM PickIsInRange == Spec => []PickInRange
<1>1. TypeOK /\ WalletInv => PickInRange
  <2> SUFFICES ASSUME TypeOK, WalletInv, pc = "scanning", next >= count, loads <= 1
               PROVE  unused # {}
    BY DEF PickInRange
  <2>1. (count - Batch) .. (next - 1) \subseteq unused
    BY DEF WalletInv, FirstLoadInv
  <2>2. count - 1 \in (count - Batch) .. (next - 1)
    BY BatchAssumption DEF TypeOK
  <2>. QED
    BY <2>1, <2>2
<1>. QED
  BY <1>1, WalletInvariant, PTL

\* In every session, restarted or not, the list is empty only when all that the
\* wallet has, the new batch included, had been given out and paid.
THEOREM EmptyListIsAllPaid == Spec => []EmptyOnlyIfAllPaid
<1>1. TypeOK /\ WalletInv => EmptyOnlyIfAllPaid
  <2> SUFFICES ASSUME TypeOK, WalletInv, pc = "scanning", next >= count, unused = {}
               PROVE  0 .. (count - 1) \subseteq Paid
    BY DEF EmptyOnlyIfAllPaid
  <2>1. 0 .. (next - 1) \subseteq Paid
    BY DEF WalletInv, PassedOverWasPaid
  <2>2. 0 .. (count - 1) \subseteq 0 .. (next - 1)
    BY DEF TypeOK
  <2>. QED
    BY <2>1, <2>2
<1>. QED
  BY <1>1, WalletInvariant, PTL

\* A wallet that is connecting or has synced is open.
OpenInv == synced \/ pc \in {"connecting", "syncing", "syncDone"} => wallet = "open"

LEMMA OpenInvHolds == Spec => []OpenInv
<1>1. Init => OpenInv
  BY DEF Init, OpenInv
<1>2. OpenInv /\ [Next]_vars => OpenInv'
  <2> SUFFICES ASSUME OpenInv, [Next]_vars PROVE OpenInv'
    OBVIOUS
  <2> USE DEF OpenInv, walletVars, handlerVars, chainVars
  <2>1. CASE Open
    BY <2>1 DEF Open
  <2>2. CASE Exit \/ OrderOutOfRange
    BY <2>2 DEF Exit, OrderOutOfRange, ProcessGone
  <2>3. CASE Connect
    BY <2>3 DEF Connect, ConnectBegin, DaemonReached, SyncDone, SyncThrows, AddListener
  <2>4. CASE (\E o \in Orders : OrderBegin(o)) \/ ScanAddress \/ OrderAnswer
    BY <2>4 DEF OrderBegin, ScanAddress, OrderAnswer
  <2>5. CASE World
    BY <2>5 DEF World, Scan, Pay, Mine
  <2>6. CASE UNCHANGED vars
    BY <2>6 DEF vars
  <2>. QED
    BY <2>1, <2>2, <2>3, <2>4, <2>5, <2>6 DEF Next, Order
<1>. QED
  BY <1>1, <1>2, PTL DEF Spec

\* One step adds nobody to the orders that were paid behind the wallet's back.
LEMMA BlindStep ==
  ASSUME TypeOK, WalletInv, OpenInv, [Next]_vars, listening, synced
  PROVE  Blind' \subseteq Blind
<1>1. CASE Open \/ Exit \/ OrderOutOfRange
  BY <1>1, ForgetScanned DEF Blind
<1>2. CASE OrderAnswer
  <2>1. \A o \in Orders : seen[o] # "none" => sub[o] # NoAddress
    BY DEF WalletInv, PaidWasOffered, Address, NoAddress
  <2>2. seen' = seen /\ recent' = recent
    BY <1>2 DEF OrderAnswer, walletVars
  <2>3. \A o \in Orders : o # order => sub'[o] = sub[o]
    BY <1>2, AnswerStep
  <2>4. seen[order] = "none"
    BY <1>2, <2>1, AnswerStep
  <2>. QED
    BY <2>2, <2>3, <2>4 DEF Blind
<1>3. ASSUME NEW o \in Orders, Scan(o)
      PROVE  Blind' \subseteq Blind
  <2>1. wallet = "open"
    BY DEF OpenInv
  <2>2. sub' = sub /\ recent \subseteq recent'
    BY <1>3 DEF Scan, OnOutputReceived, chainVars
  <2>3. tx[o] \in Locked => sub[o] \in recent'
    BY <1>3, <2>1 DEF Scan, OnOutputReceived
  <2>4. seen'[o] = tx[o] /\ \A p \in Orders : p # o => seen'[p] = seen[p]
    BY <1>3 DEF Scan, TypeOK
  <2>. QED
    BY <2>2, <2>3, <2>4 DEF Blind, Locked
<1>4. CASE sub' = sub /\ seen' = seen /\ recent' = recent
  BY <1>4 DEF Blind
<1>. QED
  BY <1>1, <1>2, <1>3, <1>4
  DEF Next, Connect, Order, World, ConnectBegin, DaemonReached, SyncDone,
      SyncThrows, AddListener, OrderBegin, ScanAddress, Pay, Mine, walletVars,
      chainVars, vars

\* While the wallet is synced and listening, no payment is taken up without its
\* subaddress being remembered.
THEOREM NoNewBlindPayments == Spec => BlindNeverGrows
<1>1. TypeOK /\ WalletInv /\ OpenInv /\ [Next]_vars =>
        (listening /\ synced => Blind' \subseteq Blind)
  BY BlindStep
<1>. QED
  BY <1>1, WalletInvariant, OpenInvHolds, PTL DEF Spec, BlindNeverGrows

\* No order is answered with a subaddress that was known as paid, as recent or
\* as used, when its handler began.
THEOREM OfferedIsNotKnown == Spec => OfferNotKnown
<1>1. TypeOK /\ WalletInv /\ [Next]_vars =>
        [\A o \in Orders : sub'[o] # sub[o] => sub'[o] \notin known]_vars
  <2> SUFFICES ASSUME TypeOK, WalletInv, Next, NEW o \in Orders, sub'[o] # sub[o]
               PROVE  sub'[o] \notin known
    OBVIOUS
  <2>1. OrderAnswer
    BY ForgetScanned
    DEF Next, Connect, Order, World, ConnectBegin, DaemonReached, SyncDone,
        SyncThrows, AddListener, OrderBegin, ScanAddress, Scan, Pay, Mine, chainVars
  <2>2. o = order /\ sub'[order] \in unused
    BY <2>1, AnswerStep
  <2>3. unused \cap known = {}
    BY <2>1 DEF OrderAnswer, WalletInv, HandlerInv
  <2>. QED
    BY <2>2, <2>3
<1>. QED
  BY <1>1, WalletInvariant, PTL DEF Spec, OfferNotKnown

\* The wallet implements the ledger: answering an order is Offer, completing
\* daemon_connect is Settle, and every other step leaves the ledger alone.
THEOREM WalletImplementsLedger == Spec => LedgerSpec
<1>1. Init => Ledger!LedgerInit
  BY DEF Init, Ledger!LedgerInit
<1>2. TypeOK /\ WalletInv /\ [Next]_vars => [Ledger!LedgerNext]_<<sub, settled>>
  <2> SUFFICES ASSUME TypeOK, WalletInv, [Next]_vars
               PROVE  Ledger!LedgerNext \/ UNCHANGED <<sub, settled>>
    OBVIOUS
  <2>1. CASE OrderAnswer
    <3>1. PICK a \in Choosable(unused) : sub' = [sub EXCEPT ![order] = a]
      BY <2>1 DEF OrderAnswer
    <3>2. a \in Address \ settled
      BY <2>1, <3>1 DEF OrderAnswer, Choosable, TypeOK, WalletInv, HandlerInv
    <3>3. order \in Orders /\ sub[order] = NoAddress /\ settled' = settled
      BY <2>1, AnswerStep DEF OrderAnswer
    <3>4. Ledger!Offer(order)
      BY <3>1, <3>2, <3>3 DEF Ledger!Offer
    <3>. QED
      BY <3>3, <3>4 DEF Ledger!LedgerNext
  <2>2. CASE SyncDone
    <3>1. settled' = settled \cup Used
      BY <2>2 DEF SyncDone, WalletInv, SettledIsKnown, Used
    <3>2. Used \in SUBSET {sub[o] : o \in Orders} /\ sub' = sub
      BY <2>2 DEF SyncDone, Used, chainVars
    <3>3. Ledger!Settle
      BY <3>1, <3>2 DEF Ledger!Settle
    <3>. QED
      BY <3>3 DEF Ledger!LedgerNext
  <2>3. CASE ~OrderAnswer /\ ~SyncDone
    BY <2>3, ForgetScanned
    DEF Next, Connect, Order, World, ConnectBegin, DaemonReached, SyncThrows,
        AddListener, OrderBegin, ScanAddress, Scan, Pay, Mine, chainVars, vars
  <2>. QED
    BY <2>1, <2>2, <2>3
<1>. QED
  BY <1>1, <1>2, WalletInvariant, PTL
  DEF Spec, LedgerSpec, Ledger!LedgerSpec, Ledger!ledgerVars

=============================================================================
