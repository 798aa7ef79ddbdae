---------------------------- MODULE AddressLedger ----------------------------
(***************************************************************************)
(* What the seller's wallet promises about the subaddresses it hands to    *)
(* customers, with no threads, no wallet file and no chain: an order that  *)
(* has no subaddress may be given one, and a subaddress on which a payment *)
(* is recorded as settled is given to nobody after that.                   *)
(*                                                                         *)
(* SellerWallet implements this specification.  It promises less than the  *)
(* notes of wallet.hpp do: two orders may hold the same subaddress as long *)
(* as no payment to it has settled (see SellerWallet!OncePerCustomer).     *)
(***************************************************************************)

CONSTANTS
  Orders,    \* the orders of all customers
  Address,   \* the subaddresses the wallet can create
  NoAddress  \* what an order holds before Seller::on_order_received answers

VARIABLES
  offered,   \* offered[o] : the subaddress order o was given
  spent      \* subaddresses with a payment known to have settled

ledgerVars == <<offered, spent>>

LedgerInit ==
  /\ offered = [o \in Orders |-> NoAddress]
  /\ spent = {}

\* An order is given a subaddress, any that is not spent.
Offer(o) ==
  /\ offered[o] = NoAddress
  /\ \E a \in Address \ spent : offered' = [offered EXCEPT ![o] = a]
  /\ UNCHANGED spent

\* Payments to subaddresses that were offered are recorded as settled.
Settle ==
  /\ \E S \in SUBSET {offered[o] : o \in Orders} : spent' = spent \cup S
  /\ UNCHANGED offered

LedgerNext == Settle \/ \E o \in Orders : Offer(o)

LedgerSpec == LedgerInit /\ [][LedgerNext]_ledgerVars

=============================================================================
