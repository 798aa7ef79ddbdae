\* Two orders and one re-opening of the wallet file: restarts, reuse of a
\* subaddress, payments in the listener gap and during the scan.
SPECIFICATION FairSpec
CONSTANTS
  Orders = {o1, o2}
  NoOrder = none
  Batch = 1
  MaxCount = 3
  MaxLoads = 2
INVARIANTS
  TypeOK
  PickInRange
PROPERTIES
  OfferNotKnown
  BlindNeverGrows
  LedgerSpec
  PaymentNoticed
CHECK_DEADLOCK FALSE
