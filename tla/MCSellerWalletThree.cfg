\* Three orders, safety only: here the wallet file may come back with every
\* subaddress of the new batch already offered.
SPECIFICATION Spec
CONSTANTS
  Orders = {o1, o2, o3}
  NoOrder = none
  Batch = 1
  MaxCount = 3
  MaxLoads = 2
SYMMETRY OrderSymmetry
INVARIANTS
  WalletInv
  EmptyOnlyIfAllPaid
CHECK_DEADLOCK FALSE
