SPECIFICATION Spec
CONSTANTS
  Orders = {o1, o2}
  NoOrder = none
  Batch = 1
  MaxCount = 3
  MaxLoads = 1
INVARIANT OncePerCustomer
CHECK_DEADLOCK FALSE
