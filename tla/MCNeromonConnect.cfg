SPECIFICATION Spec
CONSTANTS
  Clients = {c1}
  Daemons = {d1}
  Ports = {p0}
  DefaultPort = p0
  BadHost = bad
  Nobody = nobody
  MaxStarts = 1
INVARIANTS
  DbNeedsConnect
CHECK_DEADLOCK FALSE
