SPECIFICATION Spec
CONSTANTS
  Clients = {c1, c2}
  Daemons = {d1, d2}
  Ports = {p0, p1}
  DefaultPort = p0
  BadHost = bad
  Nobody = nobody
  MaxStarts = 2
INVARIANTS
  TypeOK
  OneCopy
  DiesOfSilenceOnly
  WriterAlive
  ThreadsTogether
PROPERTIES
  ServiceSpec
CHECK_DEADLOCK FALSE
