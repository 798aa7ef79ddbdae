SPECIFICATION FairSpec
CONSTANTS
  Clients = {c1, c2}
  Daemons = {d1}
  Ports = {p0}
  DefaultPort = p0
  BadHost = bad
  Nobody = nobody
  MaxStarts = 2
PROPERTIES
  AnsweredWhileUp
CHECK_DEADLOCK FALSE
