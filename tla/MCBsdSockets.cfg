\* Four descriptors, so that the table is full with three clients and the
\* third gets stderr's; the accept after that fails.
SPECIFICATION FairSpec
CONSTANTS
  Clients = {a, b}
  MaxConns = 3
  FdLimit = 4
  MaxStarts = 2
INVARIANTS
  TypeOK
  NoClientLeak
  DescriptorsNeverReturned
  NoiseToThirdOnly
PROPERTIES
  FailureIsForGood
  QueuedIsTaken
CHECK_DEADLOCK FALSE
