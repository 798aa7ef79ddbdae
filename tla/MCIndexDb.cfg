SPECIFICATION FairSpec
CONSTANT MaxLength = 10
INVARIANTS
  TypeOK
  InOrder
  OnlyAfterNewlineLost
  NoGapBeforeStored
  TwoBlankLinesEndParagraph
PROPERTIES
  EndComesNearer
  IndexingEnds
CHECK_DEADLOCK FALSE
