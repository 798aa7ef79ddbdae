SPECIFICATION Spec
CONSTANT MaxLength = 5
INVARIANTS
  BlankLineEndsParagraph
CHECK_DEADLOCK FALSE
