\* Three programs starting at once, four key pairs, three deposits, and names one
\* character longer than the limit.  A filled-in form is answered once.
SPECIFICATION Spec
CONSTANTS
  Programs = {p, q, r}
  MaxPairs = 4
  Deposits = {d, e, f}
  MinLength = 2
  MaxLength = 3
  Typed <- MCTyped
INVARIANTS
  TypeOK
  BrokenNeedsDamage
  SuccessLeavesNoOlderKey
  CleanBetweenSources
  RubbishSpoils
  WholeUnlessRaced
  ByTheRules
PROPERTIES
  WedgedForGood
  RefusedOnlyOverBroken
  LostForGood
CHECK_DEADLOCK FALSE
