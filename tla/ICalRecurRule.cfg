SPECIFICATION RuleSpec
CONSTANTS
  Texts <- Orders
  Until = Until
  None = None
  Malformed = Malformed
CHECK_DEADLOCK FALSE
INVARIANTS
  DaysAreSorted
  OrderDoesNotMatter
  TextIsKept
