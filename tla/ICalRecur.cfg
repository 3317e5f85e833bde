SPECIFICATION RecurSpec
CONSTANTS
  Cases <- Rules
  LastYear = 2038
  MaxYears = 12
  Never = Never
CHECK_DEADLOCK FALSE
INVARIANTS
  EndIsEnd
  SearchEnds
PROPERTIES
  NextIsNext
  PassMovesOn
