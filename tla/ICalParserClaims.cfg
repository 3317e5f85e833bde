SPECIFICATION Spec
CONSTANTS
  Lines <- LineKinds
  MaxLines = 3
  Null = Null
CHECK_DEADLOCK FALSE
INVARIANTS
  InputIsClosed
  UnknownIsMarked
  ValuesOnly
