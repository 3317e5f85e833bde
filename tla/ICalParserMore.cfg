SPECIFICATION Spec
CONSTANTS
  Lines <- Distinct
  MaxLines = 6
  Null = Null
CHECK_DEADLOCK FALSE
INVARIANTS
  TypeOK
  ParserIsClear
  OneOwner
  NoFalseAlarm
