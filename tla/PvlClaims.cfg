SPECIFICATION Spec
CONSTANTS
  Elem = {e1, e2}
  Null = Null
  Data = {1, 2}
  MaxCount = 4
INVARIANT
  CountIsLength
PROPERTY
  FindNextContinues
