SPECIFICATION Spec
CONSTANTS
  Elem = {e1, e2, e3, e4}
  Null = Null
  Data = {1, 2, 3}
  MaxCount = 5
SYMMETRY Symmetry
INVARIANTS
  TypeOK
  AllReached
  ClearFollowsHead
PROPERTIES
  KeepsOrder
