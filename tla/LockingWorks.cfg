SPECIFICATION Spec
CONSTANTS
  a = a
  b = b
  Writers = {w1, w2}
  Readers = {r}
  Comps = {a, b}
  Long = {b}
  Mixed = Mixed
  First <- NewFile
  SafeSaves = TRUE
  MayEmpty = FALSE
  Faults = {"crash", "write"}
  MaxFaults = 0
  Nobody = Nobody
  Closed = Closed
PROPERTY
  LockingWorks
