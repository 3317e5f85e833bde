SPECIFICATION Spec
CONSTANTS
  a = a
  b = b
  Writers = {w1, w2}
  Readers = {r}
  Comps = {a, b}
  Long = {b}
  Mixed = Mixed
  First <- OneOfEach
  SafeSaves = TRUE
  MayEmpty = FALSE
  Faults = {"crash", "write"}
  MaxFaults = 1
  Nobody = Nobody
  Closed = Closed
INVARIANTS
  CleanMeansSaved
  BackupIsWhole
PROPERTIES
  ImplementsStore
  WaiterGetsLock
