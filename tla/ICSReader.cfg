SPECIFICATION FairSpec
CONSTANTS
  Nil = Nil
  good = good
  late = late
  bare = bare
  broken = broken
  unread = unread
  Files = {good, late, bare, broken, unread}
  Content <- MCContent
  Offset <- MCOffset
  DeviceZone = "Berlin"
  DayLength = 12
  NilDatesRaise = TRUE
  Foreign <- MCForeign
  Copies = {1}
INVARIANTS
  TypeOK
  OneTimerPerFlag
  SaveButtonMatchesDetails
  RowsMatchDetails
  EditorOverRoot
  SavedFilesParsed
PROPERTIES
  ImplementsPromise
  FlagIsCleared
