SPECIFICATION Spec
CONSTANTS
  Nil = Nil
  good = good
  late = late
  bare = bare
  broken = broken
  unread = unread
  Files = {good, bare, unread}
  Content <- MCContent
  Offset <- MCOffset
  DeviceZone = "Berlin"
  DayLength = 12
  NilDatesRaise = TRUE
  Foreign <- MCForeign
  Copies = {1}
INVARIANTS
  OfferedIsOpened
  RowsNeverRaise
  NeverCrashes
PROPERTIES
  DroppedWasEdited
  SavedMeansSaved
  WarningIsRecreated
