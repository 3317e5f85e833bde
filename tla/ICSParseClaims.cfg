SPECIFICATION ParseSpec
CONSTANTS
  Nil = Nil
  MaxEvents = 2
  Files <- MCFiles
  Content <- MCContent
  Offset <- MCOffset
  DeviceZone = "Berlin"
  DayLength = 12
  NilDatesRaise = TRUE
CHECK_DEADLOCK FALSE
INVARIANTS
  AllDayIsShown
  DetailsOfOneEvent
  UtcIsHonoured
  ZoneIsFreed
