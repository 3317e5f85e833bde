SPECIFICATION Spec
CONSTANTS
  here = here
  there = there
  Names = {here, there}
  Vtimezones <- Odd
  Moments <- AroundChanges
  Todays <- Years
  Year = 48
  Day = 4
  Extra = 1
  MaxYear = 5
  Utc = Utc
  NoZone = NoZone
INVARIANT
  DuplicatesDoNotMatter
PROPERTY
  ConversionKeepsMoment
