SPECIFICATION Spec
CONSTANTS
  SecPerMin = 60
  MinPerHour = 60
  HourPerDay = 24
  W = 2000000000
  EpochYear = 1970
  Starts <- Century
  MaxDays = 400
INVARIANTS
  DateKept
CHECK_DEADLOCK FALSE
