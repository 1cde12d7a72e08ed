CONSTANTS
  Hours = 2
  Minutes = 2
  YearDays <- MCYearDays
  WeekLength = 2
  FirstAlarms <- MCFirstAlarms
  Shown = {"ALM1 time", "ALM1 active", "SYS time", "Save config?"}
  MaxKeys = 1
  OneCore = TRUE
SPECIFICATION Spec
INVARIANTS
  RingsOncePerMinute
  NobodyWaitsForTheUser
PROPERTIES
  
  DueAlarmRings
  
CHECK_DEADLOCK FALSE
