CONSTANTS
  Zone <- MCZone
  ScheduleHour = {0, 23}
  FirstHour = 69
  Horizon = 125
  MaxStall = 1
  MaxOnce = 1
  MaxCrash = 1
  NoReport = NoReport
SPECIFICATION DailySpec
INVARIANTS
  OrdinaryDaysReported
  ReportCountsWholeDay
CHECK_DEADLOCK FALSE
