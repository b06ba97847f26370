CONSTANTS
  Zone <- MCSantiago
  ScheduleHour = {8}
  FirstHour = 44
  Horizon = 130
  MaxStall = 1
  MaxOnce = 1
  MaxCrash = 1
  NoReport = NoReport
SPECIFICATION DailySpec
INVARIANTS
  EveryDayReported
CHECK_DEADLOCK FALSE
