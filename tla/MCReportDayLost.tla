--------------------------- MODULE MCReportDayLost ---------------------------
(* The instance of DailyReport in which a day has no report.                  *)
EXTENDS DailyReport

\* The clock goes from midnight to one o'clock as day 3 begins.
SantiagoSpring == [at |-> 76, before |-> -4, after |-> -3]

MCSantiago == {SantiagoSpring}
=============================================================================
