----------------------------- MODULE DailyReport -----------------------------
(* The daily reporter (cmd/reporter, internal/reports): a daemon that reports *)
(* yesterday when it starts and then once a day at the scheduled local hour,  *)
(* beside operators who run the same command for one date.  Instants are UTC  *)
(* hours, days are numbers, and the time zone changes its offset once, so a   *)
(* local day lasts 23, 24 or 25 hours.  A report is its window, whether its    *)
(* metrics were collected once the day was over and whether it was saved too  *)
(* late for the scheduled run to replace it; the Markdown snapshot only       *)
(* succeeds or fails.                                                         *)
EXTENDS Integers

CONSTANTS
    Zone,          \* the zones considered: [at, before, after], see OffsetAt
    ScheduleHour,  \* the scheduled local hours considered
    FirstHour,     \* the first instant considered
    Horizon,       \* bound: the last instant considered
    MaxStall,      \* bound: hours a generation may take (it has no timeout)
    MaxOnce,       \* bound: runs of the command in mode "once"
    MaxCrash,      \* bound: crashes of the daemon
    NoReport       \* no row for that day

ASSUME ScheduleAssumption == ScheduleHour \subseteq 0 .. 23
ASSUME BoundsAssumption ==
    /\ {FirstHour, Horizon, MaxStall, MaxOnce, MaxCrash} \subseteq Nat
    /\ FirstHour <= Horizon
\* The offset changes by an hour at most.
ASSUME ZoneAssumption ==
    \A z \in Zone : /\ z.at \in Int /\ {z.before, z.after} \subseteq -12 .. 14
                   /\ z.after - z.before \in -1 .. 1

\* A daily report: its window and, as history, whether its metrics are those of a
\* whole day and whether somebody saved it once the scheduled run was due.
Report == [window : [from : Int, to : Int], whole : BOOLEAN, overdue : BOOLEAN]

ASSUME NoReportAssumption == NoReport \notin Report

VARIABLES
    clock,     \* the instant
    zone,      \* the configured zone
    schedule,  \* the configured hour
    up,        \* the daemon runs
    next,      \* the instant its timer is set to
    job,       \* what each of the daemon and the operator is generating
    rows,      \* daily_reports: day to report
    since,     \* the local day the daemon started on
    failed,    \* history: local days on which a generation of this daemon failed
    late,      \* history: local days whose scheduled hour found it busy with another day
    onces, crashes

dailyVars ==
    <<clock, zone, schedule, up, next, job, rows, since, failed, late, onces, crashes>>

Worker == {"daemon", "once"}
Idle == [stage |-> "idle"]

------------------------------------------------------------------------------
(* Local time, as Go's time package computes it. *)
OffsetAt(t) == IF t < zone.at THEN zone.before ELSE zone.after
DayOf(t) == (t + OffsetAt(t)) \div 24

\* time.Date looks the offset up as if the local time were UTC and looks it up
\* again if that answer does not hold there; a local hour the zone skips comes
\* out one hour early (west of Greenwich) or one hour late.
Date(day, hour) ==
    LET wall == 24 * day + hour
        sameSide(t) == (t < zone.at) = (wall < zone.at)
        first == wall - OffsetAt(wall)
    IN IF OffsetAt(wall) = 0 \/ sameSide(first) THEN first ELSE wall - OffsetAt(first)

AddDays(t, n) == Date(DayOf(t) + n, (t + OffsetAt(t)) % 24)

(* Mutant of PreviousDay: a day is taken to be 24 hours. *)
PreviousDayIsHours(t) == Date(DayOf(t), 0) - 24

PreviousDay(t) == AddDays(Date(DayOf(t), 0), -1)

WindowForDate(date) == LET from == Date(DayOf(date), 0) IN [from |-> from, to |-> from + 24]

NextRunAt(t) ==
    LET candidate == Date(DayOf(t), schedule)
    IN IF candidate > t THEN candidate ELSE candidate + 24

\* Day d is over at instant t, or at least the window of its report is.
Over(d, t) == Date(d + 1, 0) <= t \/ Date(d, 0) + 24 <= t

\* The run of day d is due: at its scheduled hour, or 24 hours after the day before.
Due(d, t) == Date(d, schedule) <= t \/ Date(d - 1, schedule) + 24 <= t

Days == (FirstHour \div 24 - 4) .. (Horizon \div 24 + 2)

------------------------------------------------------------------------------
DailyInit ==
    /\ clock = FirstHour
    /\ zone \in Zone
    /\ schedule \in ScheduleHour
    /\ up = FALSE
    /\ next = FirstHour
    /\ job = [w \in Worker |-> Idle]
    /\ rows = [d \in Days |-> NoReport]
    /\ since = 0
    /\ failed = {}
    /\ late = {}
    /\ onces = 0
    /\ crashes = 0

\* GenerateForDate begins for worker w, on behalf of instant t.
Generate(w, date, t) ==
    job' = [job EXCEPT ![w] = [stage |-> "collect", date |-> date, ranOn |-> DayOf(t),
                               started |-> clock, whole |-> FALSE]]

Start ==
    /\ ~up
    /\ up' = TRUE
    /\ since' = DayOf(clock)
    /\ failed' = {}
    /\ late' = {}
    /\ Generate("daemon", PreviousDay(clock), clock)
    /\ UNCHANGED <<clock, zone, schedule, next, rows, onces, crashes>>

Waiting == up /\ job["daemon"] = Idle

\* The timer fires; the run is for the instant the timer was set to.
TimerFires ==
    /\ Waiting
    /\ next <= clock
    /\ Generate("daemon", PreviousDay(next), next)
    /\ UNCHANGED <<clock, zone, schedule, up, next, rows, since, failed, late, onces, crashes>>

\* An operator runs the command, for yesterday or for a date.
RunOnce ==
    /\ onces < MaxOnce
    /\ job["once"] = Idle
    /\ \E date \in {PreviousDay(clock), Date(DayOf(clock) - 1, 0), Date(DayOf(clock), 0)} :
           Generate("once", date, clock)
    /\ onces' = onces + 1
    /\ UNCHANGED <<clock, zone, schedule, up, next, rows, since, failed, late, crashes>>

\* The metrics are those of the whole day if the day is over by now.
CollectMetrics(w) ==
    /\ job[w].stage = "collect"
    /\ job' = [job EXCEPT ![w].stage = "save", ![w].whole = Over(DayOf(job[w].date), clock)]
    /\ UNCHANGED <<clock, zone, schedule, up, next, rows, since, failed, late, onces, crashes>>

(* Mutant of Stored: ON CONFLICT DO NOTHING. *)
StoredOnce(old, new) == IF old = NoReport THEN new ELSE old

\* The row a day holds after the upsert of (report_date, timezone).
Stored(old, new) == new

SaveDailyReport(w) ==
    LET date == job[w].date
        report == [window |-> WindowForDate(date), whole |-> job[w].whole,
                   overdue |-> w = "once" /\ Due(DayOf(date) + 1, clock)]
    IN /\ job[w].stage = "save"
       /\ rows' = [rows EXCEPT ![DayOf(date)] = Stored(@, report)]
       /\ job' = [job EXCEPT ![w].stage = "write"]
       /\ UNCHANGED <<clock, zone, schedule, up, next, since, failed, late, onces, crashes>>

\* The daemon sets its timer again after a run, however the run ended.
Conclude(w) ==
    /\ job' = [job EXCEPT ![w] = Idle]
    /\ next' = IF w = "daemon" THEN NextRunAt(clock) ELSE next
    /\ UNCHANGED <<clock, zone, schedule, up, rows, since, late, onces, crashes>>

PersistMarkdown(w) ==
    /\ job[w].stage = "write"
    /\ Conclude(w)
    /\ UNCHANGED failed

\* A query, the upsert or the file fails: the error is logged and the run is over.
Fail(w) ==
    /\ job[w] # Idle
    /\ Conclude(w)
    /\ failed' = IF w = "daemon" THEN failed \cup {job[w].ranOn} ELSE failed

Crash ==
    /\ up
    /\ crashes < MaxCrash
    /\ crashes' = crashes + 1
    /\ up' = FALSE
    /\ job' = [job EXCEPT !["daemon"] = Idle]
    /\ UNCHANGED <<clock, zone, schedule, next, rows, since, failed, late, onces>>

\* An hour passes: a timer that is due fires within the hour, and a generation
\* takes no more than MaxStall hours.
HourPasses ==
    /\ clock < Horizon
    /\ ~(Waiting /\ next <= clock)
    /\ \A w \in {v \in Worker : job[v] # Idle} : clock < job[w].started + MaxStall
    /\ clock' = clock + 1
    /\ late' = late \cup {d \in Days : /\ Date(d, schedule) = clock + 1
                                      /\ job["daemon"] # Idle
                                      /\ job["daemon"].ranOn # d}
    /\ UNCHANGED <<zone, schedule, up, next, job, rows, since, failed, onces, crashes>>

DailyNext ==
    \/ HourPasses \/ Start \/ TimerFires \/ RunOnce \/ Crash
    \/ \E w \in Worker : CollectMetrics(w) \/ SaveDailyReport(w) \/ PersistMarkdown(w) \/ Fail(w)

DailySpec == DailyInit /\ [][DailyNext]_dailyVars

------------------------------------------------------------------------------
\* Where the calendar puts what belongs to day d: its midnight and its scheduled
\* hour, which time.Date may move if the zone skips them, and the instant 24 hours
\* after the scheduled hour of the day before, where the timer may be set.
OnDay(d) ==
    \A t \in {Date(d, 0), Date(d, schedule), Date(d - 1, schedule) + 24} : DayOf(t) = d

\* The calendar has no surprise for the run of day d, which reports the day before.
Ordinary(d) == OnDay(d - 1) /\ OnDay(d)

\* The days that have passed while the daemon was up, on which no run failed and
\* whose scheduled hour did not find it still generating for another day.
DaysServed == {d \in Days : since <= d /\ d < DayOf(clock) /\ d \notin failed \cup late}

\* The day before d has a report, over a window that starts at its midnight and
\* leaves out at most the last hour of a day of 25.
ReportedBy(d) ==
    /\ rows[d - 1] # NoReport
    /\ rows[d - 1].window.from = Date(d - 1, 0)
    /\ rows[d - 1].window.to + 1 >= Date(d, 0)

\* D79:14: "Existe una ejecucion diaria automatizada que genera y persiste el
\* reporte ejecutivo-operativo."  A daemon that ran through a day without an error
\* or a delay has reported the day before.
EveryDayReported == Waiting => \A d \in DaysServed : ReportedBy(d)

\* Whatever the zone, the schedule, the restarts and the stalls, it has reported
\* it unless the calendar moves a midnight or a run to another day (RunLoop,
\* GeneratePreviousDay, NextRunAt, WindowForDate).
OrdinaryDaysReported == Waiting => \A d \in DaysServed : Ordinary(d) => ReportedBy(d)

\* The report that a scheduled run leaves counts a day that was over, even if
\* somebody had reported the day while it went on: the upsert replaces it
\* (SaveDailyReport).  Only a run by hand that is saved once the scheduled run is
\* due, with metrics it collected before the day was over, may replace that.
ReportCountsWholeDay ==
    Waiting => \A d \in DaysServed \ {since} :
        Ordinary(d) => rows[d - 1].whole \/ rows[d - 1].overdue
=============================================================================
