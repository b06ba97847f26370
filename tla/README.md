# Fractsoul: specifications of the ingest-api and the energy-orchestrator

TLA+ modules that model the parts of this repository where interleaving,
failure, ordering and arithmetic on shared limits decide whether the program is
right, the TLC configurations that check them on small instances, and proofs of
the most important properties for every instance.

Run everything from this directory:

    tlc -workers 2 -config MCRecommendationReview.cfg MCRecommendationReview.tla
    tlapm RecommendationReviewProofs.tla

`PROJECT.json` lists the runs, the source lines each definition stands for, a
plausible bug (mutant) that each property catches, the hazards and the theorems.
Below, `I/` is `src/backend/services/ingest-api/internal/` and `E/` is
`src/backend/services/energy-orchestrator/internal/`.

## 1. Inventory of the system

Two Go services over one PostgreSQL/TimescaleDB and one NATS JetStream.

    miners -> POST /v1/telemetry/ingest (I/httpapi) -> stream TELEMETRY
           -> processor.Consumer (durable, queue group) -> PersistTelemetry
           -> alerts.Service -> UpsertAlert -> Dispatcher -> webhook, email
                     \-> DLQ subject of the same stream
    operators -> energy-orchestrator: budget, dispatch validation, reviews
           -> reads inventory and telemetry, writes snapshots and reviews,
              publishes energy events
    reporter, simulator: separate processes

| component | state | operations | what is hard | what makes it correct |
|---|---|---|---|---|
| Recommendation governance (`E/service/service.go` 219-378, `E/storage/postgres.go` 788-1059) | tables of reviews and review events | first decision, second decision, list | the row is read, checked and overwritten without a lock or a transaction; row and event are two transactions | dual confirmation by two principals, coherent row, audit trail, no decision reopened |
| Dispatch validation (`E/orchestrator/engine.go` 256-575) | remaining capacities and ramps within a call | validate a batch | greedy, ordered; shared buses, feeders, PDUs; boundaries of comparisons | no capacity made worse, ramps kept over the batch, priorities kept, refusals explained |
| Budget (`engine.go` 10-254), operational view (`policy.go`), overview and projection (`overview.go`) | none; functions of inventory, telemetry and `at` | compute, snapshot, publish, answer | statements read one by one while telemetry arrives; a layer at zero; a snapshot or a publication that fails | headroom is really there, advice adds up and is acceptable to the validator, an overload shows as risk, every id names its evidence |
| Historical replay and shadow pilot (`replay.go`, `shadow.go`, `E/storage/postgres.go` 497-629) | the loads a policy arrived at, carried from bucket to bucket | replay a day under two policies, judge it | ramps across gaps in the telemetry, limits of zero, locked racks | replayed loads are physically possible, the protective policy protects, pilot and replay agree |
| Access (`E/httpapi/auth_middleware.go`, `router.go`) | keys, roles, scopes, read at start | gate a request | defaults of what was not configured | a request outside role or scope does nothing |
| Ingest and JetStream processor (`I/httpapi/telemetry_handler.go`, `I/telemetry`, `I/processor`) | stream, durable consumer, `telemetry_readings`, dead letters | publish, deliver, persist, nak, ack, dead-letter, start, close | redelivery and lost acks, several instances, crash and shutdown, AckWait against slow handlers | ack only after the work, every failure traced, redelivery ends |
| Alerts (`I/alerts`, `UpsertAlert`, `RecordAlertNotification`) | `alerts`, `alert_notifications`, one queue and workers per process | evaluate, upsert, enqueue, notify, retry, record, close | concurrent upserts of one fingerprint, late events, full queue, shutdown race | one active alert, notify once per window, audit agrees, nothing lost without a reason |
| Alert rules, efficiency and anomaly analysis (`I/alerts/rules.go`, `I/efficiency`, `I/anomaly`, `I/httpapi/anomaly_handler.go`) | readings, the hourly aggregate | evaluate an event, report on a miner | series and latest reading are two reads; the aggregate is behind or empty; two tables of thresholds | rules and report agree on what is critical, adjustments are safe and explained, data that exists is found |
| Recommendation changes (`I/storage/postgres.go` 1172-1623) | `recommendation_changes` | apply, roll back, list | concurrent rollbacks, lost answers, a transaction left open, inverse of a formatted amount | a rollback undoes once and exactly, links agree, answers are true |
| Daily reports (`I/reports`, `cmd/reporter`) | `daily_reports`, the file of a day | loop, generate for a date | days of 23 and 25 hours, a failed or slow run, restarts, an operator's report of the same day | every day reported, over the whole day |
| Stream setup (`EnsureStreamSubjects`) | subjects of a stream | add or merge | read-modify-write by several services | no subject removed |
| Read API, dashboards, middleware, config, metrics, simulator | none | parse, format, query | - | - |

Interactions: the processor calls the alert service synchronously between
persisting and acknowledging, ignoring its errors; the dispatcher is decoupled
by a bounded channel and writes the same alert rows; the orchestrator reads the
tables the processor writes, so each of its answers is made of statements that
telemetry may slip between; its clients send recommendations back as reviews; the
reporter and the report on a miner read the same tables again.

## 2. Modules

| module | models | state and actions against the code |
|---|---|---|
| `ReviewLedger` | what governance promises of each row | abstract: `Open`, `Settle` |
| `RecommendationReview` | `Service.ReviewRecommendation` for any number of concurrent calls | `reviews`, `events` are the tables; `pc`, `req`, `seen` (the variable `existing`), `result` are the locals of each call. One action per database statement: `Lookup` (read and checks), `CreateRecommendationReview`, `UpdateRecommendationReview`, `AppendRecommendationReviewEvent`, `Respond`; `LookupFails`, `WriteFails` are their errors, `Crash` ends every call under way |
| `TelemetryPipeline` | publication, JetStream's consumer, `handleMessage`, `Start`, `Close` | `status`, `delivered`, `durable`, `creator`, `bound` are the server's side; `inbox`, `job`, `pc` the handler of each instance; `persisted`, `dlq` what is stored |
| `DispatchValidation` | `ValidateDispatch` on given capacities | `left` stands for siteRemaining, rackRemaining, thermalRemaining, busRemaining, feederRemaining and pduRemaining together; `upLeft`, `downLeft` for the four ramp counters; one step decides one request, one action per branch of the loop |
| `AlertPipeline` | `ProcessEvent`, `UpsertAlert`, `Dispatcher`, `RecordAlertNotification` | `alerts`, `lock` (FOR UPDATE), `audit` are the database; `handler`, `queue`, `worker`, `life` the state of each process |
| `Efficiency`, `AlertRules`, `AnomalyAnalysis` | the model of the miners, the alert rules, the report of `anomaly.Analyze` | operators, in fixed point: hundredths of a unit, factors in ten-thousandths, divisions round down |
| `MinerReport` | `computeMinerReport` while readings arrive and the aggregate is refreshed | `readings`, `aggregate` are the tables, `request` the handler: `ReadSeries` and `ReadLatest` are its two statements; extends `AnomalyAnalysis` and instantiates `AlertRules` |
| `ChangeLedger` | what the log of changes promises | abstract: `Apply`, `Undo` |
| `RecommendationChanges` | apply, rollback and list, concurrently | `changes` is the table, `locks` its row locks, `call` each request; `SelectForUpdate`, `Commit`, `Abort` are the transaction of a rollback; the recommendations applied come from `AnomalyAnalysis` |
| `SiteBudget` | `ComputeSiteBudget` | operators: budgets of assets, load per asset, path and headroom of a rack, minima of the layers |
| `CurtailmentPolicy` | `BuildOperationalView`, and what `ValidateDispatch` accepts of one request on the same budget | operators; extends `SiteBudget` |
| `SiteOverview` | `ProjectSiteRisk`, `BuildSiteOverview`, `BuildCampusOverview` | operators; extends `CurtailmentPolicy` |
| `Replay` | `RunHistoricalReplay`, `RunShadowPilot` | operators; a day is a sequence of buckets folded with the loads each policy arrived at; extends `SiteOverview` |
| `Access` | keys, roles and scopes | operators: `PrincipalOf`, `Gate` |
| `EnergyService` | the orchestrator answering: reads, context, snapshot, events, answer | `request` is the request under way with what it read; one action per statement (`LoadSiteProfile`, `LoadAmbient`, `LoadInventory`, `LoadRackLoads`, `LoadRiskSamples`, `LoadHistory`), per write (`PersistBudgetSnapshot`) and per publication; `Respond` computes the answer (`AnswerTo`); extends `Replay` and `Access` |
| `DailyReport` | the reporter's loop, windows and generation | `clock` is the instant, `next` the timer, `job` the daemon's run and an operator's, `rows` the table; local time computed as Go's `time.Date` does |
| `MC*` | instances for TLC | constants and symmetry |
| `*Proofs`, `SumTheorems` | theorems | see section 5 |

Histories (`wrote`, `evaluated`, `unrecorded`, `dropped`, `net`, `log`,
`concluded`, `lost`, `covered`, `stored`, `since`, `failed`, `late`, the fields
`whole` and `overdue` of a daily report, the versions of telemetry, and the series and ambient an answered report keeps) record what properties speak of and are read by no guard that stands
for code.

External behaviour, taken from how the code uses it: JetStream (delivers to one
member of the queue group, redelivers after AckWait or a nak until MaxDeliver,
DeliverNew at creation, a subscription that created the durable deletes it on
Unsubscribe); PostgreSQL (a statement or transaction takes effect wholly or not
at all, a unique index, row locks that queue their waiters, READ COMMITTED);
TimescaleDB (a continuous aggregate that is refreshed at some time after a bucket
ended); Go's `time` package.

Abstractions. Power and percentages are integers where the code has float64, in
units small enough (watts, hundredths) that rounding decides nothing the
properties speak of. Payloads of events are model values. Times are small
numbers, hours in `DailyReport` and `MinerReport`. `RecommendationReview`
keeps the columns that governance is about, not comments, reasons and dates
themselves (whether `final_decision_at` is set is kept). A commit that
takes effect while its answer is lost is an error branch with the effect
(`WriteFails`, `UpsertFails`, `PersistBudgetSnapshot`, `CreateFails`, and the
caller of `Publish`). In `AlertPipeline` both notifiers are configured, the
fingerprints are those of one miner, and which rules fire is an input
(`AlertRules` has the rules). In `EnergyService` the inventory does not change,
as no code writes it, and a request answered is forgotten when the next comes.

## 3. Runs

| run | question | bounds |
|---|---|---|
| `review` | the seven properties of governance, and that it implements `ReviewLedger` | 3 calls, 2 principals, 1 recommendation, payloads that are sensitive and not; 210,265 states |
| `pipeline` | what an acknowledged, exhausted or dead-lettered message implies | 2 events (one cannot be decoded), 2 instances, MaxDeliver 2, 2 stops; 621,218 states |
| `pipeline_settles` | does redelivery end? (liveness) | 1 event, 2 instances, MaxDeliver 3, 2 stops |
| `dispatch` | capacities, ramps, order, violations and summary | 3 racks of three classes, two of which share a bus, each of these with a PDU of its own; every batch of 3 requests with deltas -3, 0, 1, 4, loads 0 or 4; 163,840 states |
| `alerts` | suppression, audit, accounting of decisions to notify | 2 processes, 1 rule, 2 times, 3 deliveries, queue of 1, 1 worker each, 2 attempts; 439,970 states |
| `alert_shutdown` | do accepted jobs and the shutdown conclude? (liveness) | 1 process, 2 rules, 2 workers, 1 delivery; 21,715 states |
| `miner_report` | does the report on a miner agree with the alert rules, is its advice safe, does it find the data there is? | 3 hours, 3 readings of 5 kinds of miner (one below -20 °C), 4 models, with and without an ambient override, limits 1 and 720; 351,464 states |
| `changes` | links, answers, refinement of `ChangeLedger`, and that a rollback is answered (liveness) | 2 concurrent requests, 5 rows, 2 miners whose reports lower and raise parameters |
| `energy` | advice, headroom, evidence, freshness, projected risk and replayed days | 1 request of each kind over 3 inventories (one site, a locked one, both), 3 states of telemetry and 1 change of it, 2 keys (one scoped), 2 instants (one in a maintenance window), 2 ambients, 3 histories, 12 days, 2 racks a dispatch names; 91,423 states |
| `reports` | is every ordinary day reported and counted whole? | 56 hours around the change of offset of 5 zones (days of 23 and 25 hours, a midnight skipped east and west of Greenwich, one that comes twice), schedules at 0 and 23, one crash, one run by hand, a stall of an hour; 2,266,034 states |
| `site_capped` | *violation*: does a site's only transformer cap it? | as `energy` |
| `report_day_lost` | *violation*: is every day reported where the change skips midnight? | Santiago in spring, schedule at 8 |

Why these bounds. Three review calls are the least in which a call decides on a
copy that two others have overwritten, and two principals the least for dual
confirmation; calls on different recommendations share no state. Two instances
and MaxDeliver 2 let one message be held twice, be retried, time out and be
given up; `pipeline_settles` uses 3 so that a middle delivery exists. Three
requests are the least in which one request's effect on a shared capacity is
passed on by a second to a third, and the loads include a rack above the safe
capacity of its bus (overload). Two processes and three deliveries let two
upserts of a fingerprint overlap with a third's notification and a queue of one
fill. Three readings over three hours let the aggregate hold one bucket, miss one
and be behind on one. Five rows hold an apply, its rollback, a second apply of
the same miner and a rollback of each, while two requests race. One energy
request at a time is enough because requests interact only through tables
they append to: what may change under a request is telemetry, and it does. The inventories
hold an overloaded and a relaxed site, a degraded feeder, a layer in
maintenance, missing layers, a ramp, a locked and an isolated rack and a rack
without a profile; the days a rise and a fall steeper than the ramps, a silent
rack, a missing ambient and no telemetry at all. Fifty-six hours hold the last run before
a change of offset, the day of the change and two runs after it; a schedule at 0 or at 23 is one hour from
the next day, where a stall of an hour or the change itself makes the daemon miss a run. Each energy
inventory has one unblocked rack per class, so the order of racks within a class is proved but not
exercised by TLC. Named bounds: `MaxPublish`,
`MaxStops`, `MaxEvents`, `MaxReadings`, `MaxRequests`, `MaxTelemetry`, `MaxStall`,
`MaxOnce`, `MaxCrash`, `Horizon`, and `Ids` in `RecommendationChanges`: they cap how
often the environment acts. Symmetry is
declared over principals and calls, and over instances, and only in runs
without liveness properties.
`CHECK_DEADLOCK FALSE` everywhere: a call that has been answered, a batch that
is decided, a stream without messages, a clock at its horizon and a process that
ended are legitimate ends.

Two disagreements of the code with the repository's own words are runs that
expect a violation, quoted in `PROJECT.json` under "findings":

- `site_capped`: a layer whose safe capacities total zero is left out of the
  site's minimum (`E/orchestrator/engine.go:65`), so the only transformer, in
  maintenance, no longer caps its site (`overview_shadow_test.go:74`, D92:14).
- `report_day_lost`: where the spring change skips midnight, as in the zone
  `docker-compose.yml:103` sets, `GeneratePreviousDay` (`I/reports/job.go:96`)
  counts back from 23:00 of the day before: a day a year gets no report (D79:14).

### Known divergences without a run

Each of the first six is stated as a property of its module that no cfg lists:
add it to the named cfg as an INVARIANT and TLC shows the behaviour.

- A rejection acknowledged to one caller is replaced by a concurrent approval:
  `UPDATE ... WHERE review_id = $1` does not check the status that was read
  (`E/storage/postgres.go:996`, D106:45; `AcknowledgedOutcomeStands`,
  `MCRecommendationReview.cfg`).
- A final row may never get its event: the row is committed before, and without,
  it (`E/service/service.go:360`, D106:45; `FinalDecisionTraced`).
- The ack follows a dead letter that failed (`I/processor/consumer.go:238`,
  D36:23; `TerminalFailureTraced`, `MCTelemetryPipeline.cfg`).
- A clean shutdown deletes the durable, and the backlog with it
  (`I/processor/consumer.go:333`, D36:11; `BacklogSurvivesRestart`).
- Dispatch may exceed a transformer: the path of a rack stops at its bus
  (`E/orchestrator/engine.go:479`, D91:36, D92:13; `TransformerRespected`,
  `MCDispatchValidation.cfg`).
- A late event moves the window back and is notified again within it
  (`I/storage/postgres.go:291`, D58:20; `NoRenotificationInsideWindow`,
  `MCAlertPipeline.cfg` with three times and a window of 2).

Others were seen while modelling:

- Alerts: SMTP ignores the timeout per attempt (`I/alerts/smtp_notifier.go:113`,
  D57:11-13); results are recorded under `context.Background()` (`I/alerts/dispatcher.go:195`),
  so a worker, and `Close` with it, may wait for a row lock or a dead connection without bound; a webhook without a response is not audited
  (`I/alerts/webhook_notifier.go:92`, D58:21); a handler that passes the first
  select of `Enqueue` while `Close` runs panics on the closed channel
  (`I/alerts/dispatcher.go:94`, D52:21).
- Projection: the hourly load is a sum over samples per miner, so it grows with
  the sampling rate (`E/storage/postgres.go:698`); a missing ambient counts as 0
  and pulls the trend down by 4 degrees an hour; a capacity of 0 scores no risk; only the
  site's own capacity is projected, not that of its assets; the four top risks are the first of the alphabet, so
  the critical overload may be cut off (`overview.go:34`); the campus overview reads each
  site twice, and budget and projection may be of different telemetry.
- Budget: the loads are always the latest, for an `at` in the past or the future
  too, and `telemetry_latest` never expires; a rack that sends telemetry and has no
  profile loads the site but cannot be curtailed.
- Policy: a locked rack of a production class is isolated only after others were
  curtailed; advice does not look at the site's ramp-down, which the validator enforces.
- Evidence: every answer is to carry a snapshot id (D98), and one whose snapshot could not be stored does not.
- Replay: the ramp factors of the protective policy never apply, because the query
  always fills in the point's own ramps (`E/storage/postgres.go:552`); what an
  isolated rack drew is not taken off the overage, so production is curtailed for
  it too; a rack that was curtailed counts as one with a hashrate drop; the
  pilot may count more correct decisions than it evaluated.
- Analysis: the estimate of an impact ends at -20 °C (`I/anomaly/analyzer.go:515`)
  while readings down to -40 are accepted (`I/telemetry/types.go:17`): the report on a
  miner colder than that estimates a rise, and `AdjustmentsAreSafeAndExplained` says so.
- Changes: applying is not idempotent; the list of `status=applied` holds the
  rollbacks too; the impact of a rollback is the negated estimate and goes through
  no guardrail; percentages are inverted without the new reference; a series longer than its limit keeps its oldest
  buckets (`I/storage/postgres.go:882`).
- Reports: a run that failed is only logged (`job.go:87`); a window is always 24
  hours, so the last hour of a day of 25 is in no report; the row may be saved while the file
  fails and the run is answered with an error; of two runs the later upsert wins
  even with older metrics, so a run by hand that is saved once the scheduled run is due may replace it
  (`overdue`). `NextRunAt` (`job.go:187`) adds 24 hours whatever the day lasts: with a schedule at 23, the
  timer set on the eve of a day of 23 hours is due at midnight two days later, and a day is
  lost; at 0, the next run on a day of 25 hours lies in the past by its last hour, so a timer set then
  fires again and again and that day's run is lost. A generation has no timeout, and one that is still under way at the
  next scheduled hour costs that day's run (`late`). `EveryDayReported` is the claim of D79, which a
  skipped midnight and these schedules refute; `OrdinaryDaysReported` is what holds of every zone and
  schedule. It leaves out the days whose midnight or run the calendar moves to another day
  (`Ordinary`), those the daemon was busy at the hour of (`late`) and those whose run failed.

## 4. Fairness

- `TelemetryPipeline`: weak fairness of each handler (every call in it has a
  timeout: 5 s persist, 3 s alerts, 3 s flush), of JetStream's delivery and of
  AckWait. None for publication, start, stop or crash. Nothing restarts an
  instance that stopped, so the property is about messages while one is bound.
- `AlertPipeline`: weak fairness of each handler (3 s for the alerts of a message), of each worker
  (webhook client timeout, wait between attempts) and of the exit. Two calls of a worker have no
  deadline: `SendMail`, and the recording of a result under `context.Background()`
  (`I/alerts/dispatcher.go:195`). Either may hang (the outcome "hung" of an attempt by email; `RecordHangs`, with or without
  its effect); a worker that hangs has no enabled step, so no fairness makes it go on,
  and the properties say "unless it hangs".
- `RecommendationChanges`: weak fairness of each request's own steps, strong
  fairness of `SelectForUpdate`, because PostgreSQL queues the waiters of a row
  lock. None for failures, crashes or new requests.
- `RecommendationReview`, `DispatchValidation`, `MinerReport`, `EnergyService` and
  `DailyReport` have safety properties only. In `DailyReport` the clock does not
  pass an hour in which a timer is due: that is the one timing assumption its safety
  properties rest on. That a generation ends within `MaxStall` hours is only a bound for TLC: the
  code sets no timeout, and the proofs hold for any `MaxStall`.

## 5. Proofs

All of it for every value of the constants that satisfies the assumptions, with
TLC having checked each inductive invariant on an instance first. A run shows that the
properties can be broken (the mutants); a theorem, that no larger instance breaks them.

| proof module | theorems | the invariant, and why the properties need it |
|---|---|---|
| `RecommendationReviewProofs` | `TypeOK`, `FourEyes`, `RowCoherent`, `AuditFollowsWrite`, `RefusedHasNoEffect`, `OutcomeNeverReopened` (action property), refinement of `ReviewLedger`; and `OneActorNeverApproves`: while all requests have one principal, as with authentication disabled, a sensitive review is never approved | The checks of a call are made against its copy of a row. `RowInv`: each row is coherent and has two approvers where it needs them. `CopyInv`: a call about to UPDATE holds a copy that was pending, and the row is still there, needs two approvers and has the first approver of the copy, whatever was written since; this makes "second approval must come from a different actor", checked on the copy, hold of the row overwritten later. `CallInv`: what each program point knows of request, result and history. |
| `TelemetryPipelineProofs` | `TypeOK`, `AckedMeansHandled`, `ExhaustedMeansTraced`, `DeadLetterIsTerminal` | `StreamInv`: a message on offer has deliveries left. No copy that is out has a number above NumDelivered. `JobInv`: a handler that dead-letters holds an undecodable event or the last delivery, and one at its ack has left a trace. The last delivery of a message is in some instance's inbox or handler, or has left its trace, or died with its instance (`LastIsOut`, `LastTraced`): without it `ExhaustedMeansTraced` says nothing of the copies under way. |
| `AlertPipelineProofs` | `TypeOK`, `SuppressionFollowsDetections`, `AuditAgrees`, `NoSilentLoss` | `RowInv`: the row of a fingerprint carries the window of the upsert committed last. `HandlerInv`: a handler about to update holds the row's lock, so the window it compares with is that one. `OnePlace`: a job is in one handler, one position of one queue or one worker; `ConcludedInv` and `WorkerInv`: exactly the channels before the worker's own are done, so no channel gets two results. `CountInv`: the upserts still to come and those committed are at most the deliveries, which keeps jobs within their type. |
| `DispatchValidationProofs` | `TypeOK`, `CapacityRespected`, `NetIsLoad`, `RampsRespected`, `RefusalExplained`, `NoPriorityInversion`, `SummaryAgrees` | `Balanced`: load + net + left = max(safe, load) of every capacity, which each branch of the loop keeps because an increase is granted at most what is left of every capacity above the rack and a reduction gives back exactly what it took. A second invariant, `DInv`, relates the loop to its past: the net of a capacity is the sum of what the racks below were granted, what was granted and what a ramp has left add up to its limit, the requests decided are a prefix of the engine's order, and a site that had nothing left for a request has nothing for those that come after. |
| `RecommendationChangesProofs` | types, `RollbackLinksAgree`, `AnswersAreTrue`, refinement of `ChangeLedger` | A transaction past its SELECT ... FOR UPDATE still holds the lock and its copy equals the row (`CallOK`): so of two rollbacks one commits. Every link has its other end (`RowOK`), every list of recommendations has an entry per parameter in a unit that is inverted, and each request under way has an identifier left (`Room`). Refinement: an INSERT is `Apply`, a commit is `Undo`, because the row of the inverse takes out of the sum over the log exactly what its target put in. |
| `EnergyServiceProofs` | `EvidenceMatches`, `LoadsAtLeastAsFresh`, `HeadroomIsReal`, `RiskSeesOverload`, `AdviceIsSound`, `ReplayIsFeasible` | `InputInv`: while the input is read, the time of the newest reading seen is not past the telemetry the loads will come from (versions only grow, the ambient statement comes first). `AnswerInv`: once everything was read, an id in the request names a stored snapshot of what was read, which no later step changes. `KindInv`: which program points belong to which kind of request, so that overviews and replays, which store nothing, never reach the snapshot. `AInv` and `OInv` say what an answer was computed from: the tables are those of an inventory, what was read of a site is what telemetry said, a budget is `BudgetOf` of that, a view is made of that budget, and an overview `OverviewsOf` of its parts, each read completely but the one under way. `DayInv`: the answer to a replay is the shadow pilot (`RunShadowPilot`) of a day of the site, whose points come from the telemetry of the day and the rows of its racks. The rest is about the computations (below). |
| `ReportProofs`, first half (`MinerReport`) | types, `InsufficientMeansNoData`, `CriticalHeatCoolsDown`, `AdjustmentsAreSafeAndExplained`, `ReportsAreComplete` | `StoreInv`: a row of the aggregate was made of readings that are stored, and they are finitely many. `SeriesInv`: between the two statements an empty series means that nothing was stored (a window with a row has an oldest one, and the limit is at least 1), and what was stored still is; every reading of the series shows in the maximum of some bucket (`Covers`). `ReportInv`: a report is the analysis of its series. The rest is about the analysis: a maximum above the critical threshold is a hotspot above the report's own, the guardrails leave each adjustment in one of three outcomes (`Applied`), and the estimate of the three together is a drop. `ReportsAreComplete`: every report has an adjustment per parameter in its unit, which is what `RecommendationChanges` assumes of it. |
| `ReportProofs`, second half (`DailyReport`) | `OrdinaryDaysReported`, `ReportCountsWholeDay`, for every zone, schedule and stall; and `OrdinaryUnlessMidnightMoves`: with a schedule between 1 and 22, the only days that are not ordinary are those for which `time.Date` puts the midnight, or that of the day before, on another day | `RowsInv`: a row counts the 24 hours from where `time.Date` puts its day's midnight. `DaemonInv`, `TimerInv`: the daemon's run and its timer are for the day before the one they belong to (`ForDayBefore`) and, but for the run at the start, not before that run is due (`DueUnlessFirst`), so its metrics are those of a day that is over. `LateInv`: a day whose scheduled hour passed while the daemon was busy with another is in `late`. `CoveredInv`: every ordinary day since the start and before the run to come (`Done`) is served, unless its run failed or it is in `late`: there is a row of the day before, which counts the whole day or was saved once that run was due (`Served`). The calendar comes below. |
| `SumTheorems` | lemmas only | A sum over a finite set has a value, is an integer or a natural, and changes with one summand by the difference; used for the loads of racks, the changes of a batch and the rows of the log. |

Each action keeps the invariant in a lemma of its own, `NextIInv` combines them,
and each theorem is a consequence of the invariant. In the refinements everything that writes no row is a
stutter. `ReviewLedger!Settle` allows a settled row to be settled again: that
weakness is the code's (section 3, known divergences).

Sums. `SumFunctionOnSet` of the community modules is a recursion over a set, and the
library's induction theorems take an operator as a parameter, which the provers
cannot instantiate. `SumTheorems` therefore argues from a least counterexample in
sets of naturals: no sum is assumed to be anything.

Budgets and overviews. What a rack is promised is the least of what is left at the site, at
the rack and at each asset above it that the walk sees, and taking it raises exactly
those sums, by what is taken (`HeadroomIsThere`): so no capacity is
promised that another limit refuses. A projection of a site that is already over its safe
capacity can only get warmer and heavier, and its capacity only smaller (`CapacityFalls`, for
which percentages have to be exact), which scores at least the 65 points of "high"
(`ScoreOfOverload`); a site over what it may draw has a critical constraint whose code is
among the top risks (`TopRisksFacts`).

The advice of a view is argued round by round of the policy's loop (`RoundInv`, kept by
`NextRound`): what curtailments took and what is left never exceed the overload, and with what
isolations take they reach it; a rack asked to curtail gives no more than it has, and
as long as something is left every rack considered is spent, having given all it can. So
a rack is only asked when every rack that comes before it is spent (`OrderOfClasses` relates the
policy's order to the classes the property names), and what is left at
the end is exactly the escalation. That a rack may give no more than its load and its ramp
is why the validator grants it all (`GivesInFull`), and a rack the validator refuses any
increase is one the policy lists as blocked (`RefusedIsBlocked`). The induction over rounds is again a
least counterexample (`CountingUp`, `RoundsFollow`).

A replayed day is argued bucket by bucket. A policy walks the racks in its order and
takes from each what the overage still asks for: what it took and the rest always make up the
overage, as long as there is a rest every rack passed has nothing left, and a rack is
touched only when those before it have nothing left (`CutInv`, `LeftInv`). Ramps are applied to
where the bucket before left each rack, so what is carried from bucket to bucket is that a rack stands at most
where it stood in some bucket up to now, and at nothing if it was isolated in that one (`PreviousInv`,
`NextBucket`); the same induction carries the comparison of the two policies, as a smaller capacity takes
more and ramps keep an order (`BucketsInOrder`). That the pilot escalates the buckets the balanced
policy cannot settle with sacrificable load alone is arithmetic on the same cuts
(`PilotAgrees`). The inductions, over the racks of a walk and the buckets of a day, count up as above.

The calendar. Local time moves with the clock, but for one step of 0, 1 or 2 hours at the change
(`LocalSlope`). `time.Date` finds the instant of a local time, or, for the hour
a zone skips, one that is an hour off (`DateLocal`); so a day's midnight is at its beginning or, where it is
skipped, an hour off (`Midnight`), days last 25 hours at most (`DayLength`) and follow each other
(`DayOfMonotone`). Counting back a day from an ordinary day reaches the day before it
(`PreviousDayFacts`), which is over by the time the run is due (`OverFacts`). The timer is due at the
scheduled hour, or 24 hours after that of the day before, and no ordinary day whose hour is still to come is passed over
(`NextRun`).

Orders are by rank: in a strict order of a finite set each
element has exactly one place (`InOrderFacts`), which replaces an induction over a sort.

Assumptions, all on constants and evaluated by TLC in every run of their module:

- model values are not confused with data: `ConstantsAssumption`, both
  `NoneAssumption`, the last two parts of `IdsAssumption`;
- bounds and sizes are naturals, positive where the code's defaults make them so
  (`PipelineAssumption`, `AlertAssumption`), identifiers are 1 to n (`IdsAssumption`);
- `InventoryAssumption`: capacities, ramps and loads are naturals, paths name
  assets of the inventory, racks, assets and the requests of a batch are finitely many;
- `HoursAssumption`, `LimitsAssumption`, `KindsAssumption`: hours are 1 to n, a limit is at least
  one (the handler refuses anything less), a reading's quantities are numbers,
  of which only temperatures may be negative;
- `ReportsAssumption`: a report holds an adjustment for each of the three parameters, in
  percent or millivolts: `ReportsAreComplete` proves it of the model of
  `anomaly.Analyze`, and the run `changes` takes its reports from there. A list without
  a parameter could not be summed;
- `InventoriesAssumption`: the rows of a site, its assets and racks are finitely many and their columns
  numbers, with the CHECKs of the migrations as far as a proof needs them: the reserve is at most
  60 percent and a derating is not negative (0006), the criticality of a rack is one of four classes
  (0008), its safety lock is yes or no, and no rack has the identifier that stands for a site as a whole. Capacities are whole kilowatts, the unit in which
  `SiteBudget` makes two percentages in a row exact; the code computes in floating point;
- `ReadingsAssumption`, `OverridesAssumption`, `HistoriesAssumption`: what telemetry says of a site is
  the loads of finitely many racks and an ambient temperature, if any; an hour of
  history has numbers, of which counts and percentages of rows are not negative;
- `ZoneAssumption`, `ScheduleAssumption`, `BoundsAssumption`: offsets are between -12 and 14 hours and change by an hour at most, schedule hours are
  between 0 and 23, the horizon is not before the first hour; `NoReportAssumption`: the absence of a row is not a row.
- `DaysAssumption`: a day is a sequence of buckets of finitely many racks, whose power is not
  negative (0001) and whose ambient tag may be missing.

Only model-checked, and why:

- the liveness properties `EveryMessageSettles`, `AcceptedJobsConclude`, `ShutdownEnds` and
  `RollbackIsAnswered`: fairness needs ENABLED, which is out of the prover's reach.

Every invariant and every action property that a run expects to hold is proved.

## 6. Plan

Done: the modules of section 2 and the proofs of section 5. No module that is
proved about declares a RECURSIVE operator. Left:

- `EnsureStreamSubjects` as a module, and redelivery composed with the alerts.

## 7. Not modelled

Dashboards and the read API beyond the answers named above, middleware (request ids,
access log, metrics), configuration, metrics and the simulator: they parse,
format and query, and change nothing the modelled parts read. `EnsureStreamSubjects` is
one unguarded read and write of a stream's subjects by three processes at start;
it is planned. The schema is modelled as far as its keys and constraints matter
to the modules that use them. The text of reports, alerts and explanations, averages and
percentages over a replayed day, the ingest API's role check, and the HTTP client of the orchestrator beyond which
racks it asks for are left out: no property is about them.
