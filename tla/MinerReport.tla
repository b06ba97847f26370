----------------------------- MODULE MinerReport -----------------------------
(***************************************************************************)
(* GET /v1/anomalies/miners/:id/analyze for one miner: the series is read  *)
(* from the hourly continuous aggregate, or from the raw readings when     *)
(* that has no row in the window, the latest reading is read by a second   *)
(* statement, and the two are analysed (httpapi/anomaly_handler.go         *)
(* computeMinerReport, storage/postgres.go ListMinerSeries, ListReadings). *)
(* Meanwhile readings arrive, late ones too, and TimescaleDB refreshes the *)
(* aggregate.                                                              *)
(*                                                                         *)
(* Time is counted in whole hours; a reading's quantities are whole units. *)
(***************************************************************************)
EXTENDS AnomalyAnalysis, FiniteSets

CONSTANTS
  Hours,        \* the hours readings fall in, 1 .. n
  Kinds,        \* the readings a miner may send
  Models,       \* the miner models
  Limits,       \* values of the limit parameter
  Overrides,    \* values of the ambient_c parameter, NoAmbient when absent
  MaxReadings   \* bound on the readings stored

ASSUME HoursAssumption ==
  IsFiniteSet(Hours) /\ Hours # {} /\ Hours = 1 .. Cardinality(Hours)
ASSUME LimitsAssumption == Limits \subseteq Nat \ {0}
ASSUME KindsAssumption ==
  Kinds \subseteq [hash : Nat, power : Nat, temp : Int, fan : Nat, ambient : Int]

VARIABLES
  model,      \* the model the inventory has for the miner
  now,        \* the current hour
  readings,   \* telemetry_readings: for each hour, the readings stored
  aggregate,  \* telemetry_agg_hour: the readings each hour's row was made of
  request     \* the request under way or last answered

vars == << model, now, readings, aggregate, request >>

NoRequest == [phase |-> "idle"]

Rules == INSTANCE AlertRules

StoredReadings == { r \in Hours \X Kinds : r[2] \in readings[r[1]] }

Points == [bucket : Hours, hash : Int, power : Int, temp : Int, maxTemp : Int,
           fan : Int]

TypeOK ==
  /\ model \in Models
  /\ now \in Hours
  /\ readings \in [Hours -> SUBSET Kinds]
  /\ aggregate \in [Hours -> SUBSET Kinds]
  /\ request.phase \in {"idle", "series", "reported", "insufficient"}
  /\ request.phase \in {"series", "reported"} => request.series \in Seq(Points)

Init ==
  /\ model \in Models
  /\ now = 1
  /\ readings = [h \in Hours |-> {}]
  /\ aggregate = [h \in Hours |-> {}]
  /\ request = NoRequest

-------------------------------------------------------------------------------
(* Storage. *)

\* A bucket's averages, and its maximum temperature.
Point(h, set) ==
  LET Average(Value(_)) ==
        (SumFunction([k \in set |-> Value(k)]) * Unit) \div Cardinality(set)
  IN  [bucket  |-> h,
       hash    |-> Average(HashOf),
       power   |-> Average(PowerOf),
       temp    |-> Average(TempOf),
       maxTemp |-> Max({ k.temp : k \in set }) * Unit,
       fan     |-> Average(FanOf)]

\* The buckets of a table that lie in the window, oldest first: the limit
\* keeps the oldest.
ServedHours(table, from, to, limit) ==
  LET present == { h \in from .. to : table[h] # {} }
  IN  { h \in present : Cardinality({ g \in present : g < h }) < limit }

SeriesFrom(table, hours) ==
  [i \in 1 .. Cardinality(hours) |->
     LET h == CHOOSE h \in hours : Cardinality({ g \in hours : g < h }) = i - 1
     IN  Point(h, table[h])]

(* Mutant of SeriesSource: no fallback. *)
SeriesFromAggregateOnly(from, to, limit) == aggregate

\* The table the series comes from: an aggregate with no row in the window
\* falls back to the raw readings.
SeriesSource(from, to, limit) ==
  IF ServedHours(aggregate, from, to, limit) # {} THEN aggregate ELSE readings

\* The newest readings of the window; several of one hour tie in this model,
\* and the database may return any of them.
LatestReadings(from, to) ==
  LET present == { h \in from .. to : readings[h] # {} }
  IN  { k \in Kinds : \E h \in present :
          k \in readings[h] /\ \A g \in present : g <= h }

-------------------------------------------------------------------------------
(* Steps. *)

\* An answer is gone once it is sent: only a request under way outlives a
\* change of the store.
UnderWay == IF request.phase = "series" THEN request ELSE NoRequest

\* A reading of the present or of a past hour is persisted.
Persist(h, k) ==
  /\ h <= now
  /\ k \notin readings[h]
  /\ Cardinality(StoredReadings) < MaxReadings
  /\ readings' = [readings EXCEPT ![h] = @ \cup {k}]
  /\ request' = UnderWay
  /\ UNCHANGED << model, now, aggregate >>

Tick ==
  /\ now + 1 \in Hours
  /\ now' = now + 1
  /\ request' = UnderWay
  /\ UNCHANGED << model, readings, aggregate >>

\* The refresh policy: buckets that ended at least one hour ago.
Refresh ==
  /\ aggregate' = [h \in Hours |-> IF h <= now - 2 THEN readings[h]
                                   ELSE aggregate[h]]
  /\ request' = UnderWay
  /\ UNCHANGED << model, now, readings >>

\* First statement of the handler, and the answer when it finds nothing.
\* `covered` and `stored` remember what the series was made of and what the
\* window held.
ReadSeries(from, to, limit, override) ==
  LET source == SeriesSource(from, to, limit)
      hours  == ServedHours(source, from, to, limit)
  IN  /\ request.phase # "series"
      /\ from <= to
      /\ request' = [phase    |-> "series",
                     from     |-> from,
                     to       |-> to,
                     override |-> override,
                     series   |-> SeriesFrom(source, hours),
                     covered  |-> UNION { source[h] : h \in hours },
                     stored   |-> { h \in from .. to : readings[h] # {} }]
      /\ UNCHANGED << model, now, readings, aggregate >>

\* The ambient temperature comes from the caller, else from the latest
\* reading, else from the baseline.
Ambient(latest) ==
  IF request.override # NoAmbient THEN request.override
  ELSE ParseAmbient(latest.ambient, BaselineForModel(model).ambientReference)

\* Second statement, and the answer: the analysis of the series, when both
\* statements found something.
ReadLatest ==
  LET latest == LatestReadings(request.from, request.to)
  IN  /\ request.phase = "series"
      /\ \/ /\ latest = {} \/ request.series = << >>
            /\ request' = [phase |-> "insufficient", stored |-> request.stored]
         \/ /\ request.series # << >>
            /\ \E k \in latest :
                 request' = [phase   |-> "reported",
                             covered |-> request.covered,
                             series  |-> request.series,
                             ambient |-> Ambient(k),
                             report  |-> Analyze(model, request.series, Ambient(k))]
      /\ UNCHANGED << model, now, readings, aggregate >>

Next ==
  \/ \E h \in Hours, k \in Kinds : Persist(h, k)
  \/ Tick
  \/ Refresh
  \/ \E from, to \in Hours, limit \in Limits, override \in Overrides :
       ReadSeries(from, to, limit, override)
  \/ ReadLatest

Spec == Init /\ [][Next]_vars

-------------------------------------------------------------------------------
(* Properties. *)

Reported == request.phase = "reported"
Recommended(parameter) ==
  LET recs == request.report.recommendations
  IN  recs[CHOOSE i \in DOMAIN recs : recs[i].parameter = parameter]

\* The telemetry event of a reading, its status that of a miner that does not
\* call itself critical.
Event(k) == [temp |-> k.temp, power |-> k.power, hash |-> k.hash,
             status |-> "ok", model |-> model]

\* The alert rules and the analysis keep their thresholds in two tables
\* (alerts/rules.go, efficiency/model.go).  They agree where it matters: when
\* a reading the series was made of is so hot that every event like it raises
\* a critical overheat alert, the report asks for more ventilation and for
\* less frequency and voltage, for every model and any averaging over buckets.
CriticalHeatCoolsDown ==
  Reported =>
    \A k \in request.covered :
      Rules!Alert("overheat", "critical") \in Rules!Evaluate(Event(k)) =>
        /\ Recommended("fan").suggested.amount > 0
        /\ Recommended("freq").suggested.amount < 0
        /\ Recommended("volt").suggested.amount < 0

\* A report does not estimate a miner hotter than it was, but for one colder
\* than -20 degrees, which it estimates at -20, the floor of the estimate
\* (readings down to -40 are accepted); it adjusts every parameter, in its unit and
\* within its operating limits, and explains each intervention of a guardrail:
\* what was asked is kept beside what is applied, and the decision says it was
\* not plainly allowed (D77).
AdjustmentsAreSafeAndExplained ==
  Reported =>
    /\ \/ request.report.impact.delta.temp <= 0
       \/ request.report.impact.after.temp = ColdestEstimate
    /\ \A p \in Parameters : Recommended(p).parameter = p
    /\ \A i \in DOMAIN request.report.recommendations :
         LET rec   == request.report.recommendations[i]
             asked == RecommendActions(request.report.hotspot,
                                       request.report.hashDrop)[i]
         IN  /\ rec.suggested.unit = SafeUnit(rec.parameter)
             /\ rec.suggested.amount \in SafeRange(rec.parameter).low
                                           .. SafeRange(rec.parameter).high
             /\ rec.suggested = asked.suggested \/
                  /\ rec.requested = asked.suggested
                  /\ request.report.guardrails[i].action # "allow"

\* "insufficient telemetry data" is answered only for a window in which
\* nothing was stored when the series was read, however far behind the
\* aggregate is.
InsufficientMeansNoData ==
  request.phase = "insufficient" => request.stored = {}
===============================================================================
