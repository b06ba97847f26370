--------------------------- MODULE AnomalyAnalysis ---------------------------
(***************************************************************************)
(* The report on one miner: features of its series of buckets, the two     *)
(* detectors, the severity, the recommended adjustments, the guardrails    *)
(* they go through and the estimate of their impact                        *)
(* (internal/anomaly/analyzer.go).                                         *)
(*                                                                         *)
(* A point of the series is the record of one hourly bucket, with bucket   *)
(* (a whole hour), hash, power, temp, maxTemp and fan in hundredths.       *)
(* Amounts of an adjustment are in hundredths of a percent or a millivolt; *)
(* unit "none" stands for a text the code cannot parse.  Messages are left *)
(* out: a guardrail's reason is represented by its action.                 *)
(***************************************************************************)
EXTENDS Efficiency, Sequences, SequencesExt

Parameters == {"fan", "freq", "volt"}
NoDelta == [amount |-> 0, unit |-> ""]

Total(series, Value(_)) == SumFunction([i \in DOMAIN series |-> Value(series[i])])
Mean(series, Value(_)) == Total(series, Value) \div Len(series)

HashOf(point)  == point.hash
PowerOf(point) == point.power
TempOf(point)  == point.temp
FanOf(point)   == point.fan

\* Least-squares slope per hour; 0 for fewer than two points, or when they
\* all lie in one bucket.
LinearTrendPerHour(series, values) ==
  LET n       == Len(series)
      Over(F(_)) == Total([i \in 1 .. n |-> i], F)
      X(i)    == series[i].bucket - series[1].bucket
      Y(i)    == values[i]
      XX(i)   == X(i) * X(i)
      XY(i)   == X(i) * Y(i)
      den     == n * Over(XX) - Over(X) * Over(X)
  IN  IF n < 2 THEN 0
      ELSE IF den = 0 THEN 0
      ELSE (n * Over(XY) - Over(X) * Over(Y)) \div den

\* Fall from the first third of the series to its last third, in hundredths
\* of a percent.
ComputeDropPct(series) ==
  LET segment == IF Len(series) < 6 THEN 1 ELSE Len(series) \div 3
      first   == Total(SubSeq(series, 1, segment), HashOf)
      last    == Total(SubSeq(series, Len(series) - segment + 1, Len(series)),
                       HashOf)
  IN  IF Len(series) < 2 THEN 0
      ELSE IF first <= 0 THEN 0
      ELSE ((first - last) * 10000) \div first

BuildFeatures(series, ambient, baseline) ==
  LET Values(F(_)) == [i \in DOMAIN series |-> F(series[i])]
      hash  == Mean(series, HashOf)
      power == Mean(series, PowerOf)
      temp  == Mean(series, TempOf)
  IN  [samples     |-> Len(series),
       hash        |-> hash,
       power       |-> power,
       temp        |-> temp,
       maxTemp     |-> Max({ series[i].maxTemp : i \in DOMAIN series }),
       fan         |-> Mean(series, FanOf),
       dropPct     |-> ComputeDropPct(series),
       hashTrend   |-> LinearTrendPerHour(series, Values(HashOf)),
       tempTrend   |-> LinearTrendPerHour(series, Values(TempOf)),
       ambient     |-> ambient,
       compensated |-> CompensateJTH(ComputeJTH(power, hash), ambient, baseline),
       band        |-> ClassifyThermalBand(temp, baseline)]

-------------------------------------------------------------------------------
(* Detectors and severity.  Scores are in hundredths. *)

MaxScore == 100 * Unit
LOCAL AtLeastZero(value) == IF value > 0 THEN value ELSE 0

(* Mutant of DetectHotspot: the average temperature stands for the maximum. *)
DetectHotspotOnAverage(f, baseline) ==
  [triggered |-> \/ f.temp >= baseline.hotspot
                 \/ f.temp >= baseline.elevatedMax /\ f.tempTrend > Unit,
   score     |-> Clamp(AtLeastZero(f.temp - baseline.hotspot) * 10, 0, MaxScore)]

DetectHotspot(f, baseline) ==
  [triggered |-> \/ f.maxTemp >= baseline.hotspot
                 \/ f.temp >= baseline.elevatedMax /\ f.tempTrend > Unit,
   score     |-> Clamp(AtLeastZero(f.maxTemp - baseline.hotspot) * 10
                       + (IF f.tempTrend > Unit THEN f.tempTrend * 8 ELSE 0)
                       + (IF f.fan > 6800 * Unit THEN 8 * Unit ELSE 0),
                       0, MaxScore)]

DetectHashDegradation(f, baseline) ==
  [triggered |-> f.dropPct >= 1500 \/ f.hashTrend <= -8 * Unit,
   score     |-> Clamp((AtLeastZero(f.dropPct) * 150) \div 100
                       + (AtLeastZero(-f.hashTrend) * 45) \div 100
                       + (AtLeastZero(f.compensated - baseline.nominalJTH) * 22) \div 10,
                       0, MaxScore)]

SeverityFromDetections(f, hotspot, hashDrop) ==
  LET thermal == IF hotspot.triggered THEN hotspot.score ELSE 0
      hashing == IF hashDrop.triggered THEN hashDrop.score ELSE 0
  IN  Clamp((IF thermal > hashing THEN thermal ELSE hashing)
            + (IF hotspot.triggered /\ hashDrop.triggered THEN 10 * Unit ELSE 0)
            + (IF f.band = "hotspot" THEN 6 * Unit ELSE 0),
            0, MaxScore)

LabelFromScore(score) ==
  CASE score >= 85 * Unit -> "critical"
    [] score >= 65 * Unit /\ score < 85 * Unit -> "high"
    [] score >= 35 * Unit /\ score < 65 * Unit -> "medium"
    [] OTHER -> "low"

ProbableCause(f, hotspot, hashDrop) ==
  CASE hotspot.triggered /\ hashDrop.triggered  -> "throttling"
    [] hotspot.triggered /\ ~hashDrop.triggered -> "airflow"
    [] ~hotspot.triggered /\ hashDrop.triggered -> "chips"
    [] OTHER -> IF f.band = "optimal" THEN "normal" ELSE "monitor"

-------------------------------------------------------------------------------
(* Recommendations and guardrails. *)

Percent(amount) == [amount |-> amount * Unit, unit |-> "%"]
MilliVolt(amount) == [amount |-> amount * Unit, unit |-> "mV"]
Recommend(parameter, delta) ==
  [parameter |-> parameter, suggested |-> delta, requested |-> NoDelta]

RecommendActions(hotspot, hashDrop) ==
  CASE hotspot.triggered ->
         << Recommend("fan", Percent(12)), Recommend("freq", Percent(-6)),
            Recommend("volt", MilliVolt(-15)) >>
    [] ~hotspot.triggered /\ hashDrop.triggered ->
         << Recommend("fan", Percent(5)), Recommend("freq", Percent(-3)),
            Recommend("volt", MilliVolt(10)) >>
    [] OTHER ->
         << Recommend("fan", Percent(0)), Recommend("freq", Percent(0)),
            Recommend("volt", MilliVolt(0)) >>

\* The unit and the safe range of each parameter.
SafeUnit(parameter) == IF parameter = "volt" THEN "mV" ELSE "%"
SafeRange(parameter) ==
  CASE parameter = "fan"  -> [low |-> -15 * Unit, high |-> 20 * Unit]
    [] parameter = "freq" -> [low |-> -8 * Unit,  high |-> 4 * Unit]
    [] parameter = "volt" -> [low |-> -20 * Unit, high |-> 12 * Unit]

\* The miner is too hot, or already too inefficient, for this direction.
UnsafeDirection(parameter, amount, f, baseline, hotspot) ==
  LET thermalRisk == hotspot.triggered \/ f.band \in {"warning", "hotspot"}
  IN  \/ parameter = "fan"  /\ amount < 0 /\ hotspot.triggered
      \/ parameter = "freq" /\ amount > 0 /\ thermalRisk
      \/ parameter = "volt" /\ amount > 0 /\ thermalRisk
      \/ parameter = "volt" /\ amount > 0
         /\ f.compensated * 100 > baseline.nominalJTH * 115

(* Mutant of Guard: a blocked adjustment loses what was asked. *)
GuardForgetsBlocked(rec, f, baseline, hotspot) ==
  LET unsafe == UnsafeDirection(rec.parameter, rec.suggested.amount, f, baseline,
                                hotspot)
      action == IF unsafe THEN "blocked" ELSE "allow"
      applied == [rec.suggested EXCEPT !.amount = IF unsafe THEN 0 ELSE @]
  IN  [recommendation |-> [parameter |-> rec.parameter, suggested |-> applied,
                           requested |-> NoDelta],
       decision |-> [parameter |-> rec.parameter, requested |-> rec.suggested,
                     applied |-> applied, action |-> action]]

\* One recommendation through the guardrails: what is applied, and the
\* decision on it.  The clamp comes first; blocking wins over it.
Guard(rec, f, baseline, hotspot) ==
  LET asked    == rec.suggested
      param    == rec.parameter
      refused  == asked.unit = "none" \/ param \notin Parameters
                    \/ asked.unit # SafeUnit(param)
      clamped  == Clamp(asked.amount, SafeRange(param).low, SafeRange(param).high)
      action   == IF refused THEN "blocked"
                  ELSE IF UnsafeDirection(param, clamped, f, baseline, hotspot)
                  THEN "blocked"
                  ELSE IF clamped # asked.amount THEN "clamped" ELSE "allow"
      amount   == IF action = "blocked" THEN 0 ELSE clamped
      applied  == [amount |-> amount,
                   unit |-> IF asked.unit = "none" THEN SafeUnit(param)
                            ELSE asked.unit]
  IN  [recommendation |->
         [parameter |-> param, suggested |-> applied,
          requested |-> IF action = "allow" /\ asked = applied
                        THEN NoDelta ELSE asked],
       decision |-> [parameter |-> param, requested |-> asked,
                     applied |-> applied, action |-> action]]

ApplyGuardrails(f, baseline, hotspot, recs) ==
  LET guarded == [i \in DOMAIN recs |-> Guard(recs[i], f, baseline, hotspot)]
  IN  [recommendations |-> [i \in DOMAIN recs |-> guarded[i].recommendation],
       decisions       |-> [i \in DOMAIN recs |-> guarded[i].decision]]

-------------------------------------------------------------------------------
(* Impact.  Growth is in ten-thousandths of the value. *)

Grow(value, growth) == value + ((value \div 10) * growth) \div 1000

\* The snapshot after one more recommendation takes effect.
Elasticity(after, rec) ==
  LET d == rec.suggested.amount
  IN  CASE rec.suggested.unit = "none" -> after
        [] rec.suggested.unit # "none" /\ rec.parameter = "fan" ->
             [after EXCEPT !.fan   = Grow(@, d),
                           !.temp  = @ - (14 * d) \div 100,
                           !.power = Grow(@, (2 * d) \div 100)]
        [] rec.suggested.unit # "none" /\ rec.parameter = "freq" ->
             [after EXCEPT !.hash  = Grow(@, (82 * d) \div 100),
                           !.power = Grow(@, (68 * d) \div 100),
                           !.temp  = @ + (9 * d) \div 100]
        [] rec.suggested.unit # "none" /\ rec.parameter = "volt" ->
             [after EXCEPT !.power = Grow(@, d \div 10),
                           !.hash  = Grow(@, (18 * d) \div 700),
                           !.temp  = @ + d \div 70]
        [] OTHER -> after

\* No estimate of a temperature is below this one.
ColdestEstimate == -20 * Unit

AtLeast(value, low) == IF value < low THEN low ELSE value

EstimateImpact(f, baseline, recs) ==
  LET before == [hash |-> f.hash, power |-> f.power, temp |-> f.temp,
                 fan |-> f.fan, compensated |-> f.compensated]
      raw    == FoldLeft(Elasticity, before, recs)
      floor  == [raw EXCEPT !.hash = AtLeast(@, Unit), !.power = AtLeast(@, Unit),
                            !.temp = AtLeast(@, ColdestEstimate), !.fan = AtLeast(@, 0)]
      after  == [floor EXCEPT !.compensated =
                   CompensateJTH(ComputeJTH(floor.power, floor.hash),
                                 f.ambient, baseline)]
      trust  == Clamp(45 + 3 * f.samples, 45, 92)
  IN  [before |-> before,
       after  |-> after,
       delta  |-> [hash  |-> DeltaPct(after.hash, before.hash),
                   power |-> DeltaPct(after.power, before.power),
                   temp  |-> after.temp - before.temp,
                   fan   |-> DeltaPct(after.fan, before.fan),
                   compensated |-> DeltaPct(after.compensated, before.compensated)],
       confidence |-> IF f.band = "hotspot" THEN Clamp(trust - 8, 40, 92) ELSE trust]

-------------------------------------------------------------------------------
\* The report on a series that is not empty (the API answers "insufficient
\* telemetry data" to an empty one).
Analyze(model, series, ambient) ==
  LET baseline == BaselineForModel(model)
      f        == BuildFeatures(series, ambient, baseline)
      hotspot  == DetectHotspot(f, baseline)
      hashDrop == DetectHashDegradation(f, baseline)
      score    == SeverityFromDetections(f, hotspot, hashDrop)
      guarded  == ApplyGuardrails(f, baseline, hotspot,
                                  RecommendActions(hotspot, hashDrop))
  IN  [features        |-> f,
       hotspot         |-> hotspot,
       hashDrop        |-> hashDrop,
       severity        |-> score,
       label           |-> LabelFromScore(score),
       cause           |-> ProbableCause(f, hotspot, hashDrop),
       recommendations |-> guarded.recommendations,
       guardrails      |-> guarded.decisions,
       impact          |-> EstimateImpact(f, baseline, guarded.recommendations)]
===============================================================================
