------------------------------- MODULE Replay -------------------------------
(***************************************************************************)
(* The historical replay of a day and the shadow pilot                     *)
(* (orchestrator.RunHistoricalReplay and RunShadowPilot): a day is a       *)
(* sequence of buckets, a bucket a function from the racks that sent       *)
(* telemetry to what was measured there and the rack's profile.  Two       *)
(* policies are replayed, each bucket from where the ramps let the one     *)
(* before it arrive; the pilot judges what they would have decided.        *)
(*                                                                         *)
(* Averages over the day and differences in per cent are left out.         *)
(***************************************************************************)
EXTENDS SiteOverview

Policies ==
  [priority_balanced  |-> [capacityPct |-> 100, softLimit |-> 88,
                           upPct |-> 100, downPct |-> 100],
   protective_thermal |-> [capacityPct |-> 95, softLimit |-> 84,
                           upPct |-> 75, downPct |-> 150]]

Lesser(a, b) == IF a < b THEN a ELSE b
Sum(f) == SumFunction(f)

(* A record or function with those fields of another that it does not      *)
(* have: @@, in a form the provers can expand.                             *)
Join(f, g) ==
  [x \in DOMAIN f \cup DOMAIN g |-> IF x \in DOMAIN f THEN f[x] ELSE g[x]]

Isolated(p) == p.locked \/ p.class = "safety_blocked"
LoadsOf(points) == [r \in DOMAIN points |-> points[r].load]

AverageAmbient(points) ==
  Sum([r \in DOMAIN points |-> points[r].ambient])
    \div Cardinality(DOMAIN points)

(* How far the observed load of a bucket is above what the site may draw.  *)
Overage(site, capacityPct, points) ==
  LET safe == SiteSafeCapacityForAmbient(site, AverageAmbient(points))
  IN Larger(Sum(LoadsOf(points)) - Percent(safe, capacityPct), 0)

(* The racks of a bucket in the order of curtailment. *)
Ranking(points) ==
  LET racks == DOMAIN points
      Rank(x) == CurtailmentPriority(points[x].class)
      Before(r, s) == \/ Rank(r) < Rank(s)
                      \/ Rank(r) = Rank(s) /\ r < s
  IN {x \in racks \X racks : Before(x[1], x[2])}

(* An isolated rack is left nothing, the others give up the overage.  What *)
(* the isolated ones drew is not taken off the overage.                    *)
Cut(points, acc, r) ==
  LET cut == IF Isolated(points[r]) THEN 0
             ELSE Lesser(acc.overage, points[r].load)
  IN [overage |-> acc.overage - cut,
      load |-> [acc.load EXCEPT ![r] = IF Isolated(points[r]) THEN 0
                                       ELSE @ - cut]]

(* What is left of the overage, and to each rack, after each of them.      *)
Cuts(points, overage, order) ==
  LET acc[n \in 0 .. Len(order)] ==
        IF n = 0 THEN [overage |-> overage, load |-> LoadsOf(points)]
        ELSE Cut(points, acc[n - 1], order[n])
  IN acc

LeftByPolicy(site, policy, points) ==
  LET order == InOrder(DOMAIN points, Ranking(points))
  IN Cuts(points, Overage(site, policy.capacityPct, points), order)
       [Len(order)].load

(* No more than keeps the rack's temperature at the soft limit, taken to   *)
(* rise from ambient in proportion to the load.                            *)
Cooled(policy, p, wanted) ==
  LET rise == p.temp - p.ambient
      allowed == Larger(policy.softLimit - p.ambient, 0)
  IN IF rise > 0 /\ wanted > 0 /\ allowed < rise
     THEN Lesser(wanted, (p.load \div rise) * allowed) ELSE wanted

(* Mutant of ApplyRamp: without a limit a load does not fall either. *)
ApplyRampSymmetric(previous, desired, up, down) ==
  CASE desired > previous -> Lesser(desired, previous + up)
    [] desired < previous -> Larger(desired, previous - down)
    [] desired = previous -> desired

(* A limit of zero forbids a rise and leaves a fall free. *)
ApplyRamp(previous, desired, up, down) ==
  CASE desired > previous /\ up > 0 -> Lesser(desired, previous + up)
    [] desired > previous /\ up <= 0 -> previous
    [] desired < previous /\ down > 0 -> Larger(desired, previous - down)
    [] OTHER -> desired

(* The ramps of a rack under a policy; those of the telemetry point come   *)
(* first.                                                                  *)
RampsOf(site, policy, p) ==
  IF p.locked THEN [up |-> 0, down |-> p.load]
  ELSE [up |-> IF p.rampUp > 0 THEN p.rampUp
               ELSE Percent(site.rampUp, policy.upPct),
        down |-> IF p.rampDown > 0 THEN p.rampDown
                 ELSE Percent(site.rampDown, policy.downPct)]

(* The load of each rack in the bucket, with the load it came from and its *)
(* ramps.  A rack starts from its observed load.                           *)
ReplayBucket(site, policy, previous, points) ==
  LET curtailed == LeftByPolicy(site, policy, points)
      One(r) ==
        LET p == points[r]
            wanted == Cooled(policy, p, curtailed[r])
            ramps == RampsOf(site, policy, p)
            before == IF r \in DOMAIN previous THEN previous[r] ELSE p.load
        IN [ramps |-> ramps, before |-> before,
            load |-> Larger(ApplyRamp(before, wanted, ramps.up, ramps.down),
                            0)]
  IN [r \in DOMAIN points |-> One(r)]

(* The buckets in order; a rack without telemetry keeps the load it was    *)
(* replayed to.                                                            *)
Replayed(site, policy, day) ==
  LET acc[n \in 0 .. Len(day)] ==
        IF n = 0 THEN [previous |-> <<>>, bucket |-> <<>>]
        ELSE LET previous == acc[n - 1].previous
                 bucket == ReplayBucket(site, policy, previous, day[n])
             IN [previous |-> Join([r \in DOMAIN bucket |-> bucket[r].load],
                                   previous),
                 bucket |-> bucket]
  IN acc

(* simulateReplayScenario *)
Simulate(site, policy, day) ==
  LET replayed == Replayed(site, policy, day)
  IN [i \in DOMAIN day |-> replayed[i].bucket]
-----------------------------------------------------------------------------
(* What a day comes to. *)

Outcome(load, hash, temp) == [load |-> load, hash |-> hash, temp |-> temp]
ObservedOutcome(p) == Outcome(p.load, p.hash, p.maxTemp)
(* Hashrate and temperature follow the load in proportion.                 *)
ReplayedOutcome(p, load) ==
  LET pct == IF p.load > 0 THEN load \div (p.load \div 100) ELSE 0
  IN Outcome(load, (p.hash * pct) \div 100,
             p.ambient + ((p.maxTemp - p.ambient) * pct) \div 100)

EstimateAlerts(p, outcome) ==
  Cardinality({rule \in {"overheat", "power_spike", "hashrate_drop"} :
    CASE rule = "overheat" -> outcome.temp >= 90
      [] rule = "power_spike" ->
           p.nominalPower > 0 /\ outcome.load >= Percent(p.nominalPower, 120)
      [] rule = "hashrate_drop" ->
           p.nominalHash > 0 /\ 100 * outcome.hash < 70 * p.nominalHash})

Metrics(day, outcomes) ==
  LET Total(i) == Sum([r \in DOMAIN day[i] |-> outcomes[i][r].load])
      Alerts(i) == Sum([r \in DOMAIN day[i] |->
                          EstimateAlerts(day[i][r], outcomes[i][r])])
  IN [peak |-> Max({0} \cup {Total(i) : i \in DOMAIN day}),
      maxTemp |-> Max({0} \cup UNION {{outcomes[i][r].temp :
                         r \in DOMAIN day[i]} : i \in DOMAIN day}),
      alerts |-> MapThenSumSet(Alerts, DOMAIN day)]

(* The buckets are kept beside the metrics that are made of them.          *)
RunHistoricalReplay(site, day) ==
  LET buckets == [name \in DOMAIN Policies |->
                    Simulate(site, Policies[name], day)]
      Outcomes(name) ==
        [i \in DOMAIN day |-> [r \in DOMAIN day[i] |->
           ReplayedOutcome(day[i][r], buckets[name][i][r].load)]]
  IN [observed |-> Metrics(day, [i \in DOMAIN day |->
                     [r \in DOMAIN day[i] |-> ObservedOutcome(day[i][r])]]),
      scenarios |-> [name \in DOMAIN Policies |-> Metrics(day, Outcomes(name))],
      buckets |-> buckets]
-----------------------------------------------------------------------------
(* The shadow pilot. *)

Gaps(p) ==
  {gap \in {"missing_ambient", "missing_nominal_reference",
            "sensor_hashrate_error"} :
     CASE gap = "missing_ambient" -> p.ambient = 0
       [] gap = "missing_nominal_reference" ->
            p.nominalHash <= 0 \/ p.nominalPower <= 0
       [] gap = "sensor_hashrate_error" -> p.hash <= 0 /\ p.load > 0}

(* Whether the sacrificial load of a bucket is less than its overage.      *)
WouldEscalate(site, points) ==
  LET pool == {r \in DOMAIN points : points[r].class = "sacrificable_load"}
  IN Sum([r \in pool |-> points[r].load]) < Overage(site, 100, points)

(* The pilot's verdict on a day, given its replay.                         *)
Verdict(site, day, replay) ==
  LET at == UNION {{<<i, r>> : r \in DOMAIN day[i]} : i \in DOMAIN day}
      Point(x) == day[x[1]][x[2]]
      locked == {x \in at : Point(x).locked /\ Point(x).load > 0}
      over == {i \in DOMAIN day : Overage(site, 100, day[i]) > 0}
      escalated == {i \in over : WouldEscalate(site, day[i])}
      avoided == \E name \in DOMAIN Policies :
                   replay.scenarios[name].alerts < replay.observed.alerts
  IN [replay |-> replay,
      evaluated |-> Cardinality(locked) + Cardinality(over),
      correct |-> Cardinality(locked) + Cardinality(over \ escalated)
                    + (IF avoided THEN 1 ELSE 0),
      escalated |-> Cardinality(escalated),
      blocked |-> Cardinality({x \in at :
                     Gaps(Point(x)) \ {"sensor_hashrate_error"} # {}}),
      missing |-> MapThenSumSet(LAMBDA x : Cardinality(Gaps(Point(x))), at)]

RunShadowPilot(site, day) ==
  Verdict(site, day, RunHistoricalReplay(site, day))
=============================================================================
