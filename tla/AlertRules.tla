------------------------------ MODULE AlertRules ------------------------------
(***************************************************************************)
(* The rules that turn one telemetry event into alerts                     *)
(* (internal/alerts/rules.go).  An event carries temperature (celsius),    *)
(* power (watts), hashrate (TH/s), its status and the miner model of its   *)
(* tags, all whole units; thresholds are compared in hundredths.           *)
(***************************************************************************)
EXTENDS Integers

\* Nominal hashrate and power of the models the rules know; the table is
\* apart from the efficiency baselines.
ModelProfile(model) ==
  CASE model = "S19XP" -> [hashrate |-> 141, power |-> 3010]
    [] model = "S21"   -> [hashrate |-> 200, power |-> 3550]
    [] model = "M50"   -> [hashrate |-> 120, power |-> 3300]
    [] OTHER           -> [hashrate |-> 120, power |-> 3200]

Alert(rule, severity) == [rule |-> rule, severity |-> severity]

\* Each rule yields no alert or one.
Overheat(event) ==
  IF event.temp < 90 THEN {}
  ELSE {Alert("overheat",
              IF event.temp >= 95 \/ event.status = "critical"
              THEN "critical" ELSE "warning")}

PowerSpike(event) ==
  LET nominal == ModelProfile(event.model).power
  IN  IF event.power * 100 < nominal * 120 THEN {}
      ELSE {Alert("power_spike",
                  IF event.power * 100 >= nominal * 135
                  THEN "critical" ELSE "warning")}

HashrateDrop(event) ==
  LET nominal == ModelProfile(event.model).hashrate
  IN  IF event.hash * 100 >= nominal * 70 THEN {}
      ELSE {Alert("hashrate_drop",
                  IF event.hash * 100 <= nominal * 50 \/ event.status = "critical"
                  THEN "critical" ELSE "warning")}

Evaluate(event) == Overheat(event) \cup PowerSpike(event) \cup HashrateDrop(event)
===============================================================================
