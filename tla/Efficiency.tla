------------------------------ MODULE Efficiency ------------------------------
(***************************************************************************)
(* The energy efficiency and thermal model of the miners: the baseline of  *)
(* each model, J/TH and its compensation by the ambient temperature, and   *)
(* the thermal bands (internal/efficiency/model.go).                       *)
(*                                                                         *)
(* Quantities are integers in hundredths of their unit (celsius, watts,    *)
(* TH/s, rpm, J/TH), divisions round down.  Ambient temperatures are whole *)
(* degrees, and compensation factors are in ten-thousandths.               *)
(***************************************************************************)
EXTENDS Integers

Unit == 100

\* The baseline of a miner model; a model that is not in the table has the
\* default one.
BaselineForModel(model) ==
  CASE model = "S21"   -> [nominalJTH |-> 1780, optimalMin |-> 55 * Unit,
                           optimalMax |-> 78 * Unit, elevatedMax |-> 88 * Unit,
                           hotspot |-> 95 * Unit, ambientReference |-> 25,
                           ambientPenalty |-> 40]
    [] model = "S19XP" -> [nominalJTH |-> 2130, optimalMin |-> 55 * Unit,
                           optimalMax |-> 76 * Unit, elevatedMax |-> 86 * Unit,
                           hotspot |-> 93 * Unit, ambientReference |-> 25,
                           ambientPenalty |-> 45]
    [] model = "M50"   -> [nominalJTH |-> 2800, optimalMin |-> 54 * Unit,
                           optimalMax |-> 75 * Unit, elevatedMax |-> 85 * Unit,
                           hotspot |-> 92 * Unit, ambientReference |-> 25,
                           ambientPenalty |-> 50]
    [] OTHER           -> [nominalJTH |-> 2650, optimalMin |-> 55 * Unit,
                           optimalMax |-> 80 * Unit, elevatedMax |-> 90 * Unit,
                           hotspot |-> 95 * Unit, ambientReference |-> 25,
                           ambientPenalty |-> 40]

Clamp(value, low, high) ==
  IF value < low THEN low ELSE IF value > high THEN high ELSE value

ComputeJTH(powerWatts, hashrateTHs) ==
  IF powerWatts <= 0 \/ hashrateTHs <= 0
  THEN 0
  ELSE (powerWatts * Unit) \div hashrateTHs

\* A hot room excuses part of the consumption, a cold one adds to it; the
\* factor stays between 0.5 and 1.8.
CompensateJTH(rawJTH, ambient, baseline) ==
  LET factor == 10000 + (ambient - baseline.ambientReference)
                          * baseline.ambientPenalty
  IN  IF rawJTH <= 0 THEN 0
      ELSE (rawJTH * 10000) \div Clamp(factor, 5000, 18000)

\* Band limits belong to the cooler band: exactly the hotspot temperature is
\* still "warning".
ClassifyThermalBand(temp, baseline) ==
  CASE temp < baseline.optimalMin   -> "cold"
    [] temp \in baseline.optimalMin .. baseline.optimalMax -> "optimal"
    [] temp \in (baseline.optimalMax + 1) .. baseline.elevatedMax -> "elevated"
    [] temp \in (baseline.elevatedMax + 1) .. baseline.hotspot -> "warning"
    [] OTHER -> "hotspot"

\* Change in hundredths of a percent.
DeltaPct(value, reference) ==
  IF value <= 0 \/ reference <= 0
  THEN 0
  ELSE ((value - reference) * 10000) \div reference

\* The ambient temperature a reading's tags carry, if any.
NoAmbient == -100

ParseAmbient(tagged, fallback) ==
  IF tagged = NoAmbient THEN fallback ELSE tagged
===============================================================================
