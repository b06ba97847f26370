---------------------------- MODULE MCMinerReport ----------------------------
(* Readings of a healthy, a degraded, a warm, a hot and a freezing miner. *)
EXTENDS MinerReport

Reading(hash, power, temp, fan, ambient) ==
  [hash |-> hash, power |-> power, temp |-> temp, fan |-> fan, ambient |-> ambient]

MCKinds == { Reading(190, 3400, 70, 6000, NoAmbient),
             Reading(120, 3500, 79, 6000, 25),
             Reading(180, 3500, 91, 6900, 40),
             Reading(150, 3450, 96, 7200, NoAmbient),
             Reading(190, 3400, -35, 6000, NoAmbient) }
MCHours == 1 .. 3
MCModels == {"S21", "S19XP", "M50", "T21"}
MCOverrides == {NoAmbient, 45}
===============================================================================
