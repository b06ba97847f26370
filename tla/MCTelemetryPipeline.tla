------------------------- MODULE MCTelemetryPipeline -------------------------
(* Instance of TelemetryPipeline for TLC. *)
EXTENDS TelemetryPipeline, TLC

Symmetry == Permutations(Instance)
=============================================================================
