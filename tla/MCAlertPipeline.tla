--------------------------- MODULE MCAlertPipeline ---------------------------
(* Instance of AlertPipeline for TLC. *)
EXTENDS AlertPipeline, TLC

Symmetry == Permutations(Instance)
=============================================================================
