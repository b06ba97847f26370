SPECIFICATION Spec
CONSTANTS
  Hours <- MCHours
  Kinds <- MCKinds
  Models <- MCModels
  Limits = {1, 720}
  Overrides <- MCOverrides
  MaxReadings = 3
INVARIANTS
  CriticalHeatCoolsDown
  AdjustmentsAreSafeAndExplained
  InsufficientMeansNoData
CHECK_DEADLOCK FALSE
