SPECIFICATION Spec
CONSTANTS
  Inventories <- MCInventories
  Configs <- MCConfigs
  Keys = {"k1", "k2"}
  Times = {"now", "window"}
  Readings <- MCReadings
  Overrides = {40, 1000}
  Targets = {1, 3}
  Deltas <- MCDeltas
  Histories <- MCHistories
  Days <- MCDays
  RackLimit = 1
  MaxRequests = 1
  MaxTelemetry = 2
  NoAmbient = 1000
  NoId = 0
  Everything = Everything
INVARIANTS
  AdviceIsSound
  HeadroomIsReal
  EvidenceMatches
  LoadsAtLeastAsFresh
  RiskSeesOverload
  ReplayIsFeasible
CHECK_DEADLOCK FALSE
