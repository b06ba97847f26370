CONSTANTS
  Rack = {"normal", "preferred", "blocked"}
  UnknownRack = "unknown"
  Asset = {"t1", "t2", "b1", "b2", "p1", "p2"}
  Kind <- MCKind
  Path <- MCPath
  TransformerOf <- MCTransformerOf
  Safe <- MCSafe
  SiteOwnSafe = 8
  RackSafe <- MCRackSafe
  ThermalLimit <- MCThermalLimit
  Class <- MCClass
  SafetyLocked = {}
  SiteRampUp = 3
  SiteRampDown = 2
  RackRampUp <- MCRampUp
  RackRampDown <- MCRampDown
  Request = {1, 2, 3}
  Load = {0, 4}
  Delta <- MCDelta
SPECIFICATION Spec
INVARIANTS
  TypeOK
  CapacityRespected
  NetIsLoad
  RampsRespected
  RefusalExplained
  NoPriorityInversion
  SummaryAgrees
CHECK_DEADLOCK FALSE
