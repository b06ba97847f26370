CONSTANTS
  Instance = {i1, i2}
  Rule = {1}
  Firing = {{1}}
  Time = {0, 1}
  Window = 1
  WorkerCount = 1
  QueueSize = 1
  MaxRetries = 2
  MaxEvents = 3
  None = None
SPECIFICATION Spec
INVARIANTS
  TypeOK
  SuppressionFollowsDetections
  AuditAgrees
  NoSilentLoss
SYMMETRY Symmetry
CHECK_DEADLOCK FALSE
