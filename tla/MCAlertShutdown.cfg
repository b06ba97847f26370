CONSTANTS
  Instance = {i1}
  Rule = {1, 2}
  Firing = {{1, 2}}
  Time = {0}
  Window = 1
  WorkerCount = 2
  QueueSize = 1
  MaxRetries = 2
  MaxEvents = 1
  None = None
SPECIFICATION FairSpec
PROPERTIES
  AcceptedJobsConclude
  ShutdownEnds
CHECK_DEADLOCK FALSE
