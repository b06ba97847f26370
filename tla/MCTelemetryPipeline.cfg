CONSTANTS
  Event = {e1, e2}
  Undecodable = {e2}
  Instance = {i1, i2}
  MaxDeliver = 2
  MaxPublish = 1
  MaxStops = 2
  None = None
SPECIFICATION Spec
INVARIANTS
  TypeOK
  AckedMeansHandled
  ExhaustedMeansTraced
  DeadLetterIsTerminal
SYMMETRY Symmetry
CHECK_DEADLOCK FALSE
