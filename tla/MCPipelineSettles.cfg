CONSTANTS
  Event = {e1}
  Undecodable = {}
  Instance = {i1, i2}
  MaxDeliver = 3
  MaxPublish = 1
  MaxStops = 2
  None = None
SPECIFICATION FairSpec
PROPERTIES
  EveryMessageSettles
CHECK_DEADLOCK FALSE
