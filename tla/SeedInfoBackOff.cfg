SPECIFICATION FairSpec
CONSTANTS
  Request = {r1}
  BatchMax = 1
  QueueMax = 1
  Faults = {}
  None = None
PROPERTIES BackOffEnds
