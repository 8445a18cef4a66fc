SPECIFICATION FairSpec
CONSTANTS
  Request = {r1, r2, r3}
  BatchMax = 2
  QueueMax = 3
  Faults = {}
  None = None
PROPERTIES ServedWhileInGame StopEndsTheThread ImplementsRequests
