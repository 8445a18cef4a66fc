SPECIFICATION FairSpec
CONSTANTS
  Producer = {p1, p2}
  MaxMsg = 5
  MaxConn = 2
  WireCap = 2
  ReplyCap = 1
INVARIANTS TypeOK NoLostWakeup InOnePlace OrderedPerConnection
PROPERTIES EveryMessageLeavesTheDll ImplementsDelivery
