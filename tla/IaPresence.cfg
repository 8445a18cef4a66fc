SPECIFICATION FairSpec
CONSTANTS
  Producer = {p1}
  MaxMsg = 2
  MaxConn = 2
  WireCap = 1
  ReplyCap = 1
PROPERTIES IaClosedIsNoticed
