SPECIFICATION FairSpec
CONSTANTS
  Item = {i1}
  File = {f1, f2}
  Mode = {sc, hc}
  TwoTabs = {sc}
  IA = IA
  Listener = {t1, t2}
  MaxCopies = 1
  Faults = {}
  None = None
PROPERTIES EveryFileIsHandled
