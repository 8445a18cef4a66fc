SPECIFICATION Spec
CONSTANTS
  Item = {i1}
  File = {f1, f2}
  Mode = {sc, hc}
  TwoTabs = {sc, hc}
  IA = IA
  Listener = {t1}
  MaxCopies = 1
  Faults = {}
  None = None
PROPERTIES DepositsIntoItsMode
