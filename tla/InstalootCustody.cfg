SPECIFICATION Spec
CONSTANTS
  Item = {i1}
  File = {f1, f2}
  Mode = {sc, hc}
  TwoTabs = {sc, hc}
  IA = IA
  Listener = {t1, t2}
  MaxCopies = 2
  Faults = {}
  None = None
INVARIANTS NoDamage ActiveHasListener
PROPERTIES ImplementsCustody
