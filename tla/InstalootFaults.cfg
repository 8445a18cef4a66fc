SPECIFICATION Spec
CONSTANTS
  Item = {i1}
  File = {f1, f2}
  Mode = {sc}
  TwoTabs = {sc}
  IA = IA
  Listener = {t1, t2}
  MaxCopies = 2
  Faults = {"move", "persist", "create", "partial", "crash", "convert", "listing"}
  None = None
SYMMETRY Symmetry
INVARIANTS TypeOK Conservation NoForgottenFile
PROPERTIES ImplementsCustody
