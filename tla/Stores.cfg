SPECIFICATION Spec
CONSTANTS
  PlayerItem = {1, 2, 12}
  DigitMax = 1
  RowMax = 2
  UpdateMax = 2
  RemovedMax = 2
  Conn = {c1, c2}
  Slot = {s1, s2}
  StatCount = {2}
  LineMax = 3
  Faults = {"statement", "crash"}
  None = None
  Item = {i1}
  Replica <- Replicas
  Setting <- Settings
  TabMax = 3
  SizeMod = 16
  Unset = Unset
INVARIANTS
  WebTypeOK RowsAreSound LookupDrift UpdatesArrive
  StoreTypeOK StatsBelong AckedIsWhole
  TabsTypeOK TabsExist ApartByDefault FieldsReturn
PROPERTIES UpdatesGetThrough EveryItemProcessed
