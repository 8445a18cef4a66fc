SPECIFICATION WebSpec
CONSTANTS
  PlayerItem = {1, 2, 12}
  DigitMax = 1
  RowMax = 2
  UpdateMax = 2
  RemovedMax = 2
INVARIANT LookupExact
