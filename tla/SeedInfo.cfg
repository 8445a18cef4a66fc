SPECIFICATION Spec
CONSTANTS
  Request = {r1, r2}
  BatchMax = 2
  QueueMax = 3
  Faults = {"delete", "partial", "malformed", "throw", "move", "listing"}
  None = None
SYMMETRY Symmetry
INVARIANTS TypeOK RampExcluded RequestConserved
