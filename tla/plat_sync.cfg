\* One thread deletes while others wait; one count is refused.
CONSTANTS
  Threads = {t1, t2, t3}
  None = None
  Blocks = {b1, b2}
  MaxCount = 2
  Counts = {0, 2, 3}
  MaxDepth = 2
SYMMETRY MCSymmetry
SPECIFICATION Spec
INVARIANTS
  SyncTypeOK
  HandlesMatch
  NoDangling
  StatusesTruthful
PROPERTIES
  ActsAsObjects
