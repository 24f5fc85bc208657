\* Two launches on one seat, after one another or at the same time.
CONSTANTS
  Launchers = {l1, l2}
  Wrappers = {}
  ThreadsEnd = FALSE
  Displays = {10, 11}
  None = None
SPECIFICATION Spec
SYMMETRY MCSymmetry
INVARIANTS TypeOK NothingOrphaned RunsOnce BoundToOwn OwnDisplay
CHECK_DEADLOCK FALSE
