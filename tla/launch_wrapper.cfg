\* A program whose first process exits once it has started the real one.
CONSTANTS
  Launchers = {l1}
  Wrappers = {l1}
  ThreadsEnd = FALSE
  Displays = {10}
  None = None
SPECIFICATION Spec
INVARIANT TransportTruthful
CHECK_DEADLOCK FALSE
