\* The launching thread ends before the harness's process does.
CONSTANTS
  Launchers = {l1}
  Wrappers = {}
  ThreadsEnd = TRUE
  Displays = {10}
  None = None
SPECIFICATION Spec
INVARIANT KilledOnlyByStop
CHECK_DEADLOCK FALSE
