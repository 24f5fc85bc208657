\* One launch of a program that hands over to another process, from a thread that ends early.
CONSTANTS
  Launchers = {l1}
  Wrappers = {l1}
  ThreadsEnd = TRUE
  Displays = {10, 11}
  None = None
SPECIFICATION FairSpec
PROPERTIES LaunchReturns CloseEndsBridges
CHECK_DEADLOCK FALSE
