\* Three processes on two pids, two calling threads in one of them, two seats.
CONSTANTS
  Hosts = {h1, h2, h3}
  Pids = {p1, p2}
  Threads = {t1, t2, t3, t4}
  Seats = {s1, s2}
  h1 = h1
  h2 = h2
  h3 = h3
  t1 = t1
  t2 = t2
  t3 = t3
  t4 = t4
  HostOf <- MCHostOf
  None = None
SPECIFICATION Spec
SYMMETRY MCSymmetry
INVARIANTS TypeOK ServingSeatHasFile FilesAreServed StaleFilesRemoved OneSingleton
CHECK_DEADLOCK FALSE
