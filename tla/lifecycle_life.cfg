\* A bridge connection that a launch binds; two holders of the seat close or drop it.
CONSTANTS
  Conns = {c1}
  Bridges = {c1}
  Closers = {k1, k2}
  Launchers = {l1}
  Acceptor = acceptor
  NoThread = NoThread
  NoConn = NoConn
SPECIFICATION Spec
INVARIANT BridgesReapedOnReturn
PROPERTIES ShutdownTerminates GoneIsDelisted
