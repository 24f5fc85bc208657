\* One holder of the seat, two connections: whichever thread runs Drop, everything ends.
CONSTANTS
  Conns = {c1, c2}
  Bridges = {}
  Closers = {k1}
  Launchers = {}
  Acceptor = acceptor
  NoThread = NoThread
  NoConn = NoConn
SPECIFICATION Spec
PROPERTY DropReleases
