\* Two threads close or drop the seat while two clients connect.
CONSTANTS
  Conns = {c1, c2}
  Bridges = {}
  Closers = {k1, k2}
  Launchers = {}
  Acceptor = acceptor
  NoThread = NoThread
  NoConn = NoConn
SPECIFICATION Spec
SYMMETRY MCSymmetry
INVARIANTS TypeOK ClosedOnReturn ReapedWhenQuiescent ListedMeansServed
PROPERTIES NoAdmissionAfterReturn ImplementsContract
