\* Two surfaces of one app, one buffer at a time, pools that grow and shrink.
CONSTANTS
  Surfaces = {s1, s2}
  Buffers = {b1}
  Pools = {p1}
  Files = {f1, f2}
  IntMax = 64
  Sizes <- MCSizes
  Layouts <- MCLayouts
  MaxCommits = 1
  None = None
SPECIFICATION Spec
SYMMETRY MCSymmetry
INVARIANTS TypeOK ReadsInsideFile LargestIsCaptured ShownIsReadable
PROPERTY FrameOutlivesBuffer
