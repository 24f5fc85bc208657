\* The agent drives an app with two surfaces and two text inputs; the user's keyboard
\* focus comes and goes.
CONSTANTS
  Surfaces = {s1, s2}
  Pointers = {p1}
  Keyboards = {k1}
  TextInputs = {t1, t2}
  Modifiers = {ctrl}
  NoKeycode = {}
  NoMask = {}
  MaxCommits = 2
  MaxLength = 1
  UserPointer = FALSE
  UserKeyboard = TRUE
  Destructible = {}
  None = None
  Key = Key
  Shift = Shift
SPECIFICATION Spec
SYMMETRY MCSymmetry
INVARIANTS TypeOK  TextLanded 
PROPERTY KeysFollowClick
