\* The user crosses and focuses the window; the app replaces its pointer and destroys objects.
CONSTANTS
  Surfaces = {s1, s2}
  Pointers = {p1, p2}
  Keyboards = {k1}
  TextInputs = {}
  Modifiers = {ctrl, bad, odd}
  NoKeycode = {bad}
  NoMask = {odd}
  MaxCommits = 0
  MaxLength = 2
  UserPointer = TRUE
  UserKeyboard = TRUE
  Destructible = {s1, s2, k1}
  None = None
  Key = Key
  Shift = Shift
SPECIFICATION Spec
SYMMETRY MCSymmetry
INVARIANTS NothingHeld SuccessLanded BeliefIsTruth
