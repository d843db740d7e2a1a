\* Two keys, two at a time, and a ring of three entries (two codes fit).
SPECIFICATION Spec
CONSTANTS
  Keys = {a, b}
  Mark = mark
  MaxDown = 2
  KEYCODEBUFSIZE = 3
  Overlap = FALSE
  Replug = TRUE
SYMMETRY Symmetry
INVARIANTS
  KeysAreRead
  StatusIsReport
