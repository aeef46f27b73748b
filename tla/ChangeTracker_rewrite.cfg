CONSTANTS
  Paths = {p1}
  Contents = {a, b}
  Writers = {w1}
  Absent = Absent
  None = None
  MaxWrites = 2
  MaxEdits = 0
  MayAbandon = FALSE
SPECIFICATION Spec
SYMMETRY Symmetry
INVARIANT RestoresFirstState
