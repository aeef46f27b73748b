CONSTANTS
  Paths = {p1, p2}
  Contents = {a, b}
  Writers = {w1, w2}
  Absent = Absent
  None = None
  MaxWrites = 3
  MaxEdits = 1
  MayAbandon = TRUE
SPECIFICATION Spec
SYMMETRY Symmetry
INVARIANTS
  TypeOK
  RestoresFiles
  NoFalseConflict
  UserWorkSurvives
  CleanIsSaved
