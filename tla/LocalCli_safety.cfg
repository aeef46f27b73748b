SPECIFICATION Spec
CONSTANTS
  Workspaces = {w1, w2}
  Models = {m1, m2}
  Handlers = {h1, h2, h3}
  MaxAsks = 2
  None = None
  Absent = Absent
  Empty = Empty
  Torn = Torn
SYMMETRY Symmetry
INVARIANTS TypeOK EveryEditIsConfirmed OneConfiguration
