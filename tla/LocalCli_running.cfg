SPECIFICATION Spec
CONSTANTS
  Workspaces = {w1, w2}
  Models = {m1, m2}
  Handlers = {h1}
  MaxAsks = 2
  None = None
  Absent = Absent
  Empty = Empty
  Torn = Torn
PROPERTY NoChangeWhileRunning
