SPECIFICATION Spec
CONSTANTS
  Types = {alpha, beta}
  Fns = {f}
  Wildcard = Wildcard
  MaxHistorySize = 2
  MaxEmits = 4
  MaxRegs = 2
  MaxDepth = 2
SYMMETRY Symmetry
INVARIANTS TypeOK SubscribersHear HistoryInOrder
