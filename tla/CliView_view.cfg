SPECIFICATION ViewSpec
CONSTANTS
  MaxEvents = 6
  MaxRequests = 2
  CallIds = {"t"}
  MaxDirect = 1
  MaxRows = 2
  MaxText = 1
INVARIANTS ViewTypeOK StreamIsTheRun ViewTellsTheRun TimelineInOrder
CHECK_DEADLOCK FALSE
