CONSTANTS
  MaxIterations = 2
  MaxRepairAttempts = 1
  MaxToolCalls = 1
  MaxCommands = 1
SPECIFICATION Spec
INVARIANT AbortIsCancellation
