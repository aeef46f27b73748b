CONSTANTS
  MaxIterations = 3
  MaxRepairAttempts = 2
  MaxToolCalls = 2
  MaxCommands = 2
SPECIFICATION FairSpec
INVARIANTS
  TypeOK
  OneConsistentTerminal
  FailedRunLeavesNothing
  SuccessIsEarned
  CancellationIsAborted
PROPERTIES
  NothingStartsAfterAbort
  ImplementsContract
  EndsUnlessHung
