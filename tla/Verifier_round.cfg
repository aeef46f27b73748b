CONSTANTS
  NumCalls = 2
  HasTimeout = TRUE
  MaxStreams = 2
  Kinds = {"bash", "grep", "glob", "fetch", "read", "write", "edit", "custom"}
  MaxCommands = 2
  Does <- MCDoes
  Flags <- MCFlags
  Profiles <- MCProfiles
SPECIFICATION RoundSpec
INVARIANTS
  VerifierTypeOK
  CallsAreReported
  GivenUpIsStopped
  OnlyHarmlessCommandsRun
  VerdictIsEarned
PROPERTIES
  NothingBegunAfterGivingUp
  EveryCallReturns
