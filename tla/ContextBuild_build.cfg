SPECIFICATION Spec
CONSTANTS
  SystemTok = 1200
  ToolTok = 1000
  ToolCount = 10
  Providers <- MCProviders
  Timed = {"timed"}
  Limits = {5600, 8000, 20000}
  Histories <- MCHistories
  CallIds = {"c1", "c2"}
  PromptTok = 40
  AnswerToks = {60, 900}
  ResultToks = {50, 1900}
  WorkspaceTok = 300
  UserTok = 200
  ProvidedTok = 500
  FailureTok = 1000
  Priorities = {1000}
  MaxTurns = 3
INVARIANTS TypeOK ExchangesStayWhole TaskSurvives UnreportedLossless RepairSeesFailure
PROPERTY CollectedUnlessProviderHangs
CHECK_DEADLOCK FALSE
