SPECIFICATION OrchSpec
CONSTANTS
  OrchestratorIds <- Ids3
  Routes = {a}
  Ids = {i1}
  DispatchIds = {i2}
  Digests = {d1}
  ServiceRequests <- MCServiceRequests
  Dispatches <- MCDispatches
  RequiredQuorum = 2
  HistoryLimit = 1
  DecisionLimit = 1
  MaxAdjudications = 2
  MaxSwitches = 1
  SwitchRounds = 1
  Switchable = {"o3"}
  None = none
INVARIANTS AnswersAreOfThisRound OneUnfinishedCall OneStandingEach ActiveRoundIsKept
PROPERTIES RetainedRoundsStayDecided AdjudicationReturns
CHECK_DEADLOCK FALSE
