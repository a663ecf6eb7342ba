SPECIFICATION WorkflowSpec
CONSTANTS
  Devices = {1, 2, 3}
  Sensors = {1}
  Attackers = {3}
  Topology <- Line
  Unit = 512
  Traffic <- Fading
  NetScores = {128, 512}
  BehScores = {512}
  NumWindows = 2
  StatesLimit = 1
  ActionsLimit = 1
  CacheLimit = 1
  Retriers = {"retrier"}
  MaxFeedback = 1
  MaxFailures = 1
  None = none
INVARIANTS ActionsHaveTheirChain AlarmsAreBlocked OneDecisionPerEntity
  CompletedWindowsAreWhole FeedbackIsBound
CHECK_DEADLOCK FALSE
