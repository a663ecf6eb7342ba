SPECIFICATION ReplaySpec
CONSTANTS
  MaxRuns = 2
  NumWindows = 2
  MaxCommands = 4
  MaxFaults = 1
  Nil = nil
INVARIANTS OneWorker PausedHoldsStill
PROPERTIES EndedStaysEnded CancelledWorkersEnd
CHECK_DEADLOCK FALSE
