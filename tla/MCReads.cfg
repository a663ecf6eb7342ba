SPECIFICATION ReadsSpec
CONSTANTS
  Replicas = {1, 2, 3}
  Keys = {k1}
  None = none
  RepairOp = o0
  QuorumSize = 2
  Substitutes = {}
  PrepareFaults = {}
  EarlyOutcomes = {}
  Coordinators = {c1}
  Readers = {x1}
  Versions = {1, 2}
  Ids = {a}
  OpIds = {o0, o1, o2}
  MaxFaults = 1
  RepairTargets = {{1, 2, 3}}
  MaxReads = 2
  MaxTampered = 0
SYMMETRY Symmetry
CHECK_DEADLOCK FALSE
INVARIANTS NeverReadBackwards HistoryGapFree
PROPERTY ForwardOnly
