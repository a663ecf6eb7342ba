SPECIFICATION Spec
CONSTANTS
  Replicas = {1, 2, 3}
  Keys = {k1}
  None = none
  RepairOp = o0
  QuorumSize = 2
  Substitutes = {}
  PrepareFaults = {}
  EarlyOutcomes = {}
  Coordinators = {c1}
  Versions = {1}
  Ids = {a, b}
  OpIds = {o0, o1, o2}
  MaxFaults = 1
SYMMETRY Symmetry
CHECK_DEADLOCK FALSE
INVARIANT ForkFree
