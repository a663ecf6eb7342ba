SPECIFICATION ServiceSpec
CONSTANTS
  Replicas = {1, 2, 3}
  Keys = {k1}
  None = none
  RepairOp = o0
  QuorumSize = 2
  Substitutes = {}
  PrepareFaults = {"STORAGE_ERROR"}
  EarlyOutcomes = {}
  Coordinators = {c1}
  Owner <- MCOwner
  Versions = {1, 2, 3}
  Ids = {a}
  OpIds = {o0, o1, o2, o3, o4, o5, o6}
  MaxFaults = 1
  Threads = {t1, t2}
  MaxRetries = 2
  MaxAppends = 3
CHECK_DEADLOCK FALSE
INVARIANTS AppendsLand
PROPERTY AppendsReturn
