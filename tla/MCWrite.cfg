SPECIFICATION Spec
CONSTANTS
  Replicas = {1, 2, 3}
  Keys = {k1}
  None = none
  RepairOp = o0
  QuorumSize = 2
  Substitutes = {a, b}
  PrepareFaults = {"UNAVAILABLE", "STORAGE_ERROR", "REJECT_INTEGRITY", "REJECT_SCHEMA"}
  EarlyOutcomes = {"REJECTED_AUTHORIZATION", "REJECTED_SCHEMA"}
  Coordinators = {c1, c2}
  Versions = {1, 2}
  Ids = {a, b}
  OpIds = {o0, o1, o2}
  MaxFaults = 1
SYMMETRY Symmetry
CHECK_DEADLOCK FALSE
INVARIANTS CommittedIsDurable CommittedAgreement RejectedWritesCommitNothing FailedStorageCommitsNothing NoStrandedStaging
PROPERTY ImplementsRegister
