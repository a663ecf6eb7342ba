SPECIFICATION RoundSpec
CONSTANTS
  Orchestrators = {o1, o2, o3}
  Strangers = {x}
  Routes = {a, b}
  OtherRoutes = {c}
  Rounds = {r1, r2}
  MessageIds = {m1}
  VoteValues = {"APPROVE", "REJECT"}
  RequiredQuorum = 2
  CacheLimit = 2
  NoDigest = none
  NoDecision = undecided
SYMMETRY Symmetry
INVARIANTS QuorumIsAuthentic QuorumIsTheOnlyOne DecisionMatchesVotes
PROPERTY RoundsOnlyGrow
