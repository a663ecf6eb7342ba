SPECIFICATION StreamSpec
CONSTANTS
  Replays = {r1}
  OpsStreams = {ops}
  Publishers = {worker, api}
  Sockets = {c1}
  RingSize = 3
  QueueSize = 2
  MaxEvents = 5
  MaxConnects = 2
  Nil = nil
INVARIANTS RingInOrder
PROPERTIES NoSilentGap EndReachesTheClient
CHECK_DEADLOCK FALSE
