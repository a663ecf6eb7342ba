SPECIFICATION SessionSpec
CONSTANTS
  Devices = {1, 2}
  Protected = {1, 2}
  Sensors = {1}
  WindowTicks = 4
  Tolerance = 2
  Quantum = 2
  EdgeCapacity = 2
  ChunkRows = 2
  FanIn = 2
  RawFiles <- Files
  Lateness = {0, 3}
  BufferRows = 3
  MaxStarts = 2
  MaxDiskErrors = 1
INVARIANTS NoLitter ReplayIsChronological GraphCountsThePackets
PROPERTIES MarkedWhenWhole
CHECK_DEADLOCK FALSE
