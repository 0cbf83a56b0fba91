\* More zones than buffers; a write can fill a buffer.
CONSTANTS
  NrZones = 3
  PgsPerZone = 2
  NrWb = 2
  WbPgs = 2
  NrSq = 2
  MaxPgs = 2
SPECIFICATION WbSpec
INVARIANTS BuffersHoldTheTail BusyUntilReleased OneBufferPerZone
PROPERTIES FlushLeavesNothing SomeCommandIsAnswered
