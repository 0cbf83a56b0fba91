\* Fewer entries than operations, so that entries are reused and run out; two operations outstanding at a time.
CONSTANTS
  NrEntries = 4
  QueueDepth = 2
  NrOps = 5
  MaxTime = 2
  MaxDelay = 2
SPECIFICATION Spec
CHECK_DEADLOCK FALSE
INVARIANTS ListsIntact PostedOnce ReclaimedWerePosted InversionsAreDue
PROPERTIES EveryOpIsPosted
