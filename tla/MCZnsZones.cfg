\* Two zones of which every LBA can be written, as in both dual namespaces,
\* so that an append to a written-out zone lands in the next one; two
\* submission queues compete for the zones.
CONSTANTS
  NrZones = 2
  ZoneSize = 3
  ZoneCapacity = 3
  MaxNlb = 2
  Queues = {q1, q2}
  Behind <- MCBehind
  None = None
SYMMETRY Symmetry
SPECIFICATION Spec
INVARIANTS TypeOK ResourceAccounting WritePointerMatchesState LimitsNeverBind
PROPERTIES RefusalLeavesNoTrace WritePointerMoves FullUntilReset
