\* Three intervals of two units: transfers run over the end of an interval and
\* of the ring, and the clock goes once round the ring.  Three commands queue
\* at a plane: a host command, and migrations before and behind it.
CONSTANTS
  NrCreditEntries = 3
  UnitTimeInterval = 1
  MaxCredits = 2
  XferLat = 1
  Planes = {p1}
  Blocks = {b1, b2}
  PgRdLat = 1
  PgWrLat = 1
  BlkErLat = 2
  MaxUnits = 3
  MaxTime = 3
  MaxQueue = 3
SYMMETRY BlockSymmetry
SPECIFICATION Spec
INVARIANTS OneCommandAtATime MigrationIsKnown
PROPERTIES ImplementsWindow
