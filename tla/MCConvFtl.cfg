\* Three logical pages leave seven of ten to spare; with four the write
\* pointers can run out of lines.
CONSTANTS
  NrLines = 5
  PgsPerLine = 2
  Lpns = {p1, p2, p3}
  GcThresLinesHigh = 2
  INVALID_LPN = INVALID_LPN
SPECIFICATION Spec
SYMMETRY LpnSymmetry
INVARIANTS QueueIsHeap LinesAccounted MappedPagesLive NeverOutOfLines
