\* A slot holds three entries, fewer than the chunks and pages that
\* compete for it; chunk, sub-zone and zone entries can pin all of it.
CONSTANTS
  NrZones <- MCNrZones
  PgsPerZone <- MCPgsPerZone
  PgsPerSubZone = 4
  PgsPerChunk = 2
  NumSlots = 2
  SlotSize = 3
SPECIFICATION Spec
INVARIANTS IndexFindsEntry GranularityAgrees ChainIsWhole
PROPERTIES ImplementsLru
