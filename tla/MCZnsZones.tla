----------------------------- MODULE MCZnsZones -----------------------------
(* ZnsZones on small namespaces: the instance is in the .cfg file.         *)
EXTENDS ZnsZones, TLC

\* Behind the descriptors: zeroed memory, which reads as an address inside
\* the namespace; and what one more zone of the table would look like, empty
\* or with one LBA left, closed, full and in no state at all.
MCBehind ==
  LET Further(s, cap) == [state |-> s, wp |-> NrZones * ZoneSize,
                          zslba |-> NrZones * ZoneSize, zone_capacity |-> cap]
  IN  {[state |-> "NONE", wp |-> 0, zslba |-> 0, zone_capacity |-> 0],
       Further("EMPTY", ZoneCapacity), Further("EMPTY", 1),
       Further("CLOSED", ZoneCapacity), Further("FULL", ZoneCapacity),
       Further("NONE", 1)}

Symmetry == Permutations(Queues)
=============================================================================
