----------------------------- MODULE MCZmsFtl -----------------------------
(* ZmsFtl on small namespaces. *)
EXTENDS ZmsFtl

\* The pSLC namespace, two zones in use.
Slc == [mapping |-> "PAGE", lines |-> 5, pages |-> 2, groups |-> 1, rowPages |-> 1,
        planes |-> 1, hostZones |-> 0 .. 1, partialReset |-> TRUE, maxDebt |-> 1]

\* The TLC namespace, whose host resets zones it has written out.
Tlc == [Slc EXCEPT !.mapping = "ZONE", !.pages = 3, !.hostZones = 0 .. 3,
                   !.partialReset = FALSE, !.maxDebt = 3]

\* The geometry of ssd_config.h: four planes, two groups of lines that share
\* rows.  Two wordlines a line, one die.
ShippedSlc == [Slc EXCEPT !.lines = 4, !.pages = 8, !.groups = 2, !.rowPages = 4,
                          !.planes = 4, !.hostZones = {0}, !.maxDebt = 8]
ShippedTlc == [ShippedSlc EXCEPT !.mapping = "ZONE", !.partialReset = FALSE,
                                 !.hostZones = 0 .. 2, !.maxDebt = 24]

\* Two groups on dies of one plane.
SharedSlc == [Slc EXCEPT !.lines = 6, !.groups = 2, !.maxDebt = 4]
SharedTlc == [SharedSlc EXCEPT !.mapping = "ZONE", !.partialReset = FALSE, !.hostZones = 0 .. 2]

DualNamespaces    == {Slc, Tlc, ShippedSlc, ShippedTlc, SharedSlc, SharedTlc}
ShippedNamespaces == {ShippedSlc, ShippedTlc}
===========================================================================
