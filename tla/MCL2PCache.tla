---------------------------- MODULE MCL2PCache ----------------------------
(***************************************************************************)
(* Instances of L2PCache for TLC.  Chunks divide sub-zones and sub-zones   *)
(* divide zones, as they do in the source's configuration.                 *)
(***************************************************************************)
EXTENDS L2PCache

PerNamespace(slc, tlc) == [ns \in Namespaces |-> IF ns = SLC THEN slc ELSE tlc]

MCNrZones    == PerNamespace(1, 1)
MCPgsPerZone == PerNamespace(4, 8)
=============================================================================
