------------------------------ MODULE MCKvFtl ------------------------------
(* KvFtl on a table of colliding keys. *)
EXTENDS KvFtl, TLC

CONSTANTS k1, k2, k3

\* Two keys collide, and the slot they spill over to is the third one's own.
Collisions == (k1 :> 0) @@ (k2 :> 0) @@ (k3 :> 1)
\* The filters of an iteration.
TwoKeys == {{k2, k3}}

DataSymmetry == Permutations(Data)

=============================================================================
