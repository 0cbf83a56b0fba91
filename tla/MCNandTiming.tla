---------------------------- MODULE MCNandTiming ----------------------------
(* NandTiming on one plane and a short ring of credits. *)
EXTENDS NandTiming

\* Blocks are only compared with each other.
BlockSymmetry == Permutations(Blocks)

=============================================================================
