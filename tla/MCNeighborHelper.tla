--------------------------- MODULE MCNeighborHelper ---------------------------
(* Two places out of each other's range: nodes meet when they are at the same. *)
EXTENDS NeighborHelper, TLC

CONSTANTS n1, n2, here, there

MCNodes == {n1, n2}
MCNear == {<<p, p>> : p \in Places}
MCSymmetry == Permutations(MCNodes) \cup Permutations(Places)
===============================================================================
