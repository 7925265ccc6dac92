----------------------------- MODULE MCOwnership -----------------------------
(* Small clusters for Ownership: two nodes with one boot each, or one node *)
(* whose first boot may be replaced by a second.                           *)
EXTENDS Ownership, TLC

CONSTANTS nodeA, nodeB, bootA1, bootA2, bootB1, s1, s2

MCNodeOf == (bootA1 :> nodeA) @@ (bootB1 :> nodeB)
MCNodeOfOne == (bootA1 :> nodeA) @@ (bootA2 :> nodeA)
MCCapacity == [x \in Boots |-> 1]
MCSymmetry == Permutations(Sessions)
=============================================================================
