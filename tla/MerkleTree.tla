----------------------------- MODULE MerkleTree -----------------------------
(***************************************************************************)
(* The Merkle tree of winterfell, as the metadata builder and the merkle   *)
(* examples use it: nodes by level, the root, and the path prove(i)        *)
(* returns, which is the leaf and then one sibling per level, from the     *)
(* leaves up.                                                              *)
(***************************************************************************)
EXTENDS RescueCluster, Powers

CONSTANT Depth  \* MERKLE_TREE_DEPTH

ASSUME DepthAssumption == Depth \in Nat \ {0}

Index == 0 .. (Pow2[Depth] - 1)

Nodes(leaves) ==
  LET level[l \in 0 .. Depth] ==
        IF l = 0 THEN leaves
        ELSE [p \in 0 .. (Pow2[Depth - l] - 1) |->
               Merge(level[l - 1][2 * p], level[l - 1][2 * p + 1])]
  IN level

Root(leaves) == Nodes(leaves)[Depth][0]

Beside(p) == IF p % 2 = 0 THEN p + 1 ELSE p - 1

Prove(leaves, i) ==
  [k \in 0 .. Depth |-> IF k = 0 THEN leaves[i]
                        ELSE Nodes(leaves)[k - 1][Beside(i \div Pow2[k - 1])]]
=============================================================================
