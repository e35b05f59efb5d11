------------------------- MODULE MCMerkleUpdateAir -------------------------
(* A field of two elements, trees of four leaves and two transactions:     *)
(* sender and receiver may or may not share a parent, and the second       *)
(* transaction starts from a tree the first one changed.  The siblings are *)
(* digests of these trees before and after an update of either account.    *)
EXTENDS MerkleUpdateAir, TLC

V(key, balance, nonce) ==
  [pkey |-> key, balance |-> balance, nonce |-> nonce]

MCValue == {V("a", 1, 0), V("a", 0, 1), V("b", 0, 0), V("b", 1, 0)}

MCTrees ==
  {(0 :> V("a", 1, 0)) @@ (1 :> V("b", 0, 0))
     @@ (2 :> V("b", 0, 0)) @@ (3 :> V("a", 1, 0)),
   (0 :> V("b", 1, 0)) @@ (1 :> V("a", 1, 0))
     @@ (2 :> V("b", 0, 0)) @@ (3 :> V("a", 1, 0))}

Pair(a, b) == Merge(Leaf(a), Leaf(b))
MCSiblings ==
  [k \in 0 .. (Depth - 1) |->
    IF k = 0
    THEN {Leaf(V("a", 0, 1)), Leaf(V("a", 1, 0)), Leaf(V("b", 0, 0)),
          Leaf(V("b", 1, 0))}
    ELSE {Pair(V("b", 0, 0), V("a", 1, 0)), Pair(V("a", 0, 1), V("b", 0, 0)),
          Pair(V("a", 0, 1), V("b", 1, 0)), Pair(V("b", 1, 0), V("a", 1, 0))}]
=============================================================================
