--------------------------- MODULE MCMerkleUpdate ---------------------------
(* Trees of four leaves with distinct keys, over a small field: balances   *)
(* that wrap when credited and a nonce that wraps when incremented.        *)
EXTENDS MerkleUpdate

Account(key, balance, nonce) ==
  [pkey |-> key, balance |-> balance, nonce |-> nonce]
MCGenesis == {[i \in Index |-> Account(i, b, P - 1 - (i % 2))] : b \in {2, P - 1}}
=============================================================================
