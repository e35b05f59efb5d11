--------------------------- MODULE MCTxMetadata ---------------------------
(* A small batch: three leaves, two transactions, a field of five elements. *)
EXTENDS TxMetadata, TLC

KeySymmetry == Permutations(Keys)
=============================================================================
