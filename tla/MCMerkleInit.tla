---------------------------- MODULE MCMerkleInit ----------------------------
(* The repository's example, and senders that own something or have paid.  *)
EXTENDS MerkleInit

MCValues == [pkey : {"zero", "a"}, balance : {0, 5}, nonce : {0, 3}]
MCInputs == [s : MCValues, r : MCValues, delta : {1}]
=============================================================================
