------------------------- MODULE MCTransactionRows -------------------------
(* The constants of the code, for both depths a build may have.            *)
EXTENDS TransactionSlots

MCDepths == {3, 15}
=============================================================================
