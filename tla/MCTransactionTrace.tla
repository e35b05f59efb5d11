------------------------- MODULE MCTransactionTrace -------------------------
(* Two accounts that pay each other, in a field just below 2^16 as the     *)
(* code's is below 2^64.                                                   *)
EXTENDS TransactionTrace

Account(key, balance, nonce) ==
  [pkey |-> key, balance |-> balance, nonce |-> nonce]
MCGenesis == {[i \in Index |-> IF i = 0 THEN Account("a", b, P - 1)
                                        ELSE Account("b", 1000, 7)] :
                b \in {700, 65100}}
=============================================================================
