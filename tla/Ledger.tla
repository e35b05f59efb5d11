------------------------------- MODULE Ledger -------------------------------
(***************************************************************************)
(* What a batch of certificate transactions means, with no Merkle tree, no *)
(* path, no signature and no trace: accounts are opened, then a fixed      *)
(* number of transfers moves field elements between them.  TxMetadata is   *)
(* shown to implement it.                                                  *)
(***************************************************************************)
EXTENDS Integers

CONSTANTS Index,       \* the slots of the account tree
          NumTx,       \* the number of transfers of the batch
          P,           \* the modulus of the field the balances live in
          PublicKeys,  \* what may own an account
          Closed       \* the content of a slot that holds no account

VARIABLES book,     \* slot -> account or Closed
          running,  \* whether the batch still runs
          applied   \* number of transfers applied so far

ledgerVars == <<book, running, applied>>

Amount == 0 .. (P - 1)

(* Sender and receiver of a transfer after the amount d has moved.         *)
Debited(account, d) == [account EXCEPT !.balance = (@ - d) % P,
                                       !.nonce = (@ + 1) % P]
Credited(account, d) == [account EXCEPT !.balance = (@ + d) % P]

LedgerInit == /\ book = [i \in Index |-> Closed]
              /\ running = TRUE
              /\ applied = 0

(* Before the first transfer a slot may receive an account, even again.    *)
Open(i) == /\ running /\ applied = 0
           /\ \E key \in PublicKeys, balance, nonce \in Amount :
                book' = [book EXCEPT ![i] = [pkey |-> key,
                                             balance |-> balance,
                                             nonce |-> nonce]]
           /\ UNCHANGED <<running, applied>>

(* d leaves s and reaches r: s can cover it and keeps at least one unit.   *)
Transfer(s, r, d) ==
  /\ running /\ applied < NumTx
  /\ s # r /\ book[s] # Closed /\ book[r] # Closed
  /\ d < book[s].balance
  /\ book' = [book EXCEPT ![s] = Debited(@, d), ![r] = Credited(@, d)]
  /\ applied' = applied + 1
  /\ UNCHANGED running

(* The batch ends when every transfer is applied, or at an account with    *)
(* nothing to send.                                                        *)
Halt == /\ running
        /\ \/ applied = NumTx
           \/ \E s \in Index : book[s] # Closed /\ book[s].balance = 0
        /\ running' = FALSE
        /\ UNCHANGED <<book, applied>>

LedgerNext == \/ \E i \in Index : Open(i)
              \/ \E s, r \in Index, d \in Amount : Transfer(s, r, d)
              \/ Halt

LedgerSpec == LedgerInit /\ [][LedgerNext]_ledgerVars
=============================================================================
