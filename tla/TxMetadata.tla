----------------------------- MODULE TxMetadata -----------------------------
(***************************************************************************)
(* TransactionMetadata::build_random (lib.rs): the witness of a batch of   *)
(* transactions.  Four loops run one after the other: draw the senders,    *)
(* draw the receivers, apply the transactions one by one on the values and *)
(* on the Merkle tree while recording roots, old leaves and paths, and at  *)
(* last sign what was recorded.                                            *)
(*                                                                         *)
(* Transaction n stands for transaction_num = n - 1.  Hashes are free of   *)
(* collisions: a leaf stands for the value it commits to, a root for the   *)
(* leaves of the tree, and a path for the leaves beside its own.           *)
(***************************************************************************)
EXTENDS Integers, Sequences, FiniteSets, FiniteSetsExt

CONSTANTS Index,      \* the leaves of the tree, 0 .. tree_size - 1
          NumTx,      \* num_transactions
          P,          \* the modulus of BaseElement
          MaxU64,     \* u64::MAX
          Words,      \* the values rng.next_u64() may return
          Keys,       \* the values Scalar::random may return
          NoKey,      \* Scalar::default()
          NoIndex,    \* r_index before its first draw
          EmptyLeaf   \* a leaf of MerkleTree::build_empty

(* p < 2^63, so two field elements always fit a u64.                       *)
ASSUME WidthAssumption == /\ P \in Nat /\ P > 1
                          /\ MaxU64 \in Nat /\ MaxU64 > 2 * P
                          /\ Words \subseteq 0 .. MaxU64
ASSUME BatchAssumption == NumTx \in Nat \ {0}
ASSUME TreeAssumption == IsFiniteSet(Index)

(* A batch is a vector in memory, shorter than the modulus.                *)
ASSUME NonceAssumption == NumTx <= P
ASSUME IdentityAssumption == NoKey \notin Keys /\ NoIndex \notin Index

VARIABLES phase,        \* which loop runs, or how the call ended
          n,            \* the loop's transaction number
          secretKeys,   \* secret_keys
          values,       \* values: the content of each leaf
          tree,         \* the Merkle tree, as its leaves
          sIndices,     \* s_indices
          rIndex,       \* r_index, the receiver drawn last
          rIndices,     \* r_indices
          initialRoots, \* initial_roots
          witness,      \* s_secret_keys, s_old_values, r_old_values,
                        \* s_paths, r_paths and deltas
          finalRoot,    \* final_root
          signatures    \* signatures

accounts == <<secretKeys, values, tree>>
picks == <<sIndices, rIndex, rIndices>>
record == <<initialRoots, witness, finalRoot>>
vars == <<phase, n, accounts, picks, record, signatures>>

Txs == 1 .. NumTx
Field == 0 .. (P - 1)

PublicKey(key) == [secret |-> key]
PublicKeys == {PublicKey(k) : k \in Keys \cup {NoKey}}
Value == [pkey : PublicKeys, balance : Field, nonce : Field]
ASSUME EmptyAssumption == EmptyLeaf \notin Value
ZeroValue == [pkey |-> PublicKey(NoKey), balance |-> 0, nonce |-> 0]

(* Rescue63::merge of the two halves of a value.                           *)
Leaf(value) == [hash |-> value]
Leaves == {Leaf(v) : v \in Value} \cup {EmptyLeaf}

(* winterfell's MerkleTree: the root, the path prove(i) returns, and the   *)
(* root a verifier folds from a leaf and the siblings on a path.           *)
Root(t) == t
Prove(t, i) == [leaf |-> t[i], siblings |-> [j \in Index \ {i} |-> t[j]]]
Fold(i, leaf, path) ==
  [j \in Index |-> IF j = i THEN leaf ELSE path.siblings[j]]
Trees == [Index -> Leaves]
EmptyPath == <<>>
NoRoot == <<>>

(* The four elements build_tx_message copies, and schnorr::sign.           *)
TxMessage(sAddr, rAddr, amount, nonce) ==
  [sender |-> sAddr, receiver |-> rAddr, amount |-> amount, nonce |-> nonce]
Sign(message, key) == [message |-> message, signer |-> PublicKey(key)]
Verify(message, signature, pkey) ==
  signature.message = message /\ signature.signer = pkey
Signature == [message : [sender : PublicKeys, receiver : PublicKeys,
                         amount : Field, nonce : Field],
              signer : PublicKeys]

NoWitness == [key |-> NoKey, sOld |-> ZeroValue, rOld |-> ZeroValue,
              sPath |-> EmptyPath, rPath |-> EmptyPath, delta |-> 0]

Init == /\ phase = "senders"
        /\ n = 1
        /\ secretKeys = [i \in Index |-> NoKey]
        /\ values = [i \in Index |-> ZeroValue]
        /\ tree = [i \in Index |-> EmptyLeaf]
        /\ sIndices = [t \in Txs |-> NoIndex]
        /\ rIndex = NoIndex
        /\ rIndices = [t \in Txs |-> NoIndex]
        /\ initialRoots = <<>>
        /\ witness = [t \in Txs |-> NoWitness]
        /\ finalRoot = NoRoot
        /\ signatures = <<>>

-----------------------------------------------------------------------------
(* Mutant: a loop that skips its last pass.                                *)
AdvanceEarly(next) == IF n + 1 < NumTx THEN n' = n + 1 /\ UNCHANGED phase
                                       ELSE n' = 1 /\ phase' = next

(* The end of a loop's body.                                               *)
Advance(next) == IF n < NumTx THEN n' = n + 1 /\ UNCHANGED phase
                              ELSE n' = 1 /\ phase' = next

(* Mutants: the tree keeps the leaf it had, the slot the key it had.       *)
CreateAccountOffTree(i) ==
  \E key \in Keys \ {secretKeys[j] : j \in Index}, balance, nonce \in Words :
    /\ secretKeys' = [secretKeys EXCEPT ![i] = key]
    /\ values' = [values EXCEPT ![i] = [pkey |-> PublicKey(key),
                     balance |-> balance % P, nonce |-> nonce % P]]
    /\ UNCHANGED tree

CreateAccountOldKey(i) ==
  \E key \in Keys \ {secretKeys[j] : j \in Index}, balance, nonce \in Words :
    LET value == [pkey |-> PublicKey(key), balance |-> balance % P,
                  nonce |-> nonce % P]
    IN /\ secretKeys' = [secretKeys EXCEPT ![i] = IF @ = NoKey THEN key ELSE @]
       /\ values' = [values EXCEPT ![i] = value]
       /\ tree' = [tree EXCEPT ![i] = Leaf(value)]

(* A fresh key pair, balance and nonce for slot i.  Random scalars do not  *)
(* collide; random words are reduced into the field.                       *)
CreateAccount(i) ==
  \E key \in Keys \ {secretKeys[j] : j \in Index}, balance, nonce \in Words :
    LET value == [pkey |-> PublicKey(key), balance |-> balance % P,
                  nonce |-> nonce % P]
    IN /\ secretKeys' = [secretKeys EXCEPT ![i] = key]
       /\ values' = [values EXCEPT ![i] = value]
       /\ tree' = [tree EXCEPT ![i] = Leaf(value)]

(* First loop: a slot drawn again gets another account.                    *)
FillSender(i) == /\ phase = "senders"
                 /\ sIndices' = [sIndices EXCEPT ![n] = i]
                 /\ CreateAccount(i)
                 /\ Advance("receivers")
                 /\ UNCHANGED <<rIndex, rIndices, record, signatures>>

(* Mutant: the index drawn again is not stored.                            *)
DrawReceiverStale(i) == /\ phase = "receivers"
                        /\ rIndex = NoIndex \/ rIndex = sIndices[n]
                        /\ rIndex' = IF rIndex = NoIndex THEN i ELSE rIndex
                        /\ UNCHANGED <<phase, n, accounts, sIndices, rIndices,
                                       record, signatures>>

(* Second loop: the draw, its repetition while it gives the sender, and    *)
(* the rest of the body.                                                   *)
DrawReceiver(i) == /\ phase = "receivers"
                   /\ rIndex = NoIndex \/ rIndex = sIndices[n]
                   /\ rIndex' = i
                   /\ UNCHANGED <<phase, n, accounts, sIndices, rIndices,
                                  record, signatures>>

PickReceiver == /\ phase = "receivers"
                /\ rIndex \notin {NoIndex, sIndices[n]}
                /\ rIndices' = [rIndices EXCEPT ![n] = rIndex]
                /\ IF secretKeys[rIndex] = NoKey THEN CreateAccount(rIndex)
                                                 ELSE UNCHANGED accounts
                /\ rIndex' = NoIndex
                /\ Advance("transactions")
                /\ UNCHANGED <<sIndices, record, signatures>>

-----------------------------------------------------------------------------
(* Third loop.                                                             *)
sIdx == sIndices[n]
rIdx == rIndices[n]

(* Mutants: a bound off by one, a nonce left alone, a credit that is not   *)
(* reduced or never made.                                                  *)
DeltaAll(word) == (word % (values[sIdx].balance + 1)) % P
DebitKeepsNonce(value, delta) == [value EXCEPT !.balance = (@ - delta) % P]
CreditUnreduced(value, delta) == [value EXCEPT !.balance = @ + delta]
CreditNothing(value, delta) == value

Smaller(a, b) == IF a < b THEN a ELSE b
DeltaBound == Smaller(values[sIdx].balance, MaxU64 - values[rIdx].balance)
Delta(word) == (word % DeltaBound) % P

Debit(value, delta) == [value EXCEPT !.balance = (@ - delta) % P,
                                     !.nonce = (@ + 1) % P]
Credit(value, delta) == [value EXCEPT !.balance = (@ + delta) % P]

(* Mutant: both paths are taken before the leaves change.                  *)
ApplyTransactionPathsFirst(word) ==
  /\ phase = "transactions"
  /\ DeltaBound > 0
  /\ LET delta == Delta(word)
         debited == [values EXCEPT ![sIdx] = Debit(@, delta)]
         moved == [debited EXCEPT ![rIdx] = Credit(@, delta)]
     IN /\ values' = moved
        /\ tree' = [tree EXCEPT ![sIdx] = Leaf(moved[sIdx]),
                                ![rIdx] = Leaf(moved[rIdx])]
        /\ initialRoots' = Append(initialRoots, Root(tree))
        /\ witness' = [witness EXCEPT ![n] =
             [key |-> secretKeys[sIdx],
              sOld |-> values[sIdx], rOld |-> values[rIdx],
              sPath |-> Prove(tree, sIdx), rPath |-> Prove(tree, rIdx),
              delta |-> delta]]
  /\ Advance("root")
  /\ UNCHANGED <<secretKeys, picks, finalRoot, signatures>>

(* The sender's path is taken before the two leaves change, the receiver's *)
(* after.                                                                  *)
ApplyTransaction(word) ==
  /\ phase = "transactions"
  /\ DeltaBound > 0
  /\ LET delta == Delta(word)
         debited == [values EXCEPT ![sIdx] = Debit(@, delta)]
         moved == [debited EXCEPT ![rIdx] = Credit(@, delta)]
         grown == [tree EXCEPT ![sIdx] = Leaf(moved[sIdx]),
                               ![rIdx] = Leaf(moved[rIdx])]
     IN /\ values' = moved
        /\ tree' = grown
        /\ initialRoots' = Append(initialRoots, Root(tree))
        /\ witness' = [witness EXCEPT ![n] =
             [key |-> secretKeys[sIdx],
              sOld |-> values[sIdx], rOld |-> values[rIdx],
              sPath |-> Prove(tree, sIdx), rPath |-> Prove(grown, rIdx),
              delta |-> delta]]
  /\ Advance("root")
  /\ UNCHANGED <<secretKeys, picks, finalRoot, signatures>>

(* A remainder by zero aborts the call.                                    *)
PanicOnEmptySender == /\ phase = "transactions"
                      /\ DeltaBound = 0
                      /\ phase' = "panicked"
                      /\ UNCHANGED <<n, accounts, picks, record, signatures>>

TakeFinalRoot == /\ phase = "root"
                 /\ finalRoot' = Root(tree)
                 /\ phase' = "signing"
                 /\ UNCHANGED <<n, accounts, picks, initialRoots, witness,
                                signatures>>

-----------------------------------------------------------------------------
(* Fourth loop, and the constructor's assertions on the lengths.           *)
Message(t) == TxMessage(witness[t].sOld.pkey, witness[t].rOld.pkey,
                        witness[t].delta, witness[t].sOld.nonce)

SignTransaction == /\ phase = "signing"
                   /\ signatures' = Append(signatures,
                                           Sign(Message(n), witness[n].key))
                   /\ Advance("constructing")
                   /\ UNCHANGED <<accounts, picks, record>>

LengthsAgree == /\ Len(initialRoots) = NumTx
                /\ Len(signatures) = Len(initialRoots)

Construct == /\ phase = "constructing"
             /\ phase' = IF LengthsAgree THEN "returned" ELSE "panicked"
             /\ UNCHANGED <<n, accounts, picks, record, signatures>>

(* The call has ended.                                                     *)
Ended == /\ phase \in {"returned", "panicked"}
         /\ UNCHANGED vars

Next == \/ \E i \in Index : FillSender(i) \/ DrawReceiver(i)
        \/ PickReceiver
        \/ \E word \in Words : ApplyTransaction(word)
        \/ PanicOnEmptySender
        \/ TakeFinalRoot
        \/ SignTransaction
        \/ Construct
        \/ Ended

Spec == Init /\ [][Next]_vars

(* The call runs on.  Drawing the sender again changes nothing, so this    *)
(* also says that the draws, which are random, find another slot in the    *)
(* end.                                                                    *)
FairSpec == Spec /\ WF_vars(Next)

-----------------------------------------------------------------------------
Applied == 1 .. Len(initialRoots)
Path == [leaf : Leaves,
         siblings : UNION {[Index \ {i} -> Leaves] : i \in Index}]
Witness == [key : Keys \cup {NoKey}, sOld : Value, rOld : Value,
            sPath : Path \cup {EmptyPath}, rPath : Path \cup {EmptyPath},
            delta : Field]

(* Every variable keeps its type.                                          *)
TypeOK ==
  /\ phase \in {"senders", "receivers", "transactions", "root", "signing",
                "constructing", "returned", "panicked"}
  /\ n \in Txs
  /\ secretKeys \in [Index -> Keys \cup {NoKey}]
  /\ values \in [Index -> Value]
  /\ tree \in Trees
  /\ sIndices \in [Txs -> Index \cup {NoIndex}]
  /\ rIndex \in Index \cup {NoIndex}
  /\ rIndices \in [Txs -> Index \cup {NoIndex}]
  /\ initialRoots \in Seq(Trees)
  /\ witness \in [Txs -> Witness]
  /\ finalRoot \in Trees \cup {NoRoot}
  /\ signatures \in Seq(Signature)

(* Each loop hands complete work to the next: past the first every sender  *)
(* slot is drawn, past the second every receiver slot, never the sender's, *)
(* and both hold an account; one root per transaction applied, one         *)
(* signature per transaction signed (lib.rs 272-313, 349-363, 436-444).    *)
SendersDrawn ==
  \A t \in Txs : phase # "senders" \/ t < n =>
    sIndices[t] \in Index /\ secretKeys[sIndices[t]] # NoKey
ReceiversDrawn ==
  \A t \in Txs : \/ phase \notin {"senders", "receivers"}
                 \/ phase = "receivers" /\ t < n
    => rIndices[t] \in Index \ {sIndices[t]} /\ secretKeys[rIndices[t]] # NoKey
RootsCount ==
  Len(initialRoots) = IF phase \in {"senders", "receivers"} THEN 0
                      ELSE IF phase \in {"transactions", "panicked"} THEN n - 1
                      ELSE NumTx
SignaturesCount ==
  Len(signatures) = IF phase \in {"root", "signing"} THEN n - 1
                    ELSE IF phase \in {"constructing", "returned"} THEN NumTx
                    ELSE 0
Schedule == SendersDrawn /\ ReceiversDrawn /\ RootsCount /\ SignaturesCount

(* The tree commits to the values of every account, and every account is   *)
(* owned by the key recorded for its slot: the values array, the key array *)
(* and the tree, updated by separate statements of three loops, never      *)
(* drift apart (lib.rs 272-293, 315-334, 375-419).                         *)
TreeInSync ==
  \A i \in Index : secretKeys[i] # NoKey =>
    /\ tree[i] = Leaf(values[i])
    /\ values[i].pkey = PublicKey(secretKeys[i])

RootAfter(t) == IF t < Len(initialRoots) THEN initialRoots[t + 1]
                                         ELSE Root(tree)

(* What the circuit checks of transaction t: the sender's old leaf lies    *)
(* under the initial root, its new leaf and the receiver's old leaf lie    *)
(* under one common intermediate root, and the receiver's new leaf lies    *)
(* under the root the next transaction starts from.                        *)
Explained(t) ==
  LET w == witness[t]
      s == sIndices[t]
      r == rIndices[t]
  IN /\ Fold(s, Leaf(w.sOld), w.sPath) = initialRoots[t]
     /\ Fold(s, Leaf(Debit(w.sOld, w.delta)), w.sPath)
          = Fold(r, Leaf(w.rOld), w.rPath)
     /\ Fold(r, Leaf(Credit(w.rOld, w.delta)), w.rPath) = RootAfter(t)

(* The recorded witness explains the chain of roots: although the sender's *)
(* path is taken before and the receiver's after both leaves changed, they *)
(* meet at the same intermediate root, also when slots repeat within the   *)
(* batch (lib.rs 349-424).                                                 *)
WitnessChain ==
  /\ \A t \in Applied : Explained(t)
  /\ phase \in {"signing", "constructing", "returned"} =>
       finalRoot = Root(tree)

(* Every signature verifies under the sender's recorded address for the    *)
(* recorded transaction, although keys are copied before the leaves change *)
(* and messages are built after the last transaction (lib.rs 364, 436-445).*)
SignaturesVerify ==
  \A t \in 1 .. Len(signatures) :
    Verify(Message(t), signatures[t], witness[t].sOld.pkey)

(* No two transactions of a batch have the same message, so that one       *)
(* signature can never serve two of them: the nonce signed is the one      *)
(* before the transaction and it moves on with every one sent.             *)
MessagesDistinct ==
  \A t, u \in Applied : t # u => Message(t) # Message(u)

(* The comment at lib.rs 353-354, for the sender: as an integer, not only  *)
(* in the field, the debit is exact and leaves at least one unit.          *)
SenderNeverUnderflows ==
  \A t \in Applied :
    /\ witness[t].delta < witness[t].sOld.balance
    /\ Debit(witness[t].sOld, witness[t].delta).balance
         = witness[t].sOld.balance - witness[t].delta

(* The same comment for the receiver: as an integer the credit stays below *)
(* the modulus.                                                            *)
ReceiverNeverOverflows ==
  \A t \in Applied : witness[t].rOld.balance + witness[t].delta < P

(* What the sender loses the receiver gains: the field's sum of all        *)
(* balances survives every transaction, wrapped or not (lib.rs 375-377).   *)
Total == FoldSet(LAMBDA i, sum : (values[i].balance + sum) % P, 0, Index)
FundsConserved == [][phase = "transactions" => Total' = Total]_vars

(* The balance slot i had before the first transaction.                    *)
FirstBalance(i) ==
  LET touched == {t \in Applied : i \in {sIndices[t], rIndices[t]}}
      first == CHOOSE t \in touched : \A u \in touched : t <= u
  IN IF touched = {} THEN values[i].balance
     ELSE IF sIndices[first] = i THEN witness[first].sOld.balance
                                 ELSE witness[first].rOld.balance

(* The call panics only for a sender that drew an empty balance, or whose  *)
(* balance a credit has wrapped: no number of transfers sent empties an    *)
(* account, and the lengths the constructor asserts agree (lib.rs 211-218, *)
(* 355-359).                                                               *)
PanicExplained ==
  phase = "panicked" =>
    \/ FirstBalance(sIdx) = 0
    \/ \E t \in Applied : /\ rIndices[t] = sIdx
                          /\ witness[t].rOld.balance + witness[t].delta >= P

(* The call ends, in a returned batch or in the panic.                     *)
CallEnds == <>(phase \in {"returned", "panicked"})

(* The batch built is a run of the ledger.                                 *)
Book == [i \in Index |-> IF secretKeys[i] = NoKey THEN EmptyLeaf
                                                  ELSE values[i]]
ledger == INSTANCE Ledger
            WITH Closed <- EmptyLeaf, book <- Book,
                 running <- phase \notin {"returned", "panicked"},
                 applied <- Len(initialRoots)

(* Opening accounts and applying transactions are steps of the ledger,     *)
(* everything else leaves it alone.                                        *)
ImplementsLedger == ledger!LedgerSpec
=============================================================================
