-------------------------- MODULE TxMetadataProofs --------------------------
(***************************************************************************)
(* Theorems about TxMetadata, for every tree size, batch size, modulus and *)
(* source of randomness.                                                   *)
(***************************************************************************)
EXTENDS TxMetadata, NaturalLemmas

(* The remainder by the modulus is a field element.                        *)
LEMMA ModField == ASSUME NEW x \in Int PROVE x % P \in Field
BY WidthAssumption DEF Field

(* A field element is its own residue.                                     *)
LEMMA ModIdentity == ASSUME NEW x \in Field PROVE x % P = x
BY WidthAssumption DEF Field

(* The amount drawn is a field element below the sender's balance.         *)
LEMMA DeltaSmall ==
  ASSUME TypeOK, sIdx \in Index, rIdx \in Index, NEW word \in Words,
         DeltaBound > 0
  PROVE  /\ Delta(word) \in Field
         /\ Delta(word) < values[sIdx].balance
<1> DEFINE a == values[sIdx].balance
           b == values[rIdx].balance
<1>1. a \in Field /\ b \in Field
  BY DEF TypeOK, Value
<1>2. word \in Int /\ word >= 0
  BY WidthAssumption
<1>3. DeltaBound \in Int /\ DeltaBound <= a
  BY <1>1, WidthAssumption DEF DeltaBound, Smaller, Field
<1> HIDE DEF a, b
<1>4. word % DeltaBound \in 0 .. (DeltaBound - 1)
  BY <1>2, <1>3
<1>5. (word % DeltaBound) % P = word % DeltaBound
  BY <1>1, <1>3, <1>4, WidthAssumption DEF Field
<1>6. Delta(word) = word % DeltaBound
  BY <1>5 DEF Delta
<1>7. Delta(word) \in 0 .. (a - 1)
  BY <1>1, <1>3, <1>4, <1>6 DEF Field
<1> QED BY <1>1, <1>7, WidthAssumption DEF a, Field

(* Both sides of a transfer remain values.                                 *)
LEMMA DebitType == ASSUME NEW v \in Value, NEW d \in Field
                   PROVE  Debit(v, d) \in Value
<1>1. (v.balance - d) % P \in Field /\ (v.nonce + 1) % P \in Field
  <2>1. v.balance \in Int /\ v.nonce \in Int /\ d \in Int
    BY WidthAssumption DEF Value, Field
  <2> QED BY <2>1, ModField
<1> QED BY <1>1 DEF Debit, Value

(* A credited value is a value.                                            *)
LEMMA CreditType == ASSUME NEW v \in Value, NEW d \in Field
                    PROVE  Credit(v, d) \in Value
<1>1. (v.balance + d) % P \in Field
  <2>1. v.balance \in Int /\ d \in Int
    BY WidthAssumption DEF Value, Field
  <2> QED BY <2>1, ModField
<1> QED BY <1>1 DEF Credit, Value

(* A path is a path, and a leaf a leaf.                                    *)
LEMMA ProveType == ASSUME NEW t \in Trees, NEW i \in Index
                   PROVE  Prove(t, i) \in Path
BY DEF Prove, Path, Trees

(* The leaf of a value is a leaf.                                          *)
LEMMA LeafType == ASSUME NEW v \in Value PROVE Leaf(v) \in Leaves
BY DEF Leaves

(* What a created account is: a key of its own and a value the tree        *)
(* commits to.                                                             *)
LEMMA CreateType ==
  ASSUME TypeOK, NEW i \in Index, CreateAccount(i)
  PROVE  \E key \in Keys, value \in Value :
           /\ value.pkey = PublicKey(key)
           /\ secretKeys' = [secretKeys EXCEPT ![i] = key]
           /\ values' = [values EXCEPT ![i] = value]
           /\ tree' = [tree EXCEPT ![i] = Leaf(value)]
<1>1. PICK key \in Keys, balance \in Words, nonce \in Words :
        LET value == [pkey |-> PublicKey(key), balance |-> balance % P,
                      nonce |-> nonce % P]
        IN /\ secretKeys' = [secretKeys EXCEPT ![i] = key]
           /\ values' = [values EXCEPT ![i] = value]
           /\ tree' = [tree EXCEPT ![i] = Leaf(value)]
  BY DEF CreateAccount
<1> DEFINE value == [pkey |-> PublicKey(key), balance |-> balance % P,
                     nonce |-> nonce % P]
<1>2. balance \in Int /\ nonce \in Int
  BY WidthAssumption
<1>3. value \in Value /\ value.pkey = PublicKey(key)
  BY <1>2, ModField DEF Value, PublicKeys
<1> QED BY <1>1, <1>3

-----------------------------------------------------------------------------
(* The typing and the schedule of the loops are inductive together.        *)
TypedSchedule == TypeOK /\ Schedule

(* The types and the schedule hold at first.                               *)
LEMMA InitTyped == Init => TypedSchedule
<1> SUFFICES ASSUME Init PROVE TypedSchedule
  OBVIOUS
<1>1. ZeroValue \in Value /\ NoWitness \in Witness
  <2>1. ZeroValue \in Value
    BY WidthAssumption DEF ZeroValue, Value, PublicKeys, Field
  <2> QED BY <2>1, WidthAssumption DEF NoWitness, Witness, Field
<1>2. TypeOK
  BY <1>1, BatchAssumption DEF Init, TypeOK, Txs, Trees, Leaves, NoRoot
<1>3. Schedule
  BY BatchAssumption DEF Init, Schedule, SendersDrawn, ReceiversDrawn,
     RootsCount, SignaturesCount, Txs
<1> QED BY <1>2, <1>3 DEF TypedSchedule

(* Each loop body keeps the types and the schedule: the first,             *)
LEMMA FillSenderTyped ==
  ASSUME TypedSchedule, NEW i \in Index, FillSender(i)
  PROVE  TypedSchedule'
<1> USE DEF TypedSchedule, FillSender
<1>1. PICK key \in Keys, value \in Value :
        /\ secretKeys' = [secretKeys EXCEPT ![i] = key]
        /\ values' = [values EXCEPT ![i] = value]
        /\ tree' = [tree EXCEPT ![i] = Leaf(value)]
  BY CreateType
<1>2. Leaf(value) \in Leaves
  BY LeafType
<1>3. n' \in Txs /\ phase' \in {"senders", "receivers"}
  BY BatchAssumption DEF Advance, TypeOK, Txs
<1>4. TypeOK'
  BY <1>1, <1>2, <1>3 DEF TypeOK, record, Trees
<1>5. SendersDrawn'
  BY <1>1, BatchAssumption, IdentityAssumption
     DEF Schedule, SendersDrawn, Advance, TypeOK, Txs
<1>6. ReceiversDrawn'
  BY <1>3, BatchAssumption
     DEF Schedule, ReceiversDrawn, Advance, TypeOK, Txs
<1>7. RootsCount'
  BY <1>3 DEF Schedule, RootsCount, record
<1>8. SignaturesCount'
  BY <1>3 DEF Schedule, SignaturesCount
<1> QED BY <1>4, <1>5, <1>6, <1>7, <1>8 DEF Schedule

(* the draw of the second,                                                 *)
LEMMA DrawReceiverTyped ==
  ASSUME TypedSchedule, NEW i \in Index, DrawReceiver(i)
  PROVE  TypedSchedule'
BY DEF TypedSchedule, DrawReceiver, TypeOK, Schedule, SendersDrawn,
   ReceiversDrawn, RootsCount, SignaturesCount, accounts, record

(* the end of the second,                                                  *)
LEMMA PickReceiverTyped ==
  ASSUME TypedSchedule, PickReceiver
  PROVE  TypedSchedule'
<1> USE DEF TypedSchedule, PickReceiver
<1>0. rIndex \in Index \ {sIndices[n]} /\ n \in Txs
  BY DEF TypeOK
<1>1. /\ secretKeys' \in [Index -> Keys \cup {NoKey}]
      /\ values' \in [Index -> Value]
      /\ tree' \in Trees
      /\ secretKeys'[rIndex] # NoKey
      /\ \A j \in Index : secretKeys[j] # NoKey => secretKeys'[j] # NoKey
  <2>1. CASE secretKeys[rIndex] = NoKey
    <3>1. PICK key \in Keys, value \in Value :
            /\ secretKeys' = [secretKeys EXCEPT ![rIndex] = key]
            /\ values' = [values EXCEPT ![rIndex] = value]
            /\ tree' = [tree EXCEPT ![rIndex] = Leaf(value)]
      BY <1>0, <2>1, CreateType
    <3>2. Leaf(value) \in Leaves
      BY LeafType
    <3> QED BY <1>0, <3>1, <3>2, IdentityAssumption DEF TypeOK, Trees
  <2>2. CASE secretKeys[rIndex] # NoKey
    BY <2>2 DEF accounts, TypeOK
  <2> QED BY <2>1, <2>2
<1>2. n' \in Txs /\ phase' \in {"receivers", "transactions"}
  BY BatchAssumption DEF Advance, TypeOK, Txs
<1>3. TypeOK'
  BY <1>0, <1>1, <1>2 DEF TypeOK, record
<1>4. SendersDrawn'
  BY <1>1 DEF Schedule, SendersDrawn, Advance
<1>5. ReceiversDrawn'
  BY <1>0, <1>1, BatchAssumption
     DEF Schedule, ReceiversDrawn, Advance, TypeOK, Txs
<1>6. RootsCount'
  BY <1>2, BatchAssumption DEF Schedule, RootsCount, Advance, record
<1>7. SignaturesCount'
  BY <1>2 DEF Schedule, SignaturesCount
<1> QED BY <1>3, <1>4, <1>5, <1>6, <1>7 DEF Schedule

(* What ApplyTransaction relies on and what it produces.                   *)
LEMMA ApplySlots ==
  ASSUME TypedSchedule, phase = "transactions"
  PROVE  /\ sIdx \in Index /\ rIdx \in Index /\ sIdx # rIdx
         /\ secretKeys[sIdx] # NoKey /\ secretKeys[rIdx] # NoKey
         /\ n \in Txs
BY DEF TypedSchedule, TypeOK, Schedule, SendersDrawn, ReceiversDrawn,
   sIdx, rIdx

(* What a transfer writes, once its amount is known to be below the        *)
(* balance.                                                                *)
LEMMA ApplyEffect ==
  ASSUME TypedSchedule, NEW word \in Words, ApplyTransaction(word)
  PROVE  LET delta == Delta(word)
             sNew == Debit(values[sIdx], delta)
             rNew == Credit(values[rIdx], delta)
         IN /\ delta \in Field /\ delta < values[sIdx].balance
            /\ sNew \in Value /\ rNew \in Value
            /\ values' = [values EXCEPT ![sIdx] = sNew, ![rIdx] = rNew]
            /\ tree' = [tree EXCEPT ![sIdx] = Leaf(sNew), ![rIdx] = Leaf(rNew)]
            /\ initialRoots' = Append(initialRoots, tree)
            /\ witness' = [witness EXCEPT ![n] =
                 [key |-> secretKeys[sIdx],
                  sOld |-> values[sIdx], rOld |-> values[rIdx],
                  sPath |-> Prove(tree, sIdx), rPath |-> Prove(tree', rIdx),
                  delta |-> delta]]
<1> DEFINE delta == Delta(word)
           sNew == Debit(values[sIdx], delta)
           rNew == Credit(values[rIdx], delta)
           debited == [values EXCEPT ![sIdx] = Debit(@, delta)]
           moved == [debited EXCEPT ![rIdx] = Credit(@, delta)]
           grown == [tree EXCEPT ![sIdx] = Leaf(moved[sIdx]),
                                 ![rIdx] = Leaf(moved[rIdx])]
<1>1. /\ sIdx \in Index /\ rIdx \in Index /\ sIdx # rIdx
  BY ApplySlots DEF ApplyTransaction
<1>2. values[sIdx] \in Value /\ values[rIdx] \in Value
      /\ values \in [Index -> Value]
  BY <1>1 DEF TypedSchedule, TypeOK
<1>3. delta \in Field /\ delta < values[sIdx].balance
  BY <1>1, DeltaSmall DEF TypedSchedule, ApplyTransaction
<1>4. sNew \in Value /\ rNew \in Value
  BY <1>2, <1>3, DebitType, CreditType
<1>5. moved = [values EXCEPT ![sIdx] = sNew, ![rIdx] = rNew]
  BY <1>1, <1>2
<1>6. moved[sIdx] = sNew /\ moved[rIdx] = rNew
  BY <1>1, <1>2
<1>7. /\ values' = moved /\ tree' = grown
      /\ initialRoots' = Append(initialRoots, tree)
      /\ witness' = [witness EXCEPT ![n] =
             [key |-> secretKeys[sIdx],
              sOld |-> values[sIdx], rOld |-> values[rIdx],
              sPath |-> Prove(tree, sIdx), rPath |-> Prove(grown, rIdx),
              delta |-> delta]]
  BY DEF ApplyTransaction, Root
<1> QED BY <1>3, <1>4, <1>5, <1>6, <1>7

(* the third,                                                              *)
LEMMA ApplyTyped ==
  ASSUME TypedSchedule, NEW word \in Words, ApplyTransaction(word)
  PROVE  TypedSchedule'
<1> DEFINE delta == Delta(word)
           sNew == Debit(values[sIdx], delta)
           rNew == Credit(values[rIdx], delta)
<1> HIDE DEF delta, sNew, rNew
<1>1. /\ delta \in Field
      /\ sNew \in Value /\ rNew \in Value
      /\ values' = [values EXCEPT ![sIdx] = sNew, ![rIdx] = rNew]
      /\ tree' = [tree EXCEPT ![sIdx] = Leaf(sNew), ![rIdx] = Leaf(rNew)]
      /\ initialRoots' = Append(initialRoots, tree)
      /\ witness' = [witness EXCEPT ![n] =
           [key |-> secretKeys[sIdx],
            sOld |-> values[sIdx], rOld |-> values[rIdx],
            sPath |-> Prove(tree, sIdx), rPath |-> Prove(tree', rIdx),
            delta |-> delta]]
  BY ApplyEffect DEF delta, sNew, rNew
<1>2. /\ sIdx \in Index /\ rIdx \in Index /\ n \in Txs
      /\ phase = "transactions"
  BY ApplySlots DEF ApplyTransaction
<1>3. n' \in Txs /\ phase' \in {"transactions", "root"}
  BY <1>2, BatchAssumption DEF ApplyTransaction, Advance, Txs
<1>4. /\ UNCHANGED <<secretKeys, picks, finalRoot, signatures>>
      /\ Advance("root")
  BY DEF ApplyTransaction
<1>5. Leaf(sNew) \in Leaves /\ Leaf(rNew) \in Leaves
  BY <1>1, LeafType
<1>6. values' \in [Index -> Value] /\ tree' \in Trees
  BY <1>1, <1>2, <1>5 DEF TypedSchedule, TypeOK, Trees
<1>7. witness' \in [Txs -> Witness]
  <2>1. Prove(tree, sIdx) \in Path /\ Prove(tree', rIdx) \in Path
    BY <1>2, <1>6, ProveType DEF TypedSchedule, TypeOK
  <2> HIDE DEF Prove
  <2>2. [key |-> secretKeys[sIdx],
         sOld |-> values[sIdx], rOld |-> values[rIdx],
         sPath |-> Prove(tree, sIdx), rPath |-> Prove(tree', rIdx),
         delta |-> delta] \in Witness
    BY <1>1, <1>2, <2>1 DEF TypedSchedule, TypeOK, Witness
  <2> QED BY <1>1, <2>2 DEF TypedSchedule, TypeOK
<1>8. initialRoots' \in Seq(Trees)
  BY <1>1 DEF TypedSchedule, TypeOK
<1>9. TypeOK'
  BY <1>3, <1>4, <1>6, <1>7, <1>8 DEF TypedSchedule, TypeOK, picks
<1>10. SendersDrawn' /\ ReceiversDrawn'
  BY <1>2, <1>4 DEF TypedSchedule, Schedule, SendersDrawn, ReceiversDrawn,
     picks
<1>11. RootsCount'
  <2>1. Len(initialRoots') = n
    BY <1>1, <1>2 DEF TypedSchedule, TypeOK, Schedule, RootsCount, Txs
  <2> QED BY <1>2, <1>4, <2>1, BatchAssumption DEF Advance, RootsCount, Txs
<1>12. SignaturesCount'
  BY <1>2, <1>4, BatchAssumption
     DEF TypedSchedule, Schedule, SignaturesCount, Advance
<1> QED BY <1>9, <1>10, <1>11, <1>12 DEF TypedSchedule, Schedule

(* its panic,                                                              *)
LEMMA PanicTyped ==
  ASSUME TypedSchedule, PanicOnEmptySender
  PROVE  TypedSchedule'
<1> USE DEF TypedSchedule, PanicOnEmptySender
<1>1. TypeOK'
  BY DEF TypeOK, accounts, picks, record
<1>2. SendersDrawn' /\ ReceiversDrawn' /\ RootsCount' /\ SignaturesCount'
  BY DEF Schedule, SendersDrawn, ReceiversDrawn, RootsCount,
     SignaturesCount, accounts, picks, record
<1> QED BY <1>1, <1>2 DEF Schedule

(* its end,                                                                *)
LEMMA FinalRootTyped ==
  ASSUME TypedSchedule, TakeFinalRoot
  PROVE  TypedSchedule'
<1> USE DEF TypedSchedule, TakeFinalRoot
<1>1. TypeOK'
  BY DEF TypeOK, accounts, picks, Root
<1>2. SendersDrawn' /\ ReceiversDrawn' /\ RootsCount'
  BY DEF Schedule, SendersDrawn, ReceiversDrawn, RootsCount, accounts, picks
<1> QED BY <1>1, <1>2 DEF Schedule, SignaturesCount

(* the fourth,                                                             *)
LEMMA SignTyped ==
  ASSUME TypedSchedule, SignTransaction
  PROVE  TypedSchedule'
<1> USE DEF TypedSchedule, SignTransaction
<1>1. Sign(Message(n), witness[n].key) \in Signature
  <2>1. witness[n] \in Witness
    BY DEF TypeOK
  <2>2. /\ witness[n].sOld \in Value /\ witness[n].rOld \in Value
        /\ witness[n].delta \in Field
        /\ witness[n].key \in Keys \cup {NoKey}
    BY <2>1 DEF Witness
  <2> QED BY <2>2 DEF Message, TxMessage, Sign, Signature, Value, PublicKeys
<1>2. n' \in Txs /\ phase' \in {"signing", "constructing"}
  BY BatchAssumption DEF Advance, TypeOK, Txs
<1>3. signatures' \in Seq(Signature) /\ Len(signatures') = n
  BY <1>1 DEF TypeOK, Schedule, SignaturesCount, Txs
<1>4. TypeOK'
  BY <1>2, <1>3 DEF TypeOK, accounts, picks, record
<1>5. SendersDrawn' /\ ReceiversDrawn' /\ RootsCount'
  BY <1>2 DEF Schedule, SendersDrawn, ReceiversDrawn, RootsCount, accounts,
     picks, record
<1>6. SignaturesCount'
  BY <1>3, BatchAssumption DEF TypeOK, Txs, SignaturesCount, Advance
<1> QED BY <1>4, <1>5, <1>6 DEF Schedule

(* The constructor's assertions hold, so that the batch is returned.       *)
LEMMA ConstructTyped ==
  ASSUME TypedSchedule, Construct
  PROVE  TypedSchedule' /\ phase' = "returned"
<1> USE DEF TypedSchedule, Construct
<1>1. phase' = "returned"
  BY DEF LengthsAgree, Schedule, RootsCount, SignaturesCount
<1>2. TypeOK'
  BY <1>1 DEF TypeOK, accounts, picks, record
<1>3. SendersDrawn' /\ ReceiversDrawn' /\ RootsCount' /\ SignaturesCount'
  BY <1>1 DEF Schedule, SendersDrawn, ReceiversDrawn, RootsCount,
     SignaturesCount, accounts, picks, record
<1> QED BY <1>1, <1>2, <1>3 DEF Schedule

(* and the states where the call rests.                                    *)
LEMMA StutterTyped ==
  ASSUME TypedSchedule, UNCHANGED vars
  PROVE  TypedSchedule'
BY DEF TypedSchedule, TypeOK, Schedule, SendersDrawn, ReceiversDrawn,
   RootsCount, SignaturesCount, vars, accounts, picks, record

(* Every step keeps the types and the schedule.                            *)
LEMMA NextTyped == TypedSchedule /\ [Next]_vars => TypedSchedule'
<1> SUFFICES ASSUME TypedSchedule, [Next]_vars PROVE TypedSchedule'
  OBVIOUS
<1>1. ASSUME NEW i \in Index, FillSender(i) PROVE TypedSchedule'
  BY <1>1, FillSenderTyped
<1>2. ASSUME NEW i \in Index, DrawReceiver(i) PROVE TypedSchedule'
  BY <1>2, DrawReceiverTyped
<1>3. CASE PickReceiver
  BY <1>3, PickReceiverTyped
<1>4. ASSUME NEW word \in Words, ApplyTransaction(word) PROVE TypedSchedule'
  BY <1>4, ApplyTyped
<1>5. CASE PanicOnEmptySender
  BY <1>5, PanicTyped
<1>6. CASE TakeFinalRoot
  BY <1>6, FinalRootTyped
<1>7. CASE SignTransaction
  BY <1>7, SignTyped
<1>8. CASE Construct
  BY <1>8, ConstructTyped
<1>9. CASE UNCHANGED vars
  BY <1>9, StutterTyped
<1> QED BY <1>1, <1>2, <1>3, <1>4, <1>5, <1>6, <1>7, <1>8, <1>9
           DEF Next, Ended

(* Every run of the builder is well typed and its loops hand over complete *)
(* work (lib.rs 235-467).                                                  *)
THEOREM TypeCorrect == Spec => [](TypeOK /\ Schedule)
<1>1. Spec => []TypedSchedule
  BY InitTyped, NextTyped, PTL DEF Spec
<1> QED BY <1>1, PTL DEF TypedSchedule

(* TypeOK, the first half of the last, by its own name.                    *)
THEOREM BuilderTyped == Spec => []TypeOK
BY TypeCorrect, PTL

-----------------------------------------------------------------------------
(* The witness.  KeysMatch is what signing relies on: the key recorded for *)
(* a transaction owns the sender's recorded address.                       *)
KeysMatch == \A t \in Applied : witness[t].sOld.pkey = PublicKey(witness[t].key)

Sound == /\ TypedSchedule
         /\ TreeInSync
         /\ WitnessChain
         /\ SenderNeverUnderflows
         /\ KeysMatch
         /\ SignaturesVerify

(* While nothing is applied, there is nothing to explain.                  *)
LEMMA NothingApplied ==
  ASSUME TypedSchedule, TypedSchedule',
         phase' \notin {"senders", "receivers"} =>
           phase' = "transactions" /\ n' = 1
  PROVE  /\ WitnessChain' /\ SenderNeverUnderflows'
         /\ KeysMatch' /\ SignaturesVerify'
<1>1. Len(initialRoots') = 0 /\ Len(signatures') = 0
  BY DEF TypedSchedule, Schedule, RootsCount, SignaturesCount
<1>2. Applied' = {}
  BY <1>1 DEF Applied
<1> QED BY <1>1, <1>2 DEF WitnessChain, SenderNeverUnderflows, KeysMatch,
                          SignaturesVerify

(* What was recorded stays explained while tree and record stay.           *)
LEMMA RecordKept ==
  ASSUME Sound, UNCHANGED <<accounts, picks, initialRoots, witness>>,
         phase' \in {"signing", "constructing", "returned"} =>
           finalRoot' = Root(tree)
  PROVE  /\ TreeInSync' /\ WitnessChain' /\ SenderNeverUnderflows'
         /\ KeysMatch'
<1> USE DEF Sound, accounts, picks
<1>1. TreeInSync' /\ SenderNeverUnderflows' /\ KeysMatch'
  BY DEF TreeInSync, SenderNeverUnderflows, KeysMatch, Applied
<1>2. \A t \in Applied : Explained(t)' <=> Explained(t)
  BY DEF Explained, RootAfter
<1> QED BY <1>1, <1>2 DEF WitnessChain, Applied

(* A fresh account is committed to by the tree.                            *)
LEMMA CreateSync ==
  ASSUME TypeOK, TreeInSync, NEW i \in Index, CreateAccount(i)
  PROVE  TreeInSync'
<1>1. PICK key \in Keys, value \in Value :
        /\ value.pkey = PublicKey(key)
        /\ secretKeys' = [secretKeys EXCEPT ![i] = key]
        /\ values' = [values EXCEPT ![i] = value]
        /\ tree' = [tree EXCEPT ![i] = Leaf(value)]
  BY CreateType
<1> QED BY <1>1 DEF TreeInSync, TypeOK, Trees

(* The three facts the circuit checks of one transaction, for two trees    *)
(* that differ in two leaves only: the sender's path sees the receiver's   *)
(* old leaf, the receiver's path the sender's new one.                     *)
LEMMA ApplyFolds ==
  ASSUME NEW t \in Trees, NEW after \in Trees,
         NEW s \in Index, NEW r \in Index, s # r,
         \A j \in Index \ {s, r} : after[j] = t[j]
  PROVE  /\ Fold(s, t[s], Prove(t, s)) = t
         /\ Fold(s, after[s], Prove(t, s)) = Fold(r, t[r], Prove(after, r))
         /\ Fold(r, after[r], Prove(after, r)) = after
<1>1. t = [j \in Index |-> t[j]] /\ after = [j \in Index |-> after[j]]
  BY DEF Trees
<1>2. Fold(s, t[s], Prove(t, s)) = t
  BY <1>1 DEF Fold, Prove
<1>3. Fold(s, after[s], Prove(t, s)) = Fold(r, t[r], Prove(after, r))
  BY DEF Fold, Prove
<1>4. Fold(r, after[r], Prove(after, r)) = after
  BY <1>1 DEF Fold, Prove
<1> QED BY <1>2, <1>3, <1>4

(* A transfer is recorded with paths that explain it.                      *)
LEMMA ApplySound ==
  ASSUME Sound, NEW word \in Words, ApplyTransaction(word)
  PROVE  Sound'
<1> DEFINE delta == Delta(word)
           sOld == values[sIdx]
           rOld == values[rIdx]
           sNew == Debit(sOld, delta)
           rNew == Credit(rOld, delta)
           entry == [key |-> secretKeys[sIdx], sOld |-> sOld, rOld |-> rOld,
                     sPath |-> Prove(tree, sIdx), rPath |-> Prove(tree', rIdx),
                     delta |-> delta]
<1>0. TypedSchedule'
  BY ApplyTyped DEF Sound
<1>1. /\ delta \in Field /\ delta < sOld.balance
      /\ sOld \in Value /\ rOld \in Value
      /\ values' = [values EXCEPT ![sIdx] = sNew, ![rIdx] = rNew]
      /\ tree' = [tree EXCEPT ![sIdx] = Leaf(sNew), ![rIdx] = Leaf(rNew)]
      /\ initialRoots' = Append(initialRoots, tree)
      /\ witness' = [witness EXCEPT ![n] = entry]
  BY ApplyEffect, ApplySlots DEF Sound, ApplyTransaction, TypedSchedule, TypeOK
<1>2. /\ sIdx \in Index /\ rIdx \in Index /\ sIdx # rIdx
      /\ secretKeys[sIdx] # NoKey /\ secretKeys[rIdx] # NoKey
      /\ n \in Txs
  BY ApplySlots DEF Sound, ApplyTransaction
<1>3. /\ tree \in Trees /\ witness \in [Txs -> Witness]
      /\ values \in [Index -> Value] /\ initialRoots \in Seq(Trees)
  BY DEF Sound, TypedSchedule, TypeOK
<1>4. /\ UNCHANGED <<secretKeys, picks, finalRoot, signatures>>
      /\ phase = "transactions" /\ phase' \in {"transactions", "root"}
  BY DEF ApplyTransaction, Advance
<1>5. /\ n = Len(initialRoots) + 1 /\ Len(initialRoots') = n
      /\ Len(signatures) = 0
  BY <1>1, <1>2, <1>3, <1>4
     DEF Sound, TypedSchedule, Schedule, RootsCount, SignaturesCount, Txs
<1>6. /\ tree[sIdx] = Leaf(sOld) /\ tree[rIdx] = Leaf(rOld)
      /\ sOld.pkey = PublicKey(secretKeys[sIdx])
      /\ rOld.pkey = PublicKey(secretKeys[rIdx])
  BY <1>2 DEF Sound, TreeInSync
<1>7. sNew.pkey = sOld.pkey /\ rNew.pkey = rOld.pkey
  BY <1>1 DEF Debit, Credit, Value
<1> HIDE DEF delta, sOld, rOld, sNew, rNew, entry
<1>8. /\ witness'[n] = entry
      /\ \A t \in Applied : witness'[t] = witness[t]
      /\ Applied \subseteq Txs /\ Applied' = Applied \cup {n}
  <2>1. Len(initialRoots) \in Nat
    BY <1>3
  <2>2. Applied = 1 .. (n - 1) /\ Applied' = 1 .. n
    BY <1>2, <1>5 DEF Applied, Txs
  <2>3. Applied \subseteq Txs /\ Applied' = Applied \cup {n} /\ n \notin Applied
    BY <1>2, <2>2, BatchAssumption DEF Txs
  <2> QED BY <1>1, <1>2, <1>3, <2>3
<1>9. TreeInSync'
  BY <1>1, <1>2, <1>3, <1>4, <1>6, <1>7 DEF Sound, TreeInSync, Trees
<1>10. SenderNeverUnderflows'
  <2>1. sNew.balance = sOld.balance - delta
    <3>1. sOld.balance - delta \in Field
      BY <1>1, WidthAssumption DEF Value, Field
    <3> QED BY <1>1, <3>1, ModIdentity DEF sNew, Debit, Value
  <2> QED BY <1>1, <1>8, <2>1 DEF Sound, SenderNeverUnderflows, entry, sNew
<1>11. KeysMatch'
  BY <1>6, <1>8 DEF Sound, KeysMatch, entry
<1>12. WitnessChain'
  <2>1. ASSUME NEW t \in Applied PROVE Explained(t)'
    <3>1. /\ initialRoots'[t] = initialRoots[t]
          /\ RootAfter(t)' = RootAfter(t)
      BY <1>1, <1>3, <1>5 DEF RootAfter, Applied, Root
    <3>2. Explained(t)
      BY DEF Sound, WitnessChain
    <3> QED BY <1>4, <1>8, <3>1, <3>2 DEF Explained, picks
  <2>2. ASSUME NEW t, t = n PROVE Explained(t)'
    <3>1. /\ Fold(sIdx, Leaf(sOld), Prove(tree, sIdx)) = tree
          /\ Fold(sIdx, Leaf(sNew), Prove(tree, sIdx))
               = Fold(rIdx, Leaf(rOld), Prove(tree', rIdx))
          /\ Fold(rIdx, Leaf(rNew), Prove(tree', rIdx)) = tree'
      <4>1. /\ tree' \in Trees
            /\ tree'[sIdx] = Leaf(sNew) /\ tree'[rIdx] = Leaf(rNew)
            /\ \A j \in Index \ {sIdx, rIdx} : tree'[j] = tree[j]
        BY <1>1, <1>2, <1>3, <1>0 DEF TypedSchedule, TypeOK, Trees
      <4> QED BY <1>2, <1>3, <1>6, <4>1, ApplyFolds
    <3>2. initialRoots'[t] = tree /\ RootAfter(t)' = tree'
      BY <1>1, <1>3, <1>5, <2>2 DEF RootAfter, Root
    <3>3. sIndices'[t] = sIdx /\ rIndices'[t] = rIdx
      BY <1>4, <2>2 DEF picks, sIdx, rIdx
    <3>4. witness'[t] = entry
      BY <1>8, <2>2
    <3>5. /\ entry.sOld = sOld /\ entry.rOld = rOld /\ entry.delta = delta
          /\ entry.sPath = Prove(tree, sIdx)
          /\ entry.rPath = Prove(tree', rIdx)
      BY DEF entry
    <3> HIDE DEF Fold, Prove, Leaf
    <3> QED BY <3>1, <3>2, <3>3, <3>4, <3>5 DEF Explained, sNew, rNew
  <2> QED BY <1>4, <1>8, <2>1, <2>2 DEF WitnessChain
<1>13. SignaturesVerify'
  BY <1>4, <1>5 DEF SignaturesVerify
<1> QED BY <1>0, <1>9, <1>10, <1>11, <1>12, <1>13 DEF Sound

(* A signature is made with the key of the recorded address.               *)
LEMMA SignSound ==
  ASSUME Sound, SignTransaction
  PROVE  SignaturesVerify'
<1>1. /\ Len(signatures) = n - 1 /\ n \in Applied
      /\ signatures \in Seq(Signature)
  BY DEF Sound, TypedSchedule, Schedule, SignaturesCount, RootsCount, TypeOK,
     SignTransaction, Applied, Txs
<1>2. signatures' = Append(signatures, Sign(Message(n), witness[n].key))
      /\ witness' = witness
  BY DEF SignTransaction, record
<1>3. Verify(Message(n), Sign(Message(n), witness[n].key),
             witness[n].sOld.pkey)
  BY <1>1 DEF Verify, Sign, Sound, KeysMatch
<1> SUFFICES ASSUME NEW t \in 1 .. Len(signatures')
             PROVE  Verify(Message(t), signatures'[t], witness[t].sOld.pkey)
  BY <1>2 DEF SignaturesVerify, Message
<1>4. CASE t = n
  BY <1>1, <1>2, <1>3, <1>4 DEF Applied
<1>5. CASE t # n
  <2>1. t \in 1 .. Len(signatures) /\ signatures'[t] = signatures[t]
    BY <1>1, <1>2, <1>5 DEF Applied
  <2> QED BY <2>1 DEF Sound, SignaturesVerify
<1> QED BY <1>4, <1>5

(* Every step keeps the record sound.                                      *)
LEMMA NextSound == Sound /\ [Next]_vars => Sound'
<1> SUFFICES ASSUME Sound, [Next]_vars PROVE Sound'
  OBVIOUS
<1>0. TypedSchedule'
  BY NextTyped DEF Sound
<1>1. ASSUME NEW i \in Index, FillSender(i) PROVE Sound'
  <2>1. TreeInSync'
    BY <1>1, CreateSync DEF FillSender, Sound, TypedSchedule
  <2>2. phase' \in {"senders", "receivers"}
    BY <1>1 DEF FillSender, Advance
  <2> QED BY <1>0, <2>1, <2>2, NothingApplied DEF Sound
<1>2. ASSUME NEW i \in Index, DrawReceiver(i) PROVE Sound'
  <2>1. TreeInSync'
    BY <1>2 DEF DrawReceiver, Sound, TreeInSync, accounts
  <2>2. phase' = "receivers"
    BY <1>2 DEF DrawReceiver
  <2> QED BY <1>0, <2>1, <2>2, NothingApplied DEF Sound
<1>3. CASE PickReceiver
  <2>1. TreeInSync'
    <3>1. rIndex \in Index
      BY <1>3 DEF PickReceiver, Sound, TypedSchedule, TypeOK
    <3>2. CASE CreateAccount(rIndex)
      BY <3>1, <3>2, CreateSync DEF Sound, TypedSchedule
    <3>3. CASE UNCHANGED accounts
      BY <3>3 DEF Sound, TreeInSync, accounts
    <3> QED BY <1>3, <3>2, <3>3 DEF PickReceiver
  <2>2. phase' # "receivers" => phase' = "transactions" /\ n' = 1
    BY <1>3 DEF PickReceiver, Advance
  <2> QED BY <1>0, <2>1, <2>2, NothingApplied DEF Sound
<1>4. ASSUME NEW word \in Words, ApplyTransaction(word) PROVE Sound'
  BY <1>4, ApplySound
<1>5. CASE PanicOnEmptySender
  <2>1. SignaturesVerify'
    BY <1>5 DEF PanicOnEmptySender, Sound, SignaturesVerify, Message, record
  <2> QED BY <1>0, <1>5, <2>1, RecordKept
          DEF PanicOnEmptySender, Sound, record
<1>6. CASE TakeFinalRoot
  <2>1. SignaturesVerify'
    BY <1>6 DEF TakeFinalRoot, Sound, SignaturesVerify, Message
  <2> QED BY <1>0, <1>6, <2>1, RecordKept DEF TakeFinalRoot, Sound
<1>7. CASE SignTransaction
  <2>1. finalRoot' = Root(tree)
    BY <1>7 DEF SignTransaction, Sound, WitnessChain, record
  <2>2. UNCHANGED <<accounts, picks, initialRoots, witness>>
    BY <1>7 DEF SignTransaction, record
  <2> QED BY <1>0, <1>7, <2>1, <2>2, RecordKept, SignSound DEF Sound
<1>8. CASE Construct
  <2>1. finalRoot' = Root(tree)
    BY <1>8 DEF Construct, Sound, WitnessChain, record
  <2>2. UNCHANGED <<accounts, picks, initialRoots, witness>>
    BY <1>8 DEF Construct, record
  <2>3. SignaturesVerify'
    BY <1>8 DEF Construct, Sound, SignaturesVerify, Message, record
  <2> QED BY <1>0, <2>1, <2>2, <2>3, RecordKept DEF Sound
<1>9. CASE UNCHANGED vars
  <2>1. SignaturesVerify'
    BY <1>9 DEF vars, Sound, SignaturesVerify, Message, record
  <2>2. UNCHANGED <<accounts, picks, initialRoots, witness, finalRoot, phase>>
    BY <1>9 DEF vars, record
  <2>3. phase' \in {"signing", "constructing", "returned"} =>
          finalRoot' = Root(tree)
    BY <2>2 DEF Sound, WitnessChain
  <2> QED BY <1>0, <2>1, <2>2, <2>3, RecordKept DEF Sound
<1> QED BY <1>1, <1>2, <1>3, <1>4, <1>5, <1>6, <1>7, <1>8, <1>9
           DEF Next, Ended

(* An empty record is sound.                                               *)
LEMMA InitSound == Init => Sound
<1> SUFFICES ASSUME Init PROVE Sound
  OBVIOUS
<1>1. TypedSchedule
  BY InitTyped
<1>2. TreeInSync
  BY DEF Init, TreeInSync
<1>3. Applied = {} /\ 1 .. Len(signatures) = {}
  BY DEF Init, Applied
<1> QED BY <1>1, <1>2, <1>3 DEF Init, Sound, WitnessChain,
           SenderNeverUnderflows, KeysMatch, SignaturesVerify

(* The record is sound at all times.                                       *)
LEMMA AlwaysSound == Spec => []Sound
BY InitSound, NextSound, PTL DEF Spec

(* The values array, the key array and the tree never drift apart.         *)
THEOREM TreeAlwaysInSync == Spec => []TreeInSync
<1>1. Sound => TreeInSync
  BY DEF Sound
<1> QED BY <1>1, AlwaysSound, PTL

(* Every batch, however its slots repeat, records a witness that explains  *)
(* the chain from its first root to its final root.                        *)
THEOREM WitnessExplainsChain == Spec => []WitnessChain
<1>1. Sound => WitnessChain
  BY DEF Sound
<1> QED BY <1>1, AlwaysSound, PTL

(* No debit wraps, whatever the draws.                                     *)
THEOREM NoUnderflow == Spec => []SenderNeverUnderflows
<1>1. Sound => SenderNeverUnderflows
  BY DEF Sound
<1> QED BY <1>1, AlwaysSound, PTL

(* Every signature verifies for the transaction it is recorded with.       *)
THEOREM SignaturesAlwaysVerify == Spec => []SignaturesVerify
<1>1. Sound => SignaturesVerify
  BY DEF Sound
<1> QED BY <1>1, AlwaysSound, PTL

-----------------------------------------------------------------------------
(* The messages.  Accounts differ in their keys, and the nonce of an       *)
(* account that sent moves on with every transaction it sends.             *)
KeysDistinct ==
  \A i, j \in Index : secretKeys[i] # NoKey /\ secretKeys[i] = secretKeys[j] => i = j

NonceMoved(t) ==
  LET s == sIndices[t]
  IN /\ witness[t].sOld.pkey = values[s].pkey
     /\ \E k \in 1 .. (Len(initialRoots) + 1 - t) :
          values[s].nonce = (witness[t].sOld.nonce + k) % P

Fresh == /\ Sound
         /\ KeysDistinct
         /\ \A t \in Applied : NonceMoved(t)
         /\ MessagesDistinct

(* A sum of field elements is reduced at most once.                        *)
LEMMA ModSum ==
  ASSUME NEW x \in Field, NEW k \in 0 .. P
  PROVE  (x + k) % P = IF x + k < P THEN x + k ELSE x + k - P
<1>1. P \in Nat \ {0} /\ x \in 0 .. (P - 1)
  BY WidthAssumption DEF Field
<1>2. CASE x + k < P
  BY <1>1, <1>2
<1>3. CASE ~(x + k < P)
  <2> DEFINE j == x + k
             q == 1
             r == x + k - P
  <2>1. j = P * q + r /\ q \in Int /\ r \in 0 .. (P - 1)
    BY <1>1, <1>3
  <2>2. j % P = r
    <3> HIDE DEF j, q, r
    <3> QED BY <1>1, <2>1
  <2> QED BY <1>3, <2>2
<1> QED BY <1>2, <1>3

(* A nonce does not return within fewer than P debits.                     *)
LEMMA NonceSteps ==
  ASSUME NEW x \in Field, NEW k \in 1 .. (P - 1)
  PROVE  (x + k) % P # x /\ (((x + k) % P) + 1) % P = (x + (k + 1)) % P
<1> DEFINE y == (x + k) % P
<1>1. P \in Nat /\ P > 1 /\ x \in 0 .. (P - 1)
  BY WidthAssumption DEF Field
<1>2. y = IF x + k < P THEN x + k ELSE x + k - P
  <2>1. k \in 0 .. P
    BY <1>1
  <2> QED BY <2>1, ModSum
<1>3. (x + (k + 1)) % P = IF x + (k + 1) < P THEN x + (k + 1) ELSE x + (k + 1) - P
  <2>1. k + 1 \in 0 .. P
    BY <1>1
  <2> QED BY <2>1, ModSum
<1> HIDE DEF y
<1>4. y \in Field /\ y # x
  BY <1>1, <1>2 DEF Field
<1>5. (y + 1) % P = IF y + 1 < P THEN y + 1 ELSE y + 1 - P
  <2>1. 1 \in 0 .. P
    BY <1>1
  <2> QED BY <1>4, <2>1, ModSum
<1>6. (y + 1) % P = (x + (k + 1)) % P
  BY <1>1, <1>2, <1>3, <1>5
<1> QED BY <1>4, <1>6 DEF y

(* A new account has a key of its own.                                     *)
LEMMA CreateFresh ==
  ASSUME TypeOK, KeysDistinct, NEW i \in Index, CreateAccount(i)
  PROVE  KeysDistinct'
<1>1. PICK key \in Keys \ {secretKeys[j] : j \in Index} :
        secretKeys' = [secretKeys EXCEPT ![i] = key]
  BY DEF CreateAccount
<1>2. \A j \in Index : secretKeys'[j] = IF j = i THEN key ELSE secretKeys[j]
  BY <1>1 DEF TypeOK
<1> QED BY <1>1, <1>2 DEF KeysDistinct

(* The transaction applied is signed by nobody before it.                  *)
LEMMA ApplyFresh ==
  ASSUME Fresh, NEW word \in Words, ApplyTransaction(word)
  PROVE  /\ KeysDistinct' /\ MessagesDistinct'
         /\ \A t \in Applied' : NonceMoved(t)'
<1> DEFINE delta == Delta(word)
           sOld == values[sIdx]
           rOld == values[rIdx]
           sNew == Debit(sOld, delta)
           rNew == Credit(rOld, delta)
<1>1. /\ sNew \in Value /\ rNew \in Value /\ sOld \in Value /\ rOld \in Value
      /\ values' = [values EXCEPT ![sIdx] = sNew, ![rIdx] = rNew]
      /\ initialRoots' = Append(initialRoots, tree)
      /\ witness' = [witness EXCEPT ![n] =
                      [key |-> secretKeys[sIdx], sOld |-> sOld, rOld |-> rOld,
                       sPath |-> Prove(tree, sIdx), rPath |-> Prove(tree', rIdx),
                       delta |-> delta]]
  BY ApplyEffect, ApplySlots DEF Fresh, Sound, ApplyTransaction, TypedSchedule, TypeOK
<1>2. /\ sIdx \in Index /\ rIdx \in Index /\ sIdx # rIdx
      /\ secretKeys[sIdx] # NoKey /\ secretKeys[rIdx] # NoKey
      /\ n \in Txs
  BY ApplySlots DEF Fresh, Sound, ApplyTransaction
<1>3. /\ witness \in [Txs -> Witness] /\ values \in [Index -> Value]
      /\ initialRoots \in Seq(Trees) /\ TreeInSync
      /\ \A t \in Txs : sIndices[t] \in Index /\ secretKeys[sIndices[t]] # NoKey
  BY DEF Fresh, Sound, TypedSchedule, TypeOK, Schedule, SendersDrawn,
     ApplyTransaction
<1>4. /\ secretKeys' = secretKeys /\ sIndices' = sIndices
      /\ sIndices[n] = sIdx /\ phase = "transactions"
  BY DEF ApplyTransaction, picks, sIdx
<1>5. Len(initialRoots) = n - 1 /\ Len(initialRoots') = n /\ n \in Nat
  BY <1>1, <1>2, <1>3, <1>4, BatchAssumption
     DEF Fresh, Sound, TypedSchedule, Schedule, RootsCount, Txs
<1>6. /\ sNew.pkey = sOld.pkey /\ rNew.pkey = rOld.pkey
      /\ sNew.nonce = (sOld.nonce + 1) % P /\ rNew.nonce = rOld.nonce
  BY <1>1 DEF Debit, Credit, Value
<1> HIDE DEF delta, sOld, rOld, sNew, rNew
<1>7. /\ Applied = 1 .. (n - 1) /\ Applied' = 1 .. n
      /\ Applied \subseteq Txs /\ n - 1 < P
  BY <1>2, <1>5, BatchAssumption, NonceAssumption, WidthAssumption DEF Applied, Txs
<1>8. /\ witness'[n].sOld = sOld /\ \A t \in Applied : witness'[t] = witness[t]
  BY <1>1, <1>2, <1>3, <1>7
<1>9. /\ \A i \in Index : /\ values'[i].pkey = values[i].pkey
                          /\ i # sIdx => values'[i].nonce = values[i].nonce
      /\ values'[sIdx].nonce = (sOld.nonce + 1) % P
  BY <1>1, <1>2, <1>3, <1>6 DEF sOld, rOld
<1>10. \A t \in Applied :
         /\ sIndices[t] \in Index /\ witness[t].sOld.nonce \in Field
         /\ witness[t].sOld.pkey = values[sIndices[t]].pkey
         /\ \E k \in 1 .. (n - t) :
              values[sIndices[t]].nonce = (witness[t].sOld.nonce + k) % P
  <2>1. ASSUME NEW t \in Applied
        PROVE  /\ sIndices[t] \in Index /\ witness[t].sOld.nonce \in Field
               /\ witness[t].sOld.pkey = values[sIndices[t]].pkey
               /\ \E k \in 1 .. (n - t) :
                    values[sIndices[t]].nonce = (witness[t].sOld.nonce + k) % P
    <3>1. t \in Txs /\ (n - 1) + 1 - t = n - t
      BY <1>5, <1>7 DEF Txs
    <3>2. NonceMoved(t)
      BY DEF Fresh
    <3>3. witness[t].sOld \in Value
      BY <1>3, <3>1 DEF Witness
    <3> QED BY <1>3, <1>5, <3>1, <3>2, <3>3 DEF NonceMoved, Value
  <2> QED BY <2>1
<1>11. KeysDistinct'
  BY <1>4 DEF Fresh, KeysDistinct
<1>12. ASSUME NEW t \in Applied' PROVE NonceMoved(t)'
  <2> DEFINE s == sIndices[t]
             x == witness'[t].sOld.nonce
  <2>1. CASE t = n
    <3>1. values'[s].nonce = (x + 1) % P /\ 1 \in 1 .. (n + 1 - t)
      BY <1>4, <1>5, <1>8, <1>9, <2>1
    <3>2. witness'[t].sOld.pkey = values'[s].pkey
      BY <1>2, <1>4, <1>8, <1>9, <2>1 DEF sOld
    <3> QED BY <1>4, <1>5, <3>1, <3>2 DEF NonceMoved
  <2>2. CASE t # n
    <3>1. t \in Applied /\ witness'[t] = witness[t] /\ t \in Nat
      BY <1>5, <1>7, <1>8, <2>2
    <3>2. PICK k \in 1 .. (n - t) : values[s].nonce = (x + k) % P
      BY <1>10, <3>1
    <3>3. x \in Field /\ s \in Index /\ witness'[t].sOld.pkey = values'[s].pkey
      BY <1>9, <1>10, <3>1
    <3>4. k \in 1 .. (P - 1) /\ k \in 1 .. (n + 1 - t) /\ k + 1 \in 1 .. (n + 1 - t)
      BY <1>5, <1>7, <3>1, WidthAssumption
    <3>5. \E j \in 1 .. (n + 1 - t) : values'[s].nonce = (x + j) % P
      <4>1. CASE s = sIdx
        <5>1. values'[s].nonce = (values[s].nonce + 1) % P
          BY <1>9, <4>1 DEF sOld
        <5>2. (((x + k) % P) + 1) % P = (x + (k + 1)) % P
          BY <3>3, <3>4, NonceSteps
        <5> QED BY <3>2, <3>4, <5>1, <5>2
      <4>2. CASE s # sIdx
        BY <1>9, <3>2, <3>3, <3>4, <4>2
      <4> QED BY <4>1, <4>2
    <3> QED BY <1>4, <1>5, <3>3, <3>5 DEF NonceMoved
  <2> QED BY <2>1, <2>2
<1>13. \A t \in Applied : ~(/\ witness[t].sOld.pkey = sOld.pkey
                            /\ witness[t].sOld.nonce = sOld.nonce)
  <2> SUFFICES ASSUME NEW t \in Applied, witness[t].sOld.pkey = sOld.pkey
               PROVE  witness[t].sOld.nonce # sOld.nonce
    OBVIOUS
  <2>1. sIndices[t] = sIdx
    <3>1. /\ sIndices[t] \in Index /\ secretKeys[sIndices[t]] # NoKey
          /\ values[sIndices[t]].pkey = values[sIdx].pkey
      BY <1>3, <1>7, <1>10 DEF sOld
    <3>2. PublicKey(secretKeys[sIndices[t]]) = PublicKey(secretKeys[sIdx])
      BY <1>2, <1>3, <3>1 DEF TreeInSync
    <3>3. secretKeys[sIndices[t]] = secretKeys[sIdx]
      <4>1. PublicKey(secretKeys[sIndices[t]]).secret = PublicKey(secretKeys[sIdx]).secret
        BY <3>2
      <4> QED BY <4>1 DEF PublicKey
    <3> QED BY <1>2, <3>1, <3>3 DEF Fresh, KeysDistinct
  <2> DEFINE x == witness[t].sOld.nonce
  <2>2. PICK k \in 1 .. (n - t) : values[sIndices[t]].nonce = (x + k) % P
    BY <1>10
  <2>3. x \in Field /\ k \in 1 .. (P - 1)
    BY <1>5, <1>7, <1>10, WidthAssumption
  <2> HIDE DEF x
  <2>4. (x + k) % P # x
    BY <2>3, NonceSteps
  <2> QED BY <2>1, <2>2, <2>4 DEF sOld, x
<1>14. MessagesDistinct'
  <2>1. \A t \in Applied : Message(t)' = Message(t)
    BY <1>8 DEF Message
  <2>2. PICK m : m = n
    OBVIOUS
  <2>3. Message(m)'.sender = sOld.pkey /\ Message(m)'.nonce = sOld.nonce
    BY <1>8, <2>2 DEF Message, TxMessage
  <2>4. \A t : /\ Message(t).sender = witness[t].sOld.pkey
               /\ Message(t).nonce = witness[t].sOld.nonce
    BY DEF Message, TxMessage
  <2>5. \A t \in Applied : Message(t)' # Message(m)'
    BY <1>13, <2>1, <2>3, <2>4
  <2>6. \A t \in Applied' : t \in Applied \/ t = m
    BY <1>5, <1>7, <2>2
  <2>7. \A t, u \in Applied : t # u => Message(t) # Message(u)
    BY DEF Fresh, MessagesDistinct
  <2>8. \A t, u \in Applied' : t # u => Message(t)' # Message(u)'
    BY <2>1, <2>5, <2>6, <2>7
  <2> QED BY <2>8 DEF MessagesDistinct
<1> QED BY <1>11, <1>12, <1>14

(* Every step keeps keys and nonces apart.                                 *)
LEMMA NextFresh == Fresh /\ [Next]_vars => Fresh'
<1> SUFFICES ASSUME Fresh, [Next]_vars PROVE Fresh'
  OBVIOUS
<1>0. Sound'
  BY NextSound DEF Fresh
<1>1. ASSUME KeysDistinct', initialRoots' = <<>> PROVE Fresh'
  BY <1>0, <1>1 DEF Fresh, MessagesDistinct, Applied
<1>2. ASSUME UNCHANGED <<secretKeys, values, sIndices, initialRoots, witness>>
      PROVE  Fresh'
  <2>1. KeysDistinct' /\ MessagesDistinct' /\ Applied' = Applied
    BY <1>2 DEF Fresh, KeysDistinct, MessagesDistinct, Applied, Message
  <2>2. \A t : NonceMoved(t)' <=> NonceMoved(t)
    BY <1>2 DEF NonceMoved
  <2> QED BY <1>0, <2>1, <2>2 DEF Fresh
<1>3. phase \in {"senders", "receivers"} => initialRoots = <<>>
  BY DEF Fresh, Sound, TypedSchedule, Schedule, RootsCount, TypeOK
<1>4. ASSUME NEW i \in Index, FillSender(i) PROVE Fresh'
  <2>1. KeysDistinct'
    BY <1>4, CreateFresh DEF Fresh, Sound, TypedSchedule, FillSender
  <2> QED BY <1>1, <1>3, <1>4, <2>1 DEF FillSender, record
<1>5. ASSUME NEW i \in Index, DrawReceiver(i) PROVE Fresh'
  BY <1>2, <1>5 DEF DrawReceiver, accounts, record
<1>6. CASE PickReceiver
  <2>1. rIndex \in Index
    BY <1>6 DEF PickReceiver, Fresh, Sound, TypedSchedule, TypeOK
  <2>2. KeysDistinct'
    <3>1. CASE CreateAccount(rIndex)
      BY <2>1, <3>1, CreateFresh DEF Fresh, Sound, TypedSchedule
    <3>2. CASE UNCHANGED accounts
      BY <3>2 DEF Fresh, KeysDistinct, accounts
    <3> QED BY <1>6, <3>1, <3>2 DEF PickReceiver
  <2> QED BY <1>1, <1>3, <1>6, <2>2 DEF PickReceiver, record
<1>7. ASSUME NEW word \in Words, ApplyTransaction(word) PROVE Fresh'
  BY <1>0, <1>7, ApplyFresh DEF Fresh
<1>8. CASE PanicOnEmptySender
  BY <1>2, <1>8 DEF PanicOnEmptySender, accounts, picks, record
<1>9. CASE TakeFinalRoot
  BY <1>2, <1>9 DEF TakeFinalRoot, accounts, picks
<1>10. CASE SignTransaction
  BY <1>2, <1>10 DEF SignTransaction, accounts, picks, record
<1>11. CASE Construct
  BY <1>2, <1>11 DEF Construct, accounts, picks, record
<1>12. CASE UNCHANGED vars
  BY <1>2, <1>12 DEF vars, accounts, picks, record
<1> QED BY <1>4, <1>5, <1>6, <1>7, <1>8, <1>9, <1>10, <1>11, <1>12 DEF Next, Ended

(* MessagesDistinct for every batch that is shorter than the modulus, so   *)
(* that no nonce comes round (lib.rs 364, 376, 436-445).                   *)
THEOREM MessagesAlwaysDistinct == Spec => []MessagesDistinct
<1>1. Init => Fresh
  <2> SUFFICES ASSUME Init PROVE Fresh
    OBVIOUS
  <2>1. Sound
    BY InitSound
  <2>2. Applied = {}
    BY DEF Init, Applied
  <2>3. KeysDistinct
    BY DEF Init, KeysDistinct
  <2> QED BY <2>1, <2>2, <2>3 DEF Fresh, MessagesDistinct
<1>2. Fresh => MessagesDistinct
  BY DEF Fresh
<1> QED BY <1>1, <1>2, NextFresh, PTL DEF Spec

-----------------------------------------------------------------------------
(* The sum of all balances, an account at a time.                          *)
Pick == [s \in SUBSET Index |-> CHOOSE i \in s : TRUE]
Sums(v, g) ==
  g = [s \in SUBSET Index |->
         IF s = {} THEN 0 ELSE (v[Pick[s]].balance + g[s \ {Pick[s]}]) % P]
Partial(v) == CHOOSE g : Sums(v, g)

(* The total is the partial sum over all slots.                            *)
LEMMA TotalIsPartial ==
  /\ Total = Partial(values)[Index]
  /\ Total' = Partial(values')[Index]
<1>1. \A v : Partial(v) =
        CHOOSE g : g = [s \in SUBSET Index |->
                          IF s = {} THEN 0
                          ELSE (v[CHOOSE i \in s : TRUE].balance
                                  + g[s \ {CHOOSE i \in s : TRUE}]) % P]
  <2>1. \A s \in SUBSET Index : Pick[s] = CHOOSE i \in s : TRUE
    BY DEF Pick
  <2> DEFINE F(v, g) == [s \in SUBSET Index |->
                           IF s = {} THEN 0
                           ELSE (v[CHOOSE i \in s : TRUE].balance
                                   + g[s \ {CHOOSE i \in s : TRUE}]) % P]
  <2>2. \A v, g : Sums(v, g) <=> g = F(v, g)
    BY <2>1 DEF Sums
  <2> HIDE DEF F
  <2>3. \A v : Partial(v) = CHOOSE g : g = F(v, g)
    BY ONLY <2>2 DEF Partial
  <2> QED BY <2>3 DEF F
<1> QED BY <1>1 DEF Total, FoldSet, MapThenFoldSet

(* The slot a sum takes next is one of those left.                         *)
LEMMA PickSteps == Picks(Pick, Index)
BY DEF Picks, Pick

(* A partial sum is the balance of one slot and the sum over the rest.     *)
LEMMA PartialSteps ==
  ASSUME NEW v, v \in [Index -> Value]
  PROVE  /\ Partial(v) \in [SUBSET Index -> Field]
         /\ \A s \in SUBSET Index :
              Partial(v)[s] = IF s = {} THEN 0
                              ELSE (v[Pick[s]].balance + Partial(v)[s \ {Pick[s]}]) % P
<1> DEFINE Add == [i \in Index |-> [x \in Field |-> (v[i].balance + x) % P]]
<1>1. Add \in [Index -> [Field -> Field]] /\ 0 \in Field
  <2>1. ASSUME NEW i \in Index, NEW x \in Field PROVE (v[i].balance + x) % P \in Field
    <3>1. v[i].balance \in Field
      BY DEF Value
    <3>2. v[i].balance + x \in Int
      BY <3>1, WidthAssumption DEF Field
    <3> QED BY <3>2, ModField
  <2> QED BY <2>1, WidthAssumption DEF Field
<1>2. PICK g : FoldedBy(g, Index, Field, Pick, 0, Add)
  <2> HIDE DEF Add
  <2> QED BY <1>1, PickSteps, TreeAssumption, SubsetRecursion
<1>3. \A s \in SUBSET Index :
        g[s] = IF s = {} THEN 0 ELSE (v[Pick[s]].balance + g[s \ {Pick[s]}]) % P
  <2>1. \A s \in SUBSET Index : s # {} =>
          Add[Pick[s]][g[s \ {Pick[s]}]] = (v[Pick[s]].balance + g[s \ {Pick[s]}]) % P
    BY <1>2, PickSteps DEF FoldedBy, Picks
  <2> QED BY <1>2, <2>1 DEF FoldedBy
<1>4. Sums(v, g)
  <2>1. g = [s \in SUBSET Index |-> g[s]]
    BY <1>2 DEF FoldedBy
  <2> QED BY <1>3, <2>1 DEF Sums
<1>5. Sums(v, Partial(v))
  BY <1>4 DEF Partial
<1>6. \A s \in SUBSET Index :
        Partial(v)[s] = IF s = {} THEN 0
                        ELSE (v[Pick[s]].balance + Partial(v)[s \ {Pick[s]}]) % P
  BY <1>5 DEF Sums
<1>7. \A s \in SUBSET Index : Partial(v)[s] \in Field
  <2> DEFINE T == {s \in SUBSET Index : Partial(v)[s] \in Field}
  <2>1. {} \in T
    BY <1>1, <1>6
  <2>2. ASSUME NEW s \in SUBSET Index, s # {}, s \ {Pick[s]} \in T PROVE s \in T
    <3>1. v[Pick[s]].balance \in Field /\ Partial(v)[s \ {Pick[s]}] \in Field
      BY <2>2, PickSteps DEF Value, Picks
    <3>2. v[Pick[s]].balance + Partial(v)[s \ {Pick[s]}] \in Int
      BY <3>1, WidthAssumption DEF Field
    <3> QED BY <1>6, <2>2, <3>2, ModField
  <2>3. SUBSET Index \subseteq T
    <3>1. \A s \in SUBSET Index : s # {} /\ s \ {Pick[s]} \in T => s \in T
      BY <2>2
    <3> HIDE DEF T
    <3> QED BY ONLY <2>1, <3>1, PickSteps, TreeAssumption, SubsetInduction
  <2> QED BY <2>3
<1>8. Partial(v) = [s \in SUBSET Index |-> Partial(v)[s]]
  BY <1>5 DEF Sums
<1> QED BY <1>6, <1>7, <1>8

(* Reducing a summand does not change the reduced sum.                     *)
LEMMA ModAdd ==
  ASSUME NEW x \in Int, NEW y \in Int
  PROVE  (x + (y % P)) % P = (x + y) % P
<1> DEFINE q1 == y \div P
           r1 == y % P
           q2 == (x + r1) \div P
           r2 == (x + r1) % P
<1>1. P \in Nat \ {0}
  BY WidthAssumption
<1>2. y = P * q1 + r1 /\ q1 \in Int /\ r1 \in 0 .. (P - 1)
  BY <1>1, Division
<1>3. x + r1 = P * q2 + r2 /\ q2 \in Int /\ r2 \in 0 .. (P - 1)
  <2>1. x + r1 \in Int
    BY <1>2
  <2> HIDE DEF r1
  <2> QED BY <1>1, <2>1, Division
<1> HIDE DEF q1, r1, q2, r2
<1>4. x + y = P * (q1 + q2) + r2
  <2>1. P * (q1 + q2) = P * q1 + P * q2 /\ P * q1 \in Int /\ P * q2 \in Int
    BY <1>1, <1>2, <1>3
  <2> QED BY <1>2, <1>3, <2>1
<1>5. (x + y) % P = r2
  <2> DEFINE j == x + y
             q == q1 + q2
  <2>1. j = P * q + r2 /\ q \in Int
    BY <1>2, <1>3, <1>4
  <2> HIDE DEF j, q
  <2>2. j % P = r2
    BY <1>1, <1>3, <2>1
  <2> QED BY <2>2 DEF j
<1> QED BY <1>5 DEF r1, r2

(* A transfer shifts the partial sums that hold one of its accounts.       *)
LEMMA PartialShift ==
  ASSUME NEW v, NEW w, v \in [Index -> Value], w \in [Index -> Value],
         NEW a \in Index, NEW b \in Index, a # b, NEW d \in Field,
         w[a].balance = (v[a].balance - d) % P,
         w[b].balance = (v[b].balance + d) % P,
         \A i \in Index \ {a, b} : w[i].balance = v[i].balance
  PROVE  Partial(w)[Index] = Partial(v)[Index]
<1> DEFINE Shift(s) == (IF a \in s THEN -d ELSE 0) + (IF b \in s THEN d ELSE 0)
           T == {s \in SUBSET Index : Partial(w)[s] = (Partial(v)[s] + Shift(s)) % P}
<1>1. d \in Int /\ \A x \in Field : x \in Int
  BY WidthAssumption DEF Field
<1>2. \A s \in SUBSET Index : /\ Partial(v)[s] \in Field /\ Partial(w)[s] \in Field
                             /\ Shift(s) \in Int
  BY <1>1, PartialSteps
<1>3. \A i \in Index : v[i].balance \in Field /\ w[i].balance \in Field
  BY DEF Value
<1>4. {} \in T
  <2>1. Partial(w)[{}] = 0 /\ Partial(v)[{}] = 0
    BY PartialSteps
  <2>2. Shift({}) = 0 /\ 0 % P = 0
    BY WidthAssumption
  <2> QED BY <2>1, <2>2
<1>5. ASSUME NEW s \in SUBSET Index, s # {}, s \ {Pick[s]} \in T PROVE s \in T
  <2> DEFINE i == Pick[s]
             u == s \ {Pick[s]}
             one == IF i = a THEN -d ELSE IF i = b THEN d ELSE 0
             x == v[i].balance
             y == Partial(v)[u]
  <2>1. i \in s /\ i \in Index /\ u \in SUBSET Index
    BY <1>5, PickSteps DEF Picks
  <2>2. Partial(w)[s] = (w[i].balance + Partial(w)[u]) % P
        /\ Partial(v)[s] = (x + y) % P
    BY <1>5, PartialSteps
  <2>3. Partial(w)[u] = (y + Shift(u)) % P
    BY <1>5
  <2>4. w[i].balance = (x + one) % P /\ one \in Int /\ x \in Int /\ y \in Int
        /\ Shift(u) \in Int /\ w[i].balance \in Int
    <3>1. x \in Field /\ y \in Field /\ w[i].balance \in Field
      BY <1>2, <1>3, <2>1
    <3>2. x % P = x
      BY <3>1, ModIdentity
    <3>3. w[i].balance = (x + one) % P
      <4>1. i = a \/ i = b \/ i \in Index \ {a, b}
        BY <2>1
      <4> HIDE DEF i
      <4>2. CASE i = a
        BY <1>1, <3>1, <4>2
      <4>3. CASE i = b
        BY <4>3
      <4>4. CASE i \in Index \ {a, b}
        <5>1. one = 0 /\ w[i].balance = x
          BY <4>4
        <5> HIDE DEF one, x
        <5>2. x + one = x
          BY <1>1, <3>1, <5>1
        <5> QED BY <3>2, <5>1, <5>2
      <4> QED BY <4>1, <4>2, <4>3, <4>4
    <3>4. one \in Int /\ Shift(u) \in Int
      BY <1>1, <2>1
    <3> HIDE DEF i, u, one, x, y, Shift
    <3> QED BY <1>1, <3>1, <3>3, <3>4
  <2>5. Shift(s) = Shift(u) + one
    BY <1>1, <2>1
  <2> HIDE DEF i, u, one, x, y, Shift
  <2>6. Partial(w)[s] = (w[i].balance + (y + Shift(u))) % P
    <3>1. y + Shift(u) \in Int
      BY <2>4
    <3> QED BY <2>2, <2>3, <2>4, <3>1, ModAdd
  <2>7. Partial(w)[s] = ((y + Shift(u)) + (x + one)) % P
    <3>1. y + Shift(u) \in Int /\ x + one \in Int
      BY <2>4
    <3>2. w[i].balance + (y + Shift(u)) = (y + Shift(u)) + w[i].balance
      BY <2>4, <3>1
    <3>3. ((y + Shift(u)) + ((x + one) % P)) % P = ((y + Shift(u)) + (x + one)) % P
      BY <3>1, ModAdd
    <3> QED BY <2>4, <2>6, <3>2, <3>3
  <2>8. (Partial(v)[s] + Shift(s)) % P = ((y + Shift(u)) + (x + one)) % P
    <3>1. x + y \in Int /\ Shift(s) \in Int
      BY <2>4, <2>5
    <3>2. (Shift(s) + ((x + y) % P)) % P = (Shift(s) + (x + y)) % P
      BY <3>1, ModAdd
    <3>3. Shift(s) + (x + y) = (y + Shift(u)) + (x + one)
      BY <2>4, <2>5
    <3>4. (x + y) % P \in Int
      BY <3>1, WidthAssumption
    <3>5. Partial(v)[s] + Shift(s) = Shift(s) + ((x + y) % P)
      BY <2>2, <3>1, <3>4
    <3> QED BY <3>2, <3>3, <3>5
  <2> QED BY <2>7, <2>8 DEF Shift
<1>6. SUBSET Index \subseteq T
  <2>1. \A s \in SUBSET Index : s # {} /\ s \ {Pick[s]} \in T => s \in T
    BY <1>5
  <2> HIDE DEF T
  <2> QED BY ONLY <1>4, <2>1, PickSteps, TreeAssumption, SubsetInduction
<1>7. Partial(w)[Index] = (Partial(v)[Index] + Shift(Index)) % P
  BY <1>6
<1>8. Shift(Index) = 0
  BY <1>1
<1>9. Partial(v)[Index] \in Field
  BY <1>2
<1>10. \A x \in Field : (x + 0) % P = x
  BY ModIdentity, WidthAssumption DEF Field
<1> HIDE DEF Shift
<1> QED BY <1>7, <1>8, <1>9, <1>10

(* FundsConserved for every tree and batch: the field's sum of all         *)
(* balances survives every transaction, wrapped or not (lib.rs 375-377).   *)
THEOREM FundsAlwaysConserved == Spec => FundsConserved
<1>1. ASSUME TypedSchedule, [Next]_vars, phase = "transactions"
      PROVE  Total' = Total
  <2>1. CASE UNCHANGED values
    BY <2>1, TotalIsPartial
  <2>2. ASSUME NEW word \in Words, ApplyTransaction(word) PROVE Total' = Total
    <3> DEFINE delta == Delta(word)
               sNew == Debit(values[sIdx], delta)
               rNew == Credit(values[rIdx], delta)
    <3>1. /\ delta \in Field /\ sNew \in Value /\ rNew \in Value
          /\ values' = [values EXCEPT ![sIdx] = sNew, ![rIdx] = rNew]
      BY <1>1, <2>2, ApplyEffect
    <3>2. /\ sIdx \in Index /\ rIdx \in Index /\ sIdx # rIdx
          /\ values \in [Index -> Value]
      BY <1>1, ApplySlots DEF TypedSchedule, TypeOK
    <3>3. /\ sNew.balance = (values[sIdx].balance - delta) % P
          /\ rNew.balance = (values[rIdx].balance + delta) % P
      BY <3>2 DEF Debit, Credit, Value
    <3> HIDE DEF delta, sNew, rNew
    <3> DEFINE w == values'
    <3>4. /\ w \in [Index -> Value]
          /\ w[sIdx].balance = (values[sIdx].balance - delta) % P
          /\ w[rIdx].balance = (values[rIdx].balance + delta) % P
          /\ \A i \in Index \ {sIdx, rIdx} : w[i].balance = values[i].balance
      BY <3>1, <3>2, <3>3
    <3> HIDE DEF w
    <3>5. Partial(w)[Index] = Partial(values)[Index]
      BY <3>1, <3>2, <3>4, PartialShift
    <3> QED BY <3>5, TotalIsPartial DEF w
  <2>3. values' = values \/ \E word \in Words : ApplyTransaction(word)
    BY <1>1 DEF Next, FillSender, DrawReceiver, PickReceiver, PanicOnEmptySender,
       TakeFinalRoot, SignTransaction, Construct, Ended, accounts, vars
  <2> QED BY <2>1, <2>2, <2>3
<1>2. Spec => []TypedSchedule
  BY InitTyped, NextTyped, PTL DEF Spec
<1>3. TypedSchedule /\ [Next]_vars => [phase = "transactions" => Total' = Total]_vars
  BY <1>1
<1> QED BY <1>2, <1>3, PTL DEF Spec, FundsConserved

-----------------------------------------------------------------------------
(* The panic.  An account that is drawn empty, or that a credit wraps, is  *)
(* the only one a transfer can find empty.                                 *)
Wrapped(i) == \E t \in Applied : /\ rIndices[t] = i
                                 /\ witness[t].rOld.balance + witness[t].delta >= P
Solvent(i) == values[i].balance > 0 \/ FirstBalance(i) = 0 \/ Wrapped(i)
Accounted == /\ TypedSchedule
             /\ \A i \in Index : Solvent(i)
             /\ PanicExplained

(* The remainder by zero is taken only of an empty account.                *)
LEMMA EmptySender ==
  ASSUME TypedSchedule, PanicOnEmptySender
  PROVE  values[sIdx].balance = 0
<1>1. values[sIdx] \in Value /\ values[rIdx] \in Value
  BY ApplySlots DEF PanicOnEmptySender, TypedSchedule, TypeOK
<1>2. values[rIdx].balance \in Field /\ values[sIdx].balance \in Field
  BY <1>1 DEF Value
<1>3. MaxU64 - values[rIdx].balance > 0
  BY <1>2, WidthAssumption DEF Field
<1> QED BY <1>2, <1>3 DEF PanicOnEmptySender, DeltaBound, Smaller

(* The least element of a set is the one chosen.                           *)
LEMMA LeastChosen ==
  ASSUME NEW T \in SUBSET Nat, NEW t \in T, \A u \in T : t <= u
  PROVE  (CHOOSE x \in T : \A u \in T : x <= u) = t
<1> DEFINE c == CHOOSE x \in T : \A u \in T : x <= u
<1>1. c \in T /\ \A u \in T : c <= u
  OBVIOUS
<1> HIDE DEF c
<1>2. c <= t /\ t <= c /\ c \in Nat /\ t \in Nat
  BY <1>1
<1>3. c = t
  BY <1>2
<1> QED BY <1>3 DEF c

(* The transactions so far that touched slot i, and what they say of its   *)
(* first balance.                                                          *)
Touched(i) == {t \in Applied : i \in {sIndices[t], rIndices[t]}}
OldBalance(i, t) == IF sIndices[t] = i THEN witness[t].sOld.balance
                                       ELSE witness[t].rOld.balance

(* The balance of a slot before the first transfer that touches it.        *)
LEMMA FirstIs ==
  ASSUME NEW i, Applied \subseteq Nat
  PROVE  /\ Touched(i) = {} => FirstBalance(i) = values[i].balance
         /\ \A t \in Touched(i) : (\A u \in Touched(i) : t <= u)
              => FirstBalance(i) = OldBalance(i, t)
<1>1. Touched(i) = {} => FirstBalance(i) = values[i].balance
  BY DEF FirstBalance, Touched
<1>2. ASSUME NEW t \in Touched(i), \A u \in Touched(i) : t <= u
      PROVE  FirstBalance(i) = OldBalance(i, t)
  <2>1. Touched(i) \subseteq Nat
    BY DEF Touched
  <2>2. (CHOOSE x \in Touched(i) : \A u \in Touched(i) : x <= u) = t
    BY <1>2, <2>1, LeastChosen
  <2>3. FirstBalance(i) =
          OldBalance(i, CHOOSE x \in Touched(i) : \A u \in Touched(i) : x <= u)
    BY <1>2 DEF FirstBalance, Touched, OldBalance
  <2> QED BY <2>2, <2>3
<1> QED BY <1>1, <1>2

(* The same of the next state.                                             *)
LEMMA FirstIsNext ==
  ASSUME NEW i, Applied' \subseteq Nat
  PROVE  /\ Touched(i)' = {} => FirstBalance(i)' = values'[i].balance
         /\ \A t \in Touched(i)' : (\A u \in Touched(i)' : t <= u)
              => FirstBalance(i)' = OldBalance(i, t)'
<1>1. Touched(i)' = {} => FirstBalance(i)' = values'[i].balance
  BY DEF FirstBalance, Touched
<1>2. ASSUME NEW t \in Touched(i)', \A u \in Touched(i)' : t <= u
      PROVE  FirstBalance(i)' = OldBalance(i, t)'
  <2> DEFINE T == Touched(i)'
  <2>1. T \subseteq Nat
    BY DEF Touched
  <2>2. (CHOOSE x \in T : \A u \in T : x <= u) = t
    <3> HIDE DEF T
    <3>1. t \in T /\ \A u \in T : t <= u
      BY <1>2 DEF T
    <3> QED BY <2>1, <3>1, LeastChosen
  <2>3. FirstBalance(i)' =
          LET x == CHOOSE x \in T : \A u \in T : x <= u
          IN IF sIndices'[x] = i THEN witness'[x].sOld.balance
                                 ELSE witness'[x].rOld.balance
    BY <1>2 DEF FirstBalance, Touched
  <2> QED BY <2>2, <2>3 DEF OldBalance
<1> QED BY <1>1, <1>2

(* A transaction leaves every first balance as it was and every account    *)
(* solvent.                                                                *)
LEMMA ApplySolvent ==
  ASSUME Accounted, NEW word \in Words, ApplyTransaction(word), NEW i \in Index
  PROVE  Solvent(i)'
<1> DEFINE delta == Delta(word)
           sOld == values[sIdx]
           rOld == values[rIdx]
           sNew == Debit(sOld, delta)
           rNew == Credit(rOld, delta)
<1>1. /\ delta \in Field /\ delta < sOld.balance
      /\ sOld \in Value /\ rOld \in Value
      /\ values' = [values EXCEPT ![sIdx] = sNew, ![rIdx] = rNew]
      /\ initialRoots' = Append(initialRoots, tree)
      /\ witness' = [witness EXCEPT ![n] =
                      [key |-> secretKeys[sIdx], sOld |-> sOld, rOld |-> rOld,
                       sPath |-> Prove(tree, sIdx), rPath |-> Prove(tree', rIdx),
                       delta |-> delta]]
  BY ApplyEffect, ApplySlots DEF Accounted, ApplyTransaction, TypedSchedule, TypeOK
<1>2. /\ sIdx \in Index /\ rIdx \in Index /\ sIdx # rIdx /\ n \in Txs
      /\ witness \in [Txs -> Witness] /\ values \in [Index -> Value]
      /\ initialRoots \in Seq(Trees)
      /\ sIndices' = sIndices /\ rIndices' = rIndices
      /\ sIndices[n] = sIdx /\ rIndices[n] = rIdx
  BY ApplySlots DEF Accounted, ApplyTransaction, TypedSchedule, TypeOK, picks, sIdx, rIdx
<1>3. /\ n \in Nat /\ Applied = 1 .. (n - 1) /\ Applied' = 1 .. n
      /\ Applied \subseteq Nat /\ Applied' \subseteq Nat /\ n \notin Applied
      /\ Applied \subseteq Txs
  <2>1. Len(initialRoots) = n - 1 /\ Len(initialRoots') = n /\ n \in Nat /\ n <= NumTx
    BY <1>1, <1>2, BatchAssumption
       DEF Accounted, TypedSchedule, Schedule, RootsCount, Txs, ApplyTransaction
  <2> QED BY <2>1, BatchAssumption DEF Applied, Txs
<1>4. /\ sOld.balance \in Field /\ rOld.balance \in Field
      /\ sNew.balance = (sOld.balance - delta) % P
      /\ rNew.balance = (rOld.balance + delta) % P
  BY <1>1 DEF Debit, Credit, Value
<1> HIDE DEF delta, sOld, rOld, sNew, rNew
<1>5. /\ witness'[n].sOld = sOld /\ witness'[n].rOld = rOld /\ witness'[n].delta = delta
      /\ \A t \in Applied : witness'[t] = witness[t]
  BY <1>1, <1>2, <1>3
<1>6. FirstBalance(i)' = FirstBalance(i)
  <2>1. CASE Touched(i) = {}
    <3>1. FirstBalance(i) = values[i].balance
      BY <1>3, <2>1, FirstIs
    <3>2. CASE i \notin {sIdx, rIdx}
      <4>1. Touched(i)' = {} /\ values'[i] = values[i]
        BY <1>1, <1>2, <1>3, <2>1, <3>2 DEF Touched
      <4> QED BY <1>3, <3>1, <4>1, FirstIsNext
    <3>3. CASE i \in {sIdx, rIdx}
      <4>1. PICK t : t = n
        OBVIOUS
      <4>2. Touched(i)' = {t}
        BY <1>2, <1>3, <2>1, <3>3, <4>1 DEF Touched
      <4>3. FirstBalance(i)' = OldBalance(i, t)'
        <5>1. t <= t
          BY <1>3, <4>1
        <5> QED BY <1>3, <4>2, <5>1, FirstIsNext
      <4>4. OldBalance(i, t)' = values[i].balance
        BY <1>2, <1>5, <3>3, <4>1 DEF OldBalance, sOld, rOld
      <4> QED BY <3>1, <4>3, <4>4
    <3> QED BY <3>2, <3>3
  <2>2. CASE Touched(i) # {}
    <3>1. PICK t \in Touched(i) : \A u \in Touched(i) : t <= u
      <4>1. Touched(i) \in SUBSET Nat
        BY <1>3 DEF Touched
      <4> QED BY <2>2, <4>1, LeastNatural
    <3>2. FirstBalance(i) = OldBalance(i, t)
      BY <1>3, <3>1, FirstIs
    <3>3. t \in Touched(i)' /\ t \in Applied /\ \A u \in Touched(i)' : t <= u
      <4>1. t \in Applied /\ t \in Nat /\ t <= n
        BY <1>3 DEF Touched
      <4>2. \A u \in Touched(i)' : u \in Touched(i) \/ u = n
        BY <1>2, <1>3 DEF Touched
      <4>3. t \in Touched(i)'
        BY <1>2, <1>3, <4>1 DEF Touched
      <4> QED BY <3>1, <4>1, <4>2, <4>3
    <3>4. FirstBalance(i)' = OldBalance(i, t)'
      BY <1>3, <3>3, FirstIsNext
    <3>5. OldBalance(i, t)' = OldBalance(i, t)
      BY <1>2, <1>5, <3>3 DEF OldBalance
    <3> QED BY <3>2, <3>4, <3>5
  <2> QED BY <2>1, <2>2
<1>7. Wrapped(i) => Wrapped(i)'
  BY <1>2, <1>3, <1>5 DEF Wrapped
<1>8. Solvent(i)
  BY DEF Accounted
<1>9. CASE i = sIdx
  <2>1. values'[i].balance = sOld.balance - delta
    <3>1. sOld.balance - delta \in Field
      BY <1>1, <1>4, WidthAssumption DEF Field
    <3> QED BY <1>1, <1>2, <1>4, <1>9, <3>1, ModIdentity
  <2>2. values'[i].balance > 0
    BY <1>1, <1>4, <2>1, WidthAssumption DEF Field
  <2> QED BY <2>2 DEF Solvent
<1>10. CASE i = rIdx
  <2>1. values'[i].balance = (rOld.balance + delta) % P
    BY <1>1, <1>2, <1>4, <1>10
  <2>2. rOld.balance \in Nat /\ delta \in Nat
    BY <1>1, <1>4, WidthAssumption DEF Field
  <2>3. CASE rOld.balance + delta >= P
    <3>1. Wrapped(i)'
      <4>1. PICK t : t = n
        OBVIOUS
      <4>2. /\ t \in Applied' /\ rIndices'[t] = i
            /\ witness'[t].rOld.balance + witness'[t].delta >= P
        <5>1. t \in Applied'
          BY <1>2, <1>3, <4>1 DEF Txs
        <5>2. rIndices'[t] = i
          BY <1>2, <1>10, <4>1
        <5>3. witness'[t].rOld = rOld /\ witness'[t].delta = delta
          BY <1>5, <4>1
        <5>4. witness'[t].rOld.balance + witness'[t].delta >= P
          BY ONLY <2>3, <5>3
        <5> QED BY <5>1, <5>2, <5>4
      <4> QED BY ONLY <4>2 DEF Wrapped
    <3> QED BY <3>1 DEF Solvent
  <2>4. CASE ~(rOld.balance + delta >= P)
    <3>1. values'[i].balance = rOld.balance + delta
      <4>1. rOld.balance + delta \in Field
        BY <2>2, <2>4, WidthAssumption DEF Field
      <4> QED BY <2>1, <4>1, ModIdentity
    <3>2. CASE rOld.balance > 0
      BY <2>2, <3>1, <3>2 DEF Solvent
    <3>3. CASE ~(rOld.balance > 0)
      BY <1>6, <1>7, <1>8, <1>10, <3>3 DEF Solvent, rOld
    <3> QED BY <3>2, <3>3
  <2> QED BY <2>3, <2>4
<1>11. CASE i \notin {sIdx, rIdx}
  BY <1>1, <1>2, <1>6, <1>7, <1>8, <1>11 DEF Solvent
<1> QED BY <1>9, <1>10, <1>11

(* Every step keeps all accounts solvent.                                  *)
LEMMA NextAccounted == Accounted /\ [Next]_vars => Accounted'
<1> SUFFICES ASSUME Accounted, [Next]_vars PROVE Accounted'
  OBVIOUS
<1>0. TypedSchedule'
  BY NextTyped DEF Accounted
<1>1. ASSUME initialRoots' = <<>>, phase' # "panicked" PROVE Accounted'
  <2>1. ASSUME NEW i \in Index PROVE Solvent(i)'
    <3>1. Applied' = {}
      BY <1>1 DEF Applied
    <3>2. FirstBalance(i)' = values'[i].balance
      BY <3>1, FirstIsNext DEF Touched
    <3>3. values'[i].balance \in Field
      BY <1>0 DEF TypedSchedule, TypeOK, Value
    <3> QED BY <3>2, <3>3, WidthAssumption DEF Solvent, Field
  <2> QED BY <1>0, <1>1, <2>1 DEF Accounted, PanicExplained
<1>2. ASSUME UNCHANGED <<values, sIndices, rIndices, initialRoots, witness>>,
             phase' = "panicked" => PanicExplained'
      PROVE  Accounted'
  <2>1. ASSUME NEW i \in Index PROVE Solvent(i)'
    <3>1. Solvent(i)
      BY DEF Accounted
    <3>2. FirstBalance(i)' = FirstBalance(i)
      BY <1>2 DEF FirstBalance, Applied
    <3>3. Wrapped(i)' <=> Wrapped(i)
      BY <1>2 DEF Wrapped, Applied
    <3> QED BY <1>2, <3>1, <3>2, <3>3 DEF Solvent
  <2> QED BY <1>0, <1>2, <2>1 DEF Accounted, PanicExplained
<1>3. phase \in {"senders", "receivers"} => initialRoots = <<>>
  BY DEF Accounted, TypedSchedule, Schedule, RootsCount, TypeOK
<1>4. ASSUME NEW i \in Index, FillSender(i) PROVE Accounted'
  BY <1>1, <1>3, <1>4 DEF FillSender, record, Advance
<1>5. ASSUME NEW i \in Index, DrawReceiver(i) PROVE Accounted'
  BY <1>1, <1>3, <1>5 DEF DrawReceiver, record
<1>6. CASE PickReceiver
  BY <1>1, <1>3, <1>6 DEF PickReceiver, record, Advance
<1>7. ASSUME NEW word \in Words, ApplyTransaction(word) PROVE Accounted'
  <2>1. phase' # "panicked"
    BY <1>7 DEF ApplyTransaction, Advance
  <2>2. \A i \in Index : Solvent(i)'
    BY <1>7, ApplySolvent
  <2> QED BY <1>0, <2>1, <2>2 DEF Accounted, PanicExplained
<1>8. CASE PanicOnEmptySender
  <2>1. /\ UNCHANGED <<n, values, sIndices, rIndices, initialRoots, witness>>
        /\ sIdx \in Index
    BY <1>8, ApplySlots DEF PanicOnEmptySender, accounts, picks, record, Accounted
  <2>2. FirstBalance(sIdx) = 0 \/ Wrapped(sIdx)
    BY <1>8, <2>1, EmptySender DEF Accounted, Solvent
  <2>3. PanicExplained'
    BY <2>1, <2>2 DEF PanicExplained, FirstBalance, Wrapped, Applied, sIdx
  <2> QED BY <1>2, <2>1, <2>3
<1>9. CASE TakeFinalRoot
  BY <1>2, <1>9 DEF TakeFinalRoot, accounts, picks
<1>10. CASE SignTransaction
  BY <1>2, <1>10 DEF SignTransaction, accounts, picks, record, Advance
<1>11. CASE Construct
  BY <1>2, <1>11, ConstructTyped DEF Construct, accounts, picks, record, Accounted
<1>12. CASE UNCHANGED vars
  <2>1. PanicExplained'
    BY <1>12 DEF vars, accounts, picks, record, Accounted, PanicExplained,
       FirstBalance, Applied, sIdx
  <2> QED BY <1>2, <1>12, <2>1 DEF vars, accounts, picks, record
<1> QED BY <1>4, <1>5, <1>6, <1>7, <1>8, <1>9, <1>10, <1>11, <1>12 DEF Next, Ended

(* PanicExplained for every batch: no number of transfers sent empties an  *)
(* account, so the remainder by zero needs an empty draw or a wrapped      *)
(* credit (lib.rs 211-218, 355-359).                                       *)
THEOREM PanicAlwaysExplained == Spec => []PanicExplained
<1>1. Init => Accounted
  <2> SUFFICES ASSUME Init PROVE Accounted
    OBVIOUS
  <2>1. TypedSchedule /\ Applied = {}
    BY InitTyped DEF Init, Applied
  <2>2. ASSUME NEW i \in Index PROVE Solvent(i)
    <3>1. FirstBalance(i) = values[i].balance
      BY <2>1, FirstIs DEF Touched
    <3>2. values[i].balance = 0
      BY DEF Init, ZeroValue
    <3> QED BY <3>1, <3>2 DEF Solvent
  <2>3. PanicExplained
    BY DEF Init, PanicExplained
  <2> QED BY <2>1, <2>2, <2>3 DEF Accounted
<1>2. Accounted => PanicExplained
  BY DEF Accounted
<1> QED BY <1>1, <1>2, NextAccounted, PTL DEF Spec

-----------------------------------------------------------------------------
(* The builder implements the ledger.                                      *)

(* Opening an account is a step of the ledger before the first transfer.   *)
LEMMA CreateOpens ==
  ASSUME TypeOK, NEW i \in Index, CreateAccount(i),
         Len(initialRoots) = 0, UNCHANGED initialRoots,
         phase \notin {"returned", "panicked"},
         phase' \notin {"returned", "panicked"}
  PROVE  ledger!Open(i)
<1>1. PICK key \in Keys, value \in Value :
        /\ secretKeys' = [secretKeys EXCEPT ![i] = key]
        /\ values' = [values EXCEPT ![i] = value]
  BY CreateType
<1>2. Book' = [Book EXCEPT ![i] = value]
  BY <1>1, IdentityAssumption DEF Book, TypeOK
<1>3. /\ value = [pkey |-> value.pkey, balance |-> value.balance,
                  nonce |-> value.nonce]
      /\ value.pkey \in PublicKeys
      /\ value.balance \in Field /\ value.nonce \in Field
  BY DEF Value
<1>4. \E key2 \in PublicKeys, balance, nonce \in ledger!Amount :
        Book' = [Book EXCEPT ![i] = [pkey |-> key2, balance |-> balance,
                                     nonce |-> nonce]]
  BY <1>2, <1>3 DEF ledger!Amount, Field
<1> QED BY <1>4 DEF ledger!Open

(* Steps that leave accounts and roots alone are invisible.                *)
LEMMA BookKept ==
  ASSUME UNCHANGED <<secretKeys, values, initialRoots>>,
         phase \notin {"returned", "panicked"},
         phase' \notin {"returned", "panicked"}
  PROVE  UNCHANGED ledger!ledgerVars
BY DEF ledger!ledgerVars, Book

(* A transfer is one of the ledger.                                        *)
LEMMA ApplyTransfers ==
  ASSUME TypedSchedule, NEW word \in Words, ApplyTransaction(word)
  PROVE  ledger!LedgerNext
<1> DEFINE delta == Delta(word)
<1>1. /\ delta \in Field /\ delta < values[sIdx].balance
      /\ values' = [values EXCEPT ![sIdx] = Debit(values[sIdx], delta),
                                  ![rIdx] = Credit(values[rIdx], delta)]
      /\ initialRoots' = Append(initialRoots, tree)
  BY ApplyEffect
<1> HIDE DEF delta
<1>2. /\ sIdx \in Index /\ rIdx \in Index /\ sIdx # rIdx
      /\ secretKeys[sIdx] # NoKey /\ secretKeys[rIdx] # NoKey
      /\ n \in Txs
  BY ApplySlots DEF ApplyTransaction
<1>3. /\ values \in [Index -> Value] /\ initialRoots \in Seq(Trees)
      /\ Len(initialRoots) = n - 1
  BY DEF TypedSchedule, TypeOK, Schedule, RootsCount, ApplyTransaction
<1>4. /\ secretKeys' = secretKeys /\ phase = "transactions"
      /\ phase' \in {"transactions", "root"}
  BY DEF ApplyTransaction, Advance
<1>5. /\ Book[sIdx] = values[sIdx] /\ Book[sIdx] # EmptyLeaf
      /\ Book[rIdx] = values[rIdx] /\ Book[rIdx] # EmptyLeaf
  BY <1>2, <1>3, EmptyAssumption DEF Book
<1>6. Book' = [Book EXCEPT ![sIdx] = Debit(@, delta),
                           ![rIdx] = Credit(@, delta)]
  <2>1. \A j \in Index : Book'[j] = IF j = rIdx THEN Credit(Book[j], delta)
                                    ELSE IF j = sIdx THEN Debit(Book[j], delta)
                                    ELSE Book[j]
    BY <1>1, <1>2, <1>3, <1>4, <1>5 DEF Book
  <2> QED BY <1>2, <2>1 DEF Book
<1>7. Book' = [Book EXCEPT ![sIdx] = ledger!Debited(@, delta),
                           ![rIdx] = ledger!Credited(@, delta)]
  BY <1>6 DEF Debit, Credit, ledger!Debited, ledger!Credited
<1>8. /\ Len(initialRoots) < NumTx
      /\ Len(initialRoots') = Len(initialRoots) + 1
  BY <1>1, <1>2, <1>3, BatchAssumption DEF Txs
<1>9. ledger!Transfer(sIdx, rIdx, delta)
  BY <1>1, <1>2, <1>4, <1>5, <1>7, <1>8 DEF ledger!Transfer
<1> QED BY <1>1, <1>2, <1>9 DEF ledger!LedgerNext, ledger!Amount, Field

(* The panic halts the ledger.                                             *)
LEMMA PanicHalts ==
  ASSUME TypedSchedule, PanicOnEmptySender
  PROVE  ledger!Halt
<1>1. /\ sIdx \in Index /\ rIdx \in Index /\ secretKeys[sIdx] # NoKey
      /\ values[sIdx] \in Value /\ values[rIdx] \in Value
  BY ApplySlots DEF PanicOnEmptySender, TypedSchedule, TypeOK
<1>2. values[sIdx].balance = 0
  BY EmptySender
<1>3. Book[sIdx] # EmptyLeaf /\ Book[sIdx].balance = 0
  BY <1>1, <1>2, EmptyAssumption DEF Book
<1>4. UNCHANGED <<Book, Len(initialRoots)>>
  BY DEF PanicOnEmptySender, accounts, record, Book
<1> QED BY <1>1, <1>3, <1>4 DEF ledger!Halt, PanicOnEmptySender

(* So does the end of the call.                                            *)
LEMMA ConstructHalts ==
  ASSUME TypedSchedule, Construct
  PROVE  ledger!Halt
<1>1. phase = "constructing" /\ phase' = "returned"
  BY ConstructTyped DEF Construct
<1>2. Len(initialRoots) = NumTx
  BY <1>1 DEF TypedSchedule, Schedule, RootsCount
<1>3. UNCHANGED <<Book, Len(initialRoots)>>
  BY DEF Construct, accounts, record, Book
<1> QED BY <1>1, <1>2, <1>3 DEF ledger!Halt

(* Every other step leaves the ledger alone.                               *)
LEMMA LedgerStep == TypedSchedule /\ [Next]_vars => [ledger!LedgerNext]_(ledger!ledgerVars)
<1> SUFFICES ASSUME TypedSchedule, [Next]_vars
             PROVE  ledger!LedgerNext \/ UNCHANGED ledger!ledgerVars
  OBVIOUS
<1> USE DEF TypedSchedule
<1>1. ASSUME NEW i \in Index, FillSender(i) PROVE ledger!LedgerNext
  <2>1. Len(initialRoots) = 0 /\ UNCHANGED initialRoots
    BY <1>1 DEF FillSender, Schedule, RootsCount, record
  <2>2. ledger!Open(i)
    BY <1>1, <2>1, CreateOpens DEF FillSender, Advance
  <2> QED BY <2>2 DEF ledger!LedgerNext
<1>2. ASSUME NEW i \in Index, DrawReceiver(i)
      PROVE  UNCHANGED ledger!ledgerVars
  BY <1>2, BookKept DEF DrawReceiver, accounts, record
<1>3. CASE PickReceiver
  <2>1. /\ Len(initialRoots) = 0 /\ UNCHANGED initialRoots
        /\ phase \notin {"returned", "panicked"}
        /\ phase' \notin {"returned", "panicked"}
    BY <1>3 DEF PickReceiver, Schedule, RootsCount, record, Advance
  <2>2. rIndex \in Index
    BY <1>3 DEF PickReceiver, TypeOK
  <2>3. CASE CreateAccount(rIndex)
    BY <2>1, <2>2, <2>3, CreateOpens DEF ledger!LedgerNext
  <2>4. CASE UNCHANGED accounts
    BY <2>1, <2>4, BookKept DEF accounts
  <2> QED BY <1>3, <2>3, <2>4 DEF PickReceiver
<1>4. ASSUME NEW word \in Words, ApplyTransaction(word)
      PROVE  ledger!LedgerNext
  BY <1>4, ApplyTransfers
<1>5. CASE PanicOnEmptySender
  BY <1>5, PanicHalts DEF ledger!LedgerNext
<1>6. CASE TakeFinalRoot
  BY <1>6, BookKept DEF TakeFinalRoot, accounts
<1>7. CASE SignTransaction
  BY <1>7, BookKept DEF SignTransaction, Advance, accounts, record
<1>8. CASE Construct
  BY <1>8, ConstructHalts DEF ledger!LedgerNext
<1>9. CASE UNCHANGED vars
  BY <1>9 DEF vars, accounts, record, ledger!ledgerVars, Book
<1> QED BY <1>1, <1>2, <1>3, <1>4, <1>5, <1>6, <1>7, <1>8, <1>9
           DEF Next, Ended

(* Every run of the builder is a run of the ledger: it opens accounts,     *)
(* then applies at most NumTx covered transfers, and stops early only at   *)
(* an account with nothing to send.                                        *)
THEOREM BuilderImplementsLedger == Spec => ImplementsLedger
<1>1. Init => ledger!LedgerInit
  BY DEF Init, ledger!LedgerInit, Book
<1>2. Spec => []TypedSchedule
  BY InitTyped, NextTyped, PTL DEF Spec
<1> QED BY <1>1, <1>2, LedgerStep, PTL
           DEF Spec, ImplementsLedger, ledger!LedgerSpec
=============================================================================
