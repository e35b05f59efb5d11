--------------------------- MODULE TransferBatch ---------------------------
(***************************************************************************)
(* The part of a TransactionMetadata that the traces are built from: a     *)
(* chain of transfers between the leaves of one tree, as                   *)
(* TransactionMetadata::build_random (lib.rs) records it.                  *)
(***************************************************************************)
EXTENDS MerkleUpdateRows

CONSTANTS Genesis,  \* the values the tree may start from
          Deltas    \* the amounts that may move

Accounts(values) == /\ values = [i \in Index |-> values[i]]
                    /\ \A i \in Index : IsValue(values[i])

ASSUME GenesisAssumption == \A values \in Genesis : Accounts(values)
ASSUME DeltasAssumption == Deltas \subseteq Field

Txs == 1 .. NumTx

Move(values, m) == [values EXCEPT ![m.s] = Debit(@, m.delta),
                                  ![m.r] = Credit(@, m.delta)]
Moves == {m \in [s : Index, r : Index, delta : Deltas] : m.s # m.r}

(* Mutant: the receiver's path is the one before as well.                  *)
RecordPathsFirst(values, m) ==
  LET tree == Committed(values)
  IN [root |-> Root(tree), delta |-> m.delta,
      sIndex |-> m.s, sOld |-> values[m.s], sPath |-> Prove(tree, m.s),
      rIndex |-> m.r, rOld |-> values[m.r], rPath |-> Prove(tree, m.r)]

(* The sender's path is the one before a transfer, the receiver's the one  *)
(* after.                                                                  *)
Record(values, m) ==
  LET tree == Committed(values)
  IN [root |-> Root(tree), delta |-> m.delta,
      sIndex |-> m.s, sOld |-> values[m.s], sPath |-> Prove(tree, m.s),
      rIndex |-> m.r, rOld |-> values[m.r],
      rPath |-> Prove(Committed(Move(values, m)), m.r)]

(* The values after each transfer.                                         *)
Transfers(values, moves) ==
  LET after[k \in 0 .. NumTx] ==
        IF k = 0 THEN values ELSE Move(after[k - 1], moves[k])
  IN after

Metadata(values, moves) ==
  LET after == Transfers(values, moves)
  IN [txs |-> [t \in Txs |-> Record(after[t - 1], moves[t])],
      finalRoot |-> Root(Committed(after[NumTx]))]

Batches == {Metadata(values, moves) : values \in Genesis, moves \in [Txs -> Moves]}
=============================================================================
