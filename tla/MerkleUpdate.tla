---------------------------- MODULE MerkleUpdate ----------------------------
(***************************************************************************)
(* MerkleProver::build_trace (merkle/update/prover.rs): the trace is cut   *)
(* into one fragment per transaction and the fragments are filled one row  *)
(* at a time, concurrently when the feature "concurrent" is on.  When all  *)
(* are full the index bits of row 1 are overwritten.                       *)
(***************************************************************************)
EXTENDS TransferBatch

VARIABLES batch,      \* the TransactionMetadata
          fragments,  \* the rows filled of each fragment
          patched     \* whether row 1 was overwritten

vars == <<batch, fragments, patched>>

LastRow == NumTx * TxLength - 1

Init == /\ batch \in Batches
        /\ fragments = [t \in Txs |-> <<>>]
        /\ patched = FALSE

-----------------------------------------------------------------------------
Filled(t) == Len(fragments[t]) = TxLength

Fill(t, row) == fragments' = [fragments EXCEPT ![t] = Append(@, row)]

InitFragment(t) == /\ fragments[t] = <<>>
                   /\ Fill(t, FirstRow(batch.txs[t]))
                   /\ UNCHANGED <<batch, patched>>

(* Mutant: the last row is left unfilled.                                  *)
UpdateFragmentShort(t) ==
  /\ Len(fragments[t]) \in 1 .. (TxLength - 2)
  /\ LET step == Len(fragments[t]) - 1
     IN Fill(t, UpdateRow(step, batch.txs[t], fragments[t][step + 1]))
  /\ UNCHANGED <<batch, patched>>

(* The step is the number of the row the update starts from.               *)
UpdateFragment(t) ==
  /\ fragments[t] # <<>>
  /\ ~Filled(t)
  /\ LET step == Len(fragments[t]) - 1
     IN Fill(t, UpdateRow(step, batch.txs[t], fragments[t][step + 1]))
  /\ UNCHANGED <<batch, patched>>

(* for_each has joined: row 1 of the whole trace gets index bits ONE.      *)
PatchBits == /\ \A t \in Txs : Filled(t)
             /\ ~patched
             /\ fragments' = [fragments EXCEPT ![1][2].s.bit = 1,
                                               ![1][2].r.bit = 1]
             /\ patched' = TRUE
             /\ UNCHANGED batch

Built == patched /\ UNCHANGED vars

Next == \/ \E t \in Txs : InitFragment(t) \/ UpdateFragment(t)
        \/ PatchBits
        \/ Built

Spec == Init /\ [][Next]_vars

(* Every fragment is filled by a worker that runs on, and the patch        *)
(* follows.                                                                *)
FairSpec == /\ Spec
            /\ \A t \in Txs : WF_vars(InitFragment(t) \/ UpdateFragment(t))
            /\ WF_vars(PatchBits)

-----------------------------------------------------------------------------
(* Row g of the whole trace, and whether it is filled.                     *)
FragmentOf(g) == g \div TxLength + 1
RowFilled(g) == g % TxLength < Len(fragments[FragmentOf(g)])
Row(g) == fragments[FragmentOf(g)][(g % TxLength) + 1]

(* get_pub_inputs                                                          *)
PublicInputs == [initialRoot |-> Row(0).root, finalRoot |-> Row(LastRow).root]

Lane(lane) == lane.bit \in {0, 1}

(* Fragments grow within their bounds, bits are binary, and the patch      *)
(* comes last.                                                             *)
TypeOK ==
  /\ \A t \in Txs :
       /\ Len(fragments[t]) \in 0 .. TxLength
       /\ \A k \in DOMAIN fragments[t] :
            Lane(fragments[t][k].s) /\ Lane(fragments[t][k].r)
  /\ patched => \A t \in Txs : Filled(t)

(* Any two consecutive rows obey the constraints of merkle/update/air.rs,  *)
(* within a fragment and across the border of two fragments that different *)
(* workers filled from separate metadata, and the patched bits break none  *)
(* (merkle/update/trace.rs 22-139, prover.rs 41-74).                       *)
TraceObeysConstraints ==
  \A g \in 0 .. (LastRow - 1) :
    RowFilled(g) /\ RowFilled(g + 1) => TransitionHolds(g, Row(g), Row(g + 1))

(* The rows climb to the roots the metadata names: before the hashes end,  *)
(* the old sender reaches the root the transaction starts from, the new    *)
(* sender and the old receiver meet, and the new receiver reaches the root *)
(* the next transaction, or the final root, is recorded with.              *)
RootAfter(t) == IF t < NumTx THEN batch.txs[t + 1].root ELSE batch.finalRoot
PathsMeetRoots ==
  \A t \in Txs :
    Len(fragments[t]) > HashLength =>
      LET row == fragments[t][HashLength + 1]
      IN /\ First(row.s.old) = batch.txs[t].root
         /\ First(row.s.new) = First(row.r.old)
         /\ First(row.r.new) = RootAfter(t)

(* The public inputs read off the trace are the roots the verifier is      *)
(* given (merkle/update/mod.rs, prover.rs 83-107).                         *)
PublicInputsMatch ==
  patched => PublicInputs = [initialRoot |-> batch.txs[1].root,
                             finalRoot |-> batch.finalRoot]

(* The trace is completed whatever order the workers run in.               *)
TraceCompletes == <>patched
=============================================================================
