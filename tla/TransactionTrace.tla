-------------------------- MODULE TransactionTrace --------------------------
(***************************************************************************)
(* The composed trace (trace.rs, prover.rs) and its constraints (air.rs)   *)
(* with the values of their registers: the Merkle update in the first half *)
(* of a transaction's rows, the hash of the signed message and the two     *)
(* range proofs, in the same registers, in the second, and beside them     *)
(* copies of what the second half takes from the first.  A row is          *)
(* [merkle, copies, sig].  The points and words of the signature are those *)
(* of SchnorrTrace and left out here.                                      *)
(***************************************************************************)
EXTENDS TransferBatch, TransactionLayout

CONSTANT RangeLog  \* RANGE_LOG

NumHashIter == 5
MerkleLength == TxLength \div 2   \* TRANSACTION_CYCLE_LENGTH of merkle
ScalarMulLength == MerkleLength - 2

(* The code's 512, 120, 40 and 64 rows stand in the same order.            *)
ASSUME RowsAssumption ==
  /\ TxLength = 2 * MerkleLength /\ MerkleLength % Cycle = 0
  /\ HashLength < MerkleLength
  /\ NumHashIter * Cycle <= ScalarMulLength
  /\ RangeLog \in Nat
  /\ (NumHashIter - 1) * Cycle <= RangeLog /\ RangeLog < MerkleLength
ASSUME ModulusAssumption == P < Pow2[RangeLog]

VARIABLES batch,     \* the TransactionMetadata
          fragments  \* the rows filled of each fragment

vars == <<batch, fragments>>

(* build_tx_message: both keys, the amount, the nonce and two zeroes.      *)
Number(n) == [number |-> n]
KeyCells(key) == [i \in 1 .. AffineWidth |-> [key |-> key, at |-> i]]
BuildTxMessage(sKey, rKey, delta, nonce) ==
  KeyCells(sKey) \o KeyCells(rKey)
    \o <<Number(delta), Number(nonce), Number(0), Number(0)>>
Message(tx) ==
  BuildTxMessage(tx.sOld.pkey, tx.rOld.pkey, tx.delta, tx.sOld.nonce)

Chunk(message, k) ==
  SubSeq(message, DigestWidth * k + 1, DigestWidth * (k + 1))
Zeroes == [i \in 1 .. DigestWidth |-> Number(0)]

-----------------------------------------------------------------------------
(* Mutant: the nonce after the transaction.                                *)
CopiesNewNonce(tx) ==
  [sKey |-> tx.sOld.pkey, rKey |-> tx.rOld.pkey, delta |-> tx.delta,
   sigma |-> (tx.sOld.balance - tx.delta) % P, nonce |-> (tx.sOld.nonce + 1) % P]

(* init_transaction_state.  The registers of the signature are those of    *)
(* the Merkle lanes until it starts.                                       *)
Copies(tx) ==
  [sKey |-> tx.sOld.pkey, rKey |-> tx.rOld.pkey, delta |-> tx.delta,
   sigma |-> (tx.sOld.balance - tx.delta) % P, nonce |-> tx.sOld.nonce]

Overlaid == "overlaid"
TxFirstRow(tx) ==
  [merkle |-> FirstRow(tx), copies |-> Copies(tx), sig |-> Overlaid]

(* schnorr::init_sig_verification_state, range::init_range_verification_state *)
RangeStart == [bit |-> 0, acc |-> 0]
StartSignature(x, row) ==
  [row EXCEPT !.merkle.s = Overlaid, !.merkle.r = Overlaid,
              !.sig = [hash |-> Fresh([x |-> x], Zeroes),
                       delta |-> RangeStart, sigma |-> RangeStart]]

(* Mutants: the chunk counted from the step after, and the lowest bit      *)
(* first.                                                                  *)
HashStepNextChunk(s, message, hash) ==
  IF s >= NumHashIter * Cycle THEN hash
  ELSE IF s % Cycle < Rounds THEN ApplyRound(hash, s)
  ELSE Fresh(First(hash),
             IF s < (NumHashIter - 2) * Cycle
             THEN Chunk(message, (s + 1) \div Cycle) ELSE Zeroes)
RangeBitReversed(value, s) == (value \div Pow2[s]) % 2

(* The part of update_sig_verification_state that hashes.                  *)
HashStep(s, message, hash) ==
  IF s >= NumHashIter * Cycle THEN hash
  ELSE IF s % Cycle < Rounds THEN ApplyRound(hash, s)
  ELSE Fresh(First(hash),
             IF s < (NumHashIter - 1) * Cycle
             THEN Chunk(message, s \div Cycle) ELSE Zeroes)

(* update_range_verification_state, given all RangeLog bits.               *)
RangeBit(value, s) == (value \div Pow2[RangeLog - 1 - s]) % 2
DoubleAndAdd(acc, bit) == (2 * acc + bit) % P
RangeStep(s, value, lane) ==
  IF s < RangeLog
  THEN [bit |-> RangeBit(value, s), acc |-> DoubleAndAdd(lane.acc, RangeBit(value, s))]
  ELSE lane

(* update_transaction_state                                                *)
UpdateTxRow(step, t, row) ==
  LET tx == batch.txs[t]
      s == step - MerkleLength
      sigma == (tx.sOld.balance - tx.delta) % P
  IN CASE step < MerkleLength - 1 ->
            [row EXCEPT !.merkle = UpdateRow(step, tx, @)]
       [] step = MerkleLength - 1 -> StartSignature(t, row)
       [] OTHER ->
            [row EXCEPT !.sig =
              [hash |-> HashStep(s, Message(tx), @.hash),
               delta |-> RangeStep(s, tx.delta, @.delta),
               sigma |-> RangeStep(s, sigma, @.sigma)]]

Init == /\ batch \in Batches
        /\ fragments = [t \in Txs |-> <<>>]

Filled(t) == Len(fragments[t]) = TxLength
Fill(t, row) == fragments' = [fragments EXCEPT ![t] = Append(@, row)]

InitFragment(t) == /\ fragments[t] = <<>>
                   /\ Fill(t, TxFirstRow(batch.txs[t]))
                   /\ UNCHANGED batch

UpdateFragment(t) ==
  /\ fragments[t] # <<>>
  /\ ~Filled(t)
  /\ LET step == Len(fragments[t]) - 1
     IN Fill(t, UpdateTxRow(step, t, fragments[t][step + 1]))
  /\ UNCHANGED batch

Built == (\A t \in Txs : Filled(t)) /\ UNCHANGED vars

Next == (\E t \in Txs : InitFragment(t) \/ UpdateFragment(t)) \/ Built
Spec == Init /\ [][Next]_vars

-----------------------------------------------------------------------------
(* periodic_columns, at row g of the whole trace.                          *)
SigRow(g) == (g % TxLength) - MerkleLength
Larger(a, b) == IF a > b THEN a ELSE b
CopyMask(g) ==
  0 < g % TxLength /\ SigRow(g) < Larger(3 * Cycle - 1, RangeLog)
SignatureMask(g) == SigRow(g) \in 0 .. ScalarMulLength
SigHashMask(g) ==
  SigRow(g) \in 0 .. (NumHashIter * Cycle - 1) /\ SigRow(g) % Cycle < Rounds
MessageMask(g, k) == SigRow(g) = (k + 1) * Cycle - 1
RangeMask(g) == SigRow(g) \in 0 .. (RangeLog - 1)
RangeFinishMask(g) == SigRow(g) = RangeLog - 1

(* evaluate_constraints: the copies on the setup row, and after it.        *)
CopiesHold(g, cur, next) ==
  /\ SetupMask(g) =>
       LET s == cur.merkle.s  r == cur.merkle.r
       IN next.copies = [sKey |-> s.old.fst.lowKey, rKey |-> r.old.fst.lowKey,
                         delta |-> (s.old.snd.balance - s.new.snd.balance) % P,
                         sigma |-> s.new.snd.balance,
                         nonce |-> s.old.snd.nonce]
  /\ CopyMask(g) => next.copies = cur.copies

(* hash_internal_inputs, read from the copies by position: what            *)
(* TransactionRows!InputCell names register by register.                   *)
InternalInputs(g, copies) ==
  LET fed == {k \in 0 .. (NumHashIter - 2) : MessageMask(g, k)}
  IN IF fed = {} THEN Zeroes
     ELSE Chunk(BuildTxMessage(copies.sKey, copies.rKey, copies.delta,
                               copies.nonce), CHOOSE k \in fed : TRUE)

HashHolds(g, cur, next) ==
  /\ SigHashMask(g) => next.sig.hash = ApplyRound(cur.sig.hash, g)
  /\ SignatureMask(g) /\ ~SigHashMask(g) =>
       /\ First(next.sig.hash) = First(cur.sig.hash)
       /\ Second(next.sig.hash) = InternalInputs(g, next.copies)

RangeLaneHolds(cur, next) ==
  next.acc = DoubleAndAdd(cur.acc, next.bit) /\ next.bit \in {0, 1}

(* The finish of both range proofs compares delta.                         *)
RangesHold(g, cur, next) ==
  /\ RangeMask(g) => /\ RangeLaneHolds(cur.sig.delta, next.sig.delta)
                     /\ RangeLaneHolds(cur.sig.sigma, next.sig.sigma)
  /\ RangeFinishMask(g) => /\ next.sig.delta.acc = next.copies.delta
                           /\ next.sig.delta.acc = next.copies.delta

TxTransitionHolds(g, cur, next) ==
  /\ TransitionHolds(g, cur.merkle, next.merkle)
  /\ CopiesHold(g, cur, next)
  /\ HashHolds(g, cur, next)
  /\ RangesHold(g, cur, next)

(* Row g of the whole trace, and get_pub_inputs and get_assertions.        *)
Row(g) == fragments[(g \div TxLength) + 1][(g % TxLength) + 1]
LastRow == NumTx * TxLength - 1
PublicInputs == [initial |-> Row(0).merkle.root, final |-> Row(LastRow).merkle.root]
Accepted(inputs) ==
  /\ inputs = PublicInputs
  /\ \A g \in 0 .. (LastRow - 1) : TxTransitionHolds(g, Row(g), Row(g + 1))

-----------------------------------------------------------------------------
(* The row last filled, and its number of the signature's rows.            *)
Current(t) == fragments[t][Len(fragments[t])]
CurrentSigRow(t) == Len(fragments[t]) - 1 - MerkleLength

(* A complete trace, whatever order its fragments were filled in, is       *)
(* accepted with the roots of the metadata: within a transaction the       *)
(* copies carry its values from the leaves to the hash and to the range    *)
(* proofs, and from one to the next the root survives the registers that   *)
(* are reused (prover.rs 34-126, air.rs 175-184, 383-610, lib.rs 116-150). *)
ExampleVerifies ==
  (\A t \in Txs : Filled(t)) =>
    Accepted([initial |-> batch.txs[1].root, final |-> batch.finalRoot])

(* The debug assertions of trace.rs 133-142, on every row that makes them: *)
(* both accumulators have met the copies and stay with them.               *)
RangesMeetCopies ==
  \A t \in Txs : CurrentSigRow(t) >= RangeLog =>
    LET row == Current(t)
    IN /\ row.sig.delta.acc = row.copies.delta
       /\ row.sig.sigma.acc = row.copies.sigma

(* The hash in the trace is hash_message of x(R) and the message that was  *)
(* signed, from the row it is complete on to the last (schnorr/mod.rs      *)
(* 247-288, schnorr/trace.rs 50-70, prover.rs 55-63).                      *)
HashMessage(x, message) ==
  LET h[i \in 0 .. (NumHashIter - 1)] ==
        IF i = 0 THEN Merge([x |-> x], Zeroes)
        ELSE Merge(h[i - 1], Chunk(message, i - 1))
  IN h[NumHashIter - 1]

MessageHashed ==
  \A t \in Txs : CurrentSigRow(t) >= NumHashIter * Cycle - 1 =>
    First(Current(t).sig.hash) = HashMessage(t, Message(batch.txs[t]))
=============================================================================
