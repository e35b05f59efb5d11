------------------------- MODULE TransactionColumns -------------------------
(***************************************************************************)
(* The masks of the composed program (air.rs), assembled from those of the *)
(* Merkle update (merkle/update/air.rs), the signature (schnorr/air.rs)    *)
(* and the range proof, for each depth of the tree.                        *)
(***************************************************************************)
EXTENDS PeriodicColumns

CONSTANT Depths  \* the values MERKLE_TREE_DEPTH has: 15, and 3 under test

Rounds == 7
Cycle == 8
NumHashIter == 5
ScalarMulLength == 510
RangeLog == 64
MerkleLength == 512   \* TRANSACTION_CYCLE_LENGTH of merkle, MERKLE_UPDATE_LENGTH
SigLength == 512      \* SIG_CYCLE_LENGTH
TxLength == 2 * MerkleLength
HashLength(depth) == Cycle * depth + Rounds
ASSUME DepthsAssumption ==
  \A d \in Depths : d \in Nat \ {0} /\ HashLength(d) < MerkleLength

CycleMask == Mask(Cycle, Rows(0, Rounds - 1))

(* merkle::update::periodic_columns                                        *)
UpdateColumns(depth) ==
  LET hashing == Rows(0, HashLength(depth) - 1)
  IN [merkle |-> Mask(MerkleLength, hashing),
      input |-> Mask(Cycle, {Cycle - 1}),
      finish |-> Mask(MerkleLength, {HashLength(depth) - 1}),
      hash |-> Mask(MerkleLength, {r \in hashing : On(CycleMask, r)})]

(* schnorr::periodic_columns.  The limb masks follow the digest from its   *)
(* last used limb, one bit short, to its first.                            *)
LimbStartAligned == <<0, 128, 256, 384, 510>>   \* a mutant
LimbStart == <<0, 126, 254, 382, 510>>
LimbMask(k) == Mask(SigLength, Rows(LimbStart[k], LimbStart[k + 1] - 1))
DoublingRowsShort == {2 * k : k \in Rows(0, ScalarMulLength \div 2 - 2)} \* a mutant
DoublingRows == {r \in Rows(0, ScalarMulLength - 1) : r % 2 = 0}
SignatureColumns ==
  [sig |-> Mask(SigLength, Rows(0, ScalarMulLength)),
   mult |-> Mask(SigLength, Rows(0, ScalarMulLength - 1)),
   doubling |-> Mask(SigLength, DoublingRows),
   limb |-> <<LimbMask(1), LimbMask(2), LimbMask(3), LimbMask(4)>>,
   sigHash |-> PadZero(Fill(Empty, CycleMask, NumHashIter * Cycle), SigLength)]

(* periodic_columns of the composed program, column by column.             *)
Merkled(column) == PadZero(PadZero(column, MerkleLength), TxLength)
Signed(column) == PadZero(Stitch(PadZero(Empty, MerkleLength), column), TxLength)

(* One input mask per hash iteration but the last.                         *)
InputMaskLate(k) == Signed(Mask(SigLength, {(k + 1) * Cycle}))   \* a mutant
InputMask(k) == Signed(Mask(SigLength, {(k + 1) * Cycle - 1}))

Larger(a, b) == IF a > b THEN a ELSE b
CopyEndEarly == MerkleLength   \* a mutant
CopyEnd == MerkleLength + Larger(3 * Cycle - 1, RangeLog)

Columns(depth) ==
  LET update == UpdateColumns(depth)
      sig == SignatureColumns
  IN [setup |-> Merkled(PadOne(Empty, 1)),
      merkle |-> Merkled(Fill(Empty, update.merkle, HashLength(depth))),
      input |-> Stitch(Empty, update.input),
      finish |-> Merkled(Fill(Empty, update.finish, HashLength(depth))),
      hash |-> Merkled(Fill(Empty, update.hash, HashLength(depth))),
      sig |-> Signed(sig.sig),
      mult |-> Signed(sig.mult),
      doubling |-> Signed(sig.doubling),
      limb |-> <<Signed(sig.limb[1]), Signed(sig.limb[2]),
                 Signed(sig.limb[3]), Signed(sig.limb[4])>>,
      sigHash |-> Signed(sig.sigHash),
      message |-> <<InputMask(0), InputMask(1), InputMask(2), InputMask(3)>>,
      range |-> Signed(Mask(RangeLog, Rows(0, RangeLog - 1))),
      rangeFinish |-> Signed(Mask(RangeLog, {RangeLog - 1})),
      copy |-> PadZero(PadOne(PadOne(PadZero(Empty, 1), MerkleLength), CopyEnd),
                       TxLength)]
=============================================================================
