------------------------- MODULE TransactionLayout -------------------------
(***************************************************************************)
(* Where the registers and the constraint results of the composed program  *)
(* lie (constants.rs, merkle/constants.rs): intervals of the trace row and *)
(* of the result array.                                                    *)
(***************************************************************************)
EXTENDS Integers

Span(first, width) == first .. (first + width - 1)

(* Widths: a digest, a hash state, an affine and a projective point.       *)
DigestWidth == 7
StateWidth == 14
AffineWidth == 12
ProjectiveWidth == 18

(* Merkle registers: two lanes of state, bit and state, and a root.        *)
LaneWidth == 2 * StateWidth + 1
SenderPos == 0
ReceiverPos == LaneWidth
RootPos == 2 * LaneWidth
MerkleWidth == RootPos + DigestWidth

(* Signature registers: two points with a bit each, four limbs, a state.   *)
PointWidth == ProjectiveWidth + 1
LimbPos == 2 * PointWidth
HashPos == LimbPos + 4
SchnorrWidth == HashPos + StateWidth

(* Mutant: on the last register of the hash.                               *)
DeltaBitPosEarly == SchnorrWidth - 1

DeltaBitPos == SchnorrWidth
DeltaAccPos == SchnorrWidth + 1

(* The copies beside the Merkle registers.                                 *)
SenderKeyPos == MerkleWidth
ReceiverKeyPos == MerkleWidth + AffineWidth
DeltaCopyPos == MerkleWidth + 2 * AffineWidth
SigmaCopyPos == DeltaCopyPos + 1
NonceCopyPos == DeltaCopyPos + 2

(* Mutant: beside the bit of delta.                                        *)
SigmaBitPosBeside == DeltaAccPos
SigmaBitPos == NonceCopyPos + 1
SigmaAccPos == NonceCopyPos + 2
TraceWidth == NonceCopyPos + 3

(* Results: each register's own index, then the rest.                      *)
ValueRes == MerkleWidth
BalanceRes == ValueRes + 2 * AffineWidth + 1
NonceUpdateRes == BalanceRes + 1
IntRootRes == NonceUpdateRes + 1
RootMatchRes == IntRootRes + DigestWidth
SenderKeyRes == RootMatchRes + 2
ReceiverKeyRes == SenderKeyRes + 2
DeltaCopyRes == ReceiverKeyRes + 2
SigmaCopyRes == DeltaCopyRes + 1
NonceCopyRes == SigmaCopyRes + 1
DeltaRangeRes == NonceCopyRes + 1
SigmaRangeRes == DeltaRangeRes + 1
=============================================================================
