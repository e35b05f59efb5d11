-------------------------- MODULE TransactionRows --------------------------
(***************************************************************************)
(* One transaction of the composed trace, row by row: what the builder     *)
(* (trace.rs, schnorr/trace.rs) does to the registers, against what the    *)
(* masked constraints (air.rs, schnorr/air.rs) require, read and aggregate *)
(* on the same row.  Values are left out: the operations are names, and    *)
(* bound are the registers whose content the constraints tie to earlier    *)
(* rows or to the public roots, whoever writes the trace.                  *)
(***************************************************************************)
EXTENDS TransactionColumns, TransactionLayout

VARIABLES depth,     \* MERKLE_TREE_DEPTH of the build
          mask,      \* the columns periodic_columns returns for it
          row,       \* the row of the transaction
          rate,      \* what the builder put in the second half of the hash
          bound,     \* the registers tied by constraints on this row
          loaded,    \* the scalar bit in the bit registers, counted from 0
          unchecked  \* scalar bits loaded that no constraint has found binary

vars == <<depth, mask, row, rate, bound, loaded, unchecked>>

LastRow == TxLength - 1
NoBit == -1
When(condition, op) == IF condition THEN {op} ELSE {}


-----------------------------------------------------------------------------
(* The message of 28 elements, by the copy register that holds each.       *)
NoRegister == -1
MessageElement(j) == IF j < AffineWidth THEN SenderKeyPos + j
                     ELSE IF j < 2 * AffineWidth
                          THEN ReceiverKeyPos + j - AffineWidth
                     ELSE IF j = 2 * AffineWidth THEN DeltaCopyPos
                     ELSE IF j = 2 * AffineWidth + 1 THEN NonceCopyPos
                     ELSE NoRegister
Chunk(k) == [i \in 0 .. (DigestWidth - 1) |->
              MessageElement(DigestWidth * k + i)]

(* update_transaction_state and update_sig_verification_state at a step.   *)
SigStep(step) == step - MerkleLength
Limb(real) == IF real < 63 THEN 0 ELSE (real - 63) \div 64 + 1

MerkleOps(step) ==
  LET hashing == step < HashLength(depth)
  IN When(hashing /\ step % Cycle < Rounds, <<"merkleRound">>)
     \cup When(hashing /\ step % Cycle = Cycle - 1, <<"merkleInsert">>)
     \cup When(step = HashLength(depth) - 1, <<"newRoot">>)

SignatureOps(s) ==
  LET scalars == s < ScalarMulLength
  IN When(s < NumHashIter * Cycle /\ s % Cycle < Rounds, <<"sigRound">>)
     \cup When(scalars /\ s % 2 = 0, <<"double">>)
     \cup When(scalars /\ s % 2 = 0, <<"limb", Limb(s \div 2)>>)
     \cup When(scalars /\ s % 2 = 1, <<"add">>)
     \cup When(s = ScalarMulLength, <<"finalAdd">>)
     \cup When(s < RangeLog, <<"range">>)

BuilderOps(step) ==
  IF step < MerkleLength - 1 THEN MerkleOps(step)
  ELSE IF step = MerkleLength - 1 THEN {<<"signatureInit">>}
  ELSE SignatureOps(SigStep(step))

(* The rate of the signature's hash: permuted by a round, then the next    *)
(* chunk of the message, then zero once and left alone.                    *)
RateAfter(step) ==
  LET s == SigStep(step)
  IN IF s < 0 THEN <<"none">>
     ELSE IF s >= NumHashIter * Cycle THEN rate
     ELSE IF s % Cycle < Rounds THEN <<"permuted">>
     ELSE IF s < (NumHashIter - 1) * Cycle THEN <<"input", Chunk(s \div Cycle)>>
     ELSE <<"zero">>

(* The registers an operation writes.                                      *)
Written(op) ==
  CASE op[1] \in {"merkleRound", "merkleInsert"} -> Span(SenderPos, RootPos)
    [] op[1] = "newRoot" -> Span(RootPos, DigestWidth)
    [] op[1] = "signatureInit" ->
         Span(0, SchnorrWidth) \cup {DeltaBitPos, DeltaAccPos,
                                     SigmaBitPos, SigmaAccPos}
    [] op[1] = "sigRound" -> Span(HashPos, StateWidth)
    [] op[1] \in {"double", "add", "finalAdd"} -> Span(0, LimbPos)
    [] op[1] = "limb" -> {LimbPos + 3 - op[2]}
    [] op[1] = "range" -> {DeltaBitPos, DeltaAccPos, SigmaBitPos, SigmaAccPos}

-----------------------------------------------------------------------------
(* The dependent masks of evaluate_transition, and the operations the      *)
(* constraints on rows g and g + 1 stand for.                              *)
FinalAddition(g) == On(mask.sig, g) /\ ~On(mask.mult, g)
Addition(g) == On(mask.mult, g) /\ ~On(mask.doubling, g)
CopyHash(g) == On(mask.sig, g) /\ ~On(mask.sigHash, g)

EnforcedOps(g) ==
  When(On(mask.hash, g), <<"merkleRound">>)
  \cup When(On(mask.merkle, g) /\ On(mask.input, g), <<"merkleInsert">>)
  \cup When(On(mask.finish, g), <<"newRoot">>)
  \cup When(On(mask.sigHash, g), <<"sigRound">>)
  \cup When(On(mask.doubling, g), <<"double">>)
  \cup (UNION {When(On(mask.limb[k + 1], g) /\ On(mask.doubling, g),
                     <<"limb", k>>) : k \in 0 .. 3})
  \cup When(Addition(g), <<"add">>)
  \cup When(FinalAddition(g), <<"finalAdd">>)
  \cup When(On(mask.range, g), <<"range">>)

(* hash_internal_inputs: the registers fed to the hash, chosen by the      *)
(* input masks.                                                            *)
InputCell(k, i) ==
  LET j == k * DigestWidth + i
  IN IF j < AffineWidth THEN SenderKeyPos + k * DigestWidth + i
     ELSE IF j < 2 * AffineWidth
          THEN ReceiverKeyPos + k * DigestWidth + i - AffineWidth
     ELSE IF j = 2 * AffineWidth THEN DeltaCopyPos
     ELSE IF j = 2 * AffineWidth + 1 THEN NonceCopyPos
     ELSE NoRegister
InputsOn(g) == {k \in 0 .. (NumHashIter - 2) : On(mask.message[k + 1], g)}
RequiredRate(g) ==
  IF InputsOn(g) = {} THEN <<"zero">>
  ELSE <<"input", [i \in 0 .. (DigestWidth - 1) |->
                    InputCell(CHOOSE k \in InputsOn(g) : TRUE, i)]>>

(* The registers of row g + 1 that the constraints read from elsewhere in  *)
(* the row.                                                                *)
InputReads(g) ==
  (UNION {{InputCell(k, i) : i \in 0 .. (DigestWidth - 1)} : k \in InputsOn(g)})
    \ {NoRegister}
RangeReads(g) == IF On(mask.rangeFinish, g) THEN {DeltaCopyPos} ELSE {}
KeyReads(g) == IF Addition(g) THEN Span(SenderKeyPos, AffineWidth) ELSE {}

(* The accumulators the finish constraints compare, with what.             *)
Compared(g) ==
  IF On(mask.rangeFinish, g)
  THEN {<<DeltaAccPos, DeltaCopyPos>>, <<DeltaAccPos, DeltaCopyPos>>} ELSE {}

(* The constraints of row g that tie registers of row g + 1.               *)
CopyRegistersWide == Span(SenderKeyPos, 2 * ProjectiveWidth + 3)   \* a mutant
CopyRegisters == Span(SenderKeyPos, 2 * AffineWidth + 3)
RangeRegisters == {DeltaAccPos, SigmaAccPos}
RootRegisters == Span(RootPos, DigestWidth)
AssertedRoot == Span(RootPos, 2)

Tied(g) ==
  (IF On(mask.setup, g) THEN CopyRegisters ELSE {})
    \cup (IF On(mask.copy, g) THEN bound \cap CopyRegisters ELSE {})
    \cup (IF On(mask.range, g) THEN bound \cap RangeRegisters ELSE {})
    \cup (IF On(mask.finish, g) THEN RootRegisters ELSE bound \cap RootRegisters)

-----------------------------------------------------------------------------
Init == /\ depth \in Depths
        /\ mask = Columns(depth)
        /\ row = 0
        /\ rate = <<"none">>
        /\ bound = AssertedRoot
        /\ loaded = NoBit
        /\ unchecked = {}

(* The builder loads a scalar bit as it doubles; the constraints of a      *)
(* doubling find the bit binary that is in the register.                   *)
NextRow ==
  /\ row < LastRow
  /\ row' = row + 1
  /\ rate' = RateAfter(row)
  /\ bound' = Tied(row)
  /\ LET loads == <<"double">> \in BuilderOps(row)
         checks == On(mask.doubling, row)
     IN /\ loaded' = IF loads THEN SigStep(row) \div 2 ELSE loaded
        /\ unchecked' = (unchecked \ (IF checks THEN {loaded} ELSE {}))
                          \cup (IF loads THEN {loaded'} ELSE {})
  /\ UNCHANGED <<depth, mask>>

Filled == row = LastRow /\ UNCHANGED vars

Next == NextRow \/ Filled
Spec == Init /\ [][Next]_vars

-----------------------------------------------------------------------------
TypeOK == /\ depth \in Depths
          /\ row \in 0 .. LastRow
          /\ bound \subseteq 0 .. (TraceWidth - 1)
          /\ loaded \in 0 .. (ScalarMulLength \div 2 - 1) \cup {NoBit}
          /\ unchecked \subseteq 0 .. (ScalarMulLength \div 2 - 1) \cup {NoBit}

(* On every row the masks switch on the constraints of exactly the         *)
(* operations the builder performs on it; only the start of the signature  *)
(* has no constraint (air.rs 194-380 against trace.rs 77-143).             *)
MasksFollowBuilder == EnforcedOps(row) = BuilderOps(row) \ {<<"signatureInit">>}

(* Where the hash is copied, the builder has put in its rate what the      *)
(* constraints ask for: the message registers of that iteration, in order, *)
(* and zero ever after, though the builder writes zero only once           *)
(* (schnorr/trace.rs 52-72, air.rs 541-568).                               *)
RateFollowsMasks == [][CopyHash(row) => rate' = RequiredRate(row)]_vars

(* Operations of one row write different registers, and none writes the    *)
(* copies or, but for the new root, the root: the signature and the range  *)
(* proofs reuse the Merkle registers up to the register before the root    *)
(* (constants.rs 33-83, trace.rs 77-130).                                  *)
RegistersKeptApart ==
  LET ops == BuilderOps(row)
  IN /\ \A a, b \in ops : a # b => Written(a) \cap Written(b) = {}
     /\ \A a \in ops :
          /\ Written(a) \cap CopyRegisters = {}
          /\ a # <<"newRoot">> => Written(a) \cap RootRegisters = {}
          /\ Written(a) \subseteq 0 .. (TraceWidth - 1)

(* The message hashed and the delta compared are those of the leaves: the  *)
(* copies are tied from the first row to the last that reads them there    *)
(* (air.rs 333-345, 541-568, 600-604).                                     *)
InputsTied ==
  row > 0 => InputReads(row - 1) \cup RangeReads(row - 1) \subseteq bound

(* The comment at air.rs 506: the keys are copied for the remainder of the *)
(* transaction, so each addition of the sender's key reads a tied copy.    *)
KeyTied == row > 0 => KeyReads(row - 1) \subseteq bound

(* The comment at air.rs 599 and constants.rs 67: at the end of the range  *)
(* proofs both accumulators are compared with their copies.                *)
BothRangesCompared ==
  On(mask.rangeFinish, row) =>
    {<<DeltaAccPos, DeltaCopyPos>>, <<SigmaAccPos, SigmaCopyPos>>}
      \subseteq Compared(row)

(* Of the 255 bits of each scalar all but the last are found binary before *)
(* the transaction ends, one doubling after they were added.               *)
UncheckedAtMostLast ==
  row = LastRow => unchecked \subseteq {ScalarMulLength \div 2 - 1}
=============================================================================
