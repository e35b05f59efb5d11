----------------------- MODULE TransactionSlotsProofs -----------------------
(***************************************************************************)
(* Theorems about TransactionRows and TransactionSlots: that the masks,    *)
(* registers and results of the composed program fit each other, for every *)
(* depth of the tree whose hashes fit half a transaction.                  *)
(***************************************************************************)
EXTENDS TransactionSlots, TLAPS

-----------------------------------------------------------------------------
(* The masks in closed form: the rows of a transaction where each is one.  *)
LEMMA LastRowIs == LastRow = 1023
BY DEF LastRow, TxLength, MerkleLength

LEMMA MerkledOn ==
  ASSUME NEW column, NEW g \in Int, 0 <= g, g < 1024
  PROVE  On(Merkled(column), g) <=> g \in column.on
<1>1. Merkled(column) = [length |-> 1024, on |-> column.on]
  BY DEF Merkled, PadZero, Mask, TxLength, MerkleLength
<1>2. g % 1024 = g
  OBVIOUS
<1> QED BY <1>1, <1>2 DEF On

LEMMA SignedOn ==
  ASSUME NEW length, NEW rows \in SUBSET Int, NEW g \in Int, 0 <= g, g < 1024
  PROVE  On(Signed(Mask(length, rows)), g) <=> g - 512 \in rows
<1>1. Signed(Mask(length, rows)) = [length |-> 1024, on |-> {} \cup {512 + r : r \in rows}]
  BY DEF Signed, Stitch, PadZero, Empty, Mask, TxLength, MerkleLength
<1>2. g % 1024 = g
  OBVIOUS
<1>3. g \in {512 + r : r \in rows} <=> g - 512 \in rows
  <2>1. ASSUME NEW r \in rows, g = 512 + r
        PROVE  g - 512 \in rows
    <3>1. r \in Int
      OBVIOUS
    <3>2. g - 512 = r
      BY <2>1, <3>1
    <3> QED BY <3>2
  <2>2. ASSUME g - 512 \in rows
        PROVE  g \in {512 + r : r \in rows}
    <3>1. g = 512 + (g - 512)
      OBVIOUS
    <3> QED BY <2>2, <3>1
  <2> QED BY <2>1, <2>2
<1> QED BY <1>1, <1>2, <1>3 DEF On

LEMMA DepthFits ==
  ASSUME NEW d \in Depths
  PROVE  d \in Nat /\ d > 0 /\ HashLength(d) = 8 * d + 7 /\ HashLength(d) < 512
BY DepthsAssumption DEF HashLength, Cycle, Rounds, MerkleLength

(* The masks of the Merkle update.                                         *)
LEMMA MerkleMasks ==
  ASSUME NEW d \in Depths, NEW g \in Int, 0 <= g, g < 1024
  PROVE  /\ On(Columns(d).setup, g) <=> g = 0
         /\ On(Columns(d).merkle, g) <=> g < HashLength(d)
         /\ On(Columns(d).input, g) <=> g % 8 = 7
         /\ On(Columns(d).finish, g) <=> g = HashLength(d) - 1
         /\ On(Columns(d).hash, g) <=> g < HashLength(d) /\ g % 8 < 7
<1> DEFINE h == HashLength(d)
           update == UpdateColumns(d)
           hashing == 0 .. (h - 1)
<1>1. h \in Nat /\ h < 512 /\ h > 0 /\ g \in 0 .. 1023
  BY DepthFits
<1>2. \A r \in hashing : r % 512 = r
  <2> HIDE DEF h
  <2> QED BY <1>1
<1>3. /\ Columns(d).setup = Merkled(PadOne(Empty, 1))
      /\ Columns(d).merkle = Merkled(Fill(Empty, update.merkle, h))
      /\ Columns(d).input = Stitch(Empty, update.input)
      /\ Columns(d).finish = Merkled(Fill(Empty, update.finish, h))
      /\ Columns(d).hash = Merkled(Fill(Empty, update.hash, h))
  BY DEF Columns
<1>4. /\ update.merkle = [length |-> 512, on |-> hashing]
      /\ update.input = [length |-> 8, on |-> {7}]
      /\ update.finish = [length |-> 512, on |-> {h - 1}]
      /\ update.hash = [length |-> 512, on |-> {r \in hashing : On(CycleMask, r)}]
  BY DEF UpdateColumns, Mask, Rows, MerkleLength, Cycle
<1>5. \A r \in Int : On(CycleMask, r) <=> r % 8 < 7
  BY DEF CycleMask, On, Mask, Rows, Cycle, Rounds
<1> HIDE DEF update, h
<1>6. \A column : Fill(Empty, column, h).on = {r \in hashing : On(column, r)}
  BY <1>1 DEF Fill, Empty, Mask, Rows
<1>7. \A r \in hashing : /\ On(update.merkle, r)
                         /\ On(update.finish, r) <=> r = h - 1
                         /\ On(update.hash, r) <=> r % 8 < 7
  BY <1>1, <1>2, <1>4, <1>5 DEF On
<1>8. On(Columns(d).setup, g) <=> g = 0
  <2>1. PadOne(Empty, 1).on = {0}
    BY DEF PadOne, Empty, Mask, Rows
  <2> QED BY <1>3, <2>1, MerkledOn
<1>9. On(Columns(d).input, g) <=> g % 8 = 7
  <2>1. {} \cup {0 + r : r \in {7}} = {7} /\ 0 + 8 = 8
    OBVIOUS
  <2>2. update.input.length = 8 /\ update.input.on = {7}
    BY <1>4
  <2>3. Stitch(Empty, update.input)
          = [length |-> 0 + update.input.length,
             on |-> {} \cup {0 + r : r \in update.input.on}]
    BY DEF Stitch, Empty, Mask
  <2> QED BY <1>3, <2>1, <2>2, <2>3 DEF On
<1>10. g \in hashing <=> g < h
  BY <1>1
<1> HIDE DEF hashing
<1>11. /\ On(Columns(d).merkle, g) <=> g < h
       /\ On(Columns(d).finish, g) <=> g \in hashing /\ g = h - 1
       /\ On(Columns(d).hash, g) <=> g < h /\ g % 8 < 7
  BY <1>3, <1>6, <1>7, <1>10, MerkledOn
<1>12. g \in hashing /\ g = h - 1 <=> g = h - 1
  BY <1>1, <1>10
<1> QED BY <1>8, <1>9, <1>11, <1>12 DEF h

(* Those of the signature, of the range proofs and of the copies.          *)
LEMMA SignatureMasks ==
  ASSUME NEW d \in Depths, NEW g \in Int, 0 <= g, g < 1024, NEW s \in Int, s = g - 512
  PROVE  /\ On(Columns(d).sig, g) <=> s \in 0 .. 510
         /\ On(Columns(d).mult, g) <=> s \in 0 .. 509
         /\ On(Columns(d).doubling, g) <=> s \in 0 .. 509 /\ s % 2 = 0
         /\ On(Columns(d).limb[1], g) <=> s \in 0 .. 125
         /\ On(Columns(d).limb[2], g) <=> s \in 126 .. 253
         /\ On(Columns(d).limb[3], g) <=> s \in 254 .. 381
         /\ On(Columns(d).limb[4], g) <=> s \in 382 .. 509
         /\ On(Columns(d).sigHash, g) <=> s \in 0 .. 39 /\ s % 8 < 7
         /\ On(Columns(d).range, g) <=> s \in 0 .. 63
         /\ On(Columns(d).rangeFinish, g) <=> s = 63
         /\ On(Columns(d).copy, g) <=> g \in 1 .. 575
         /\ \A k \in 0 .. 3 : On(Columns(d).message[k + 1], g) <=> s = 8 * k + 7
<1>1. g \in 0 .. 1023 /\ s \in Int
  OBVIOUS
<1>2. ASSUME NEW n, NEW rows \in SUBSET Int
      PROVE  On(Signed(Mask(n, rows)), g) <=> s \in rows
  <2>1. g \in Int /\ 0 <= g /\ g < 1024 /\ rows \subseteq Int
    BY <1>1
  <2>2. On(Signed(Mask(n, rows)), g) <=> g - 512 \in rows
    BY ONLY <2>1, SignedOn
  <2> QED BY <2>2
<1>3. /\ Columns(d).sig = Signed(Mask(512, 0 .. 510))
      /\ Columns(d).mult = Signed(Mask(512, 0 .. 509))
      /\ Columns(d).range = Signed(Mask(64, 0 .. 63))
      /\ Columns(d).rangeFinish = Signed(Mask(64, {63}))
  BY DEF Columns, SignatureColumns, Rows, SigLength, ScalarMulLength, RangeLog
<1>4. Columns(d).doubling = Signed(Mask(512, {r \in 0 .. 509 : r % 2 = 0}))
  <2>1. DoublingRows = {r \in 0 .. 509 : r % 2 = 0}
    BY DEF DoublingRows, Rows, ScalarMulLength
  <2> QED BY <2>1 DEF Columns, SignatureColumns, SigLength
<1>5. /\ Columns(d).limb[1] = Signed(Mask(512, 0 .. 125))
      /\ Columns(d).limb[2] = Signed(Mask(512, 126 .. 253))
      /\ Columns(d).limb[3] = Signed(Mask(512, 254 .. 381))
      /\ Columns(d).limb[4] = Signed(Mask(512, 382 .. 509))
  <2>1. /\ LimbMask(1) = Mask(512, 0 .. 125) /\ LimbMask(2) = Mask(512, 126 .. 253)
        /\ LimbMask(3) = Mask(512, 254 .. 381) /\ LimbMask(4) = Mask(512, 382 .. 509)
    BY DEF LimbMask, LimbStart, Rows, SigLength
  <2> QED BY <2>1 DEF Columns, SignatureColumns
<1>6. Columns(d).sigHash = Signed(Mask(512, {r \in 0 .. 39 : r % 8 < 7}))
  <2>1. \A r \in Int : On(CycleMask, r) <=> r % 8 < 7
    BY DEF CycleMask, On, Mask, Rows, Cycle, Rounds
  <2>2. {} \cup {r \in 0 .. 39 : On(CycleMask, r)} = {r \in 0 .. 39 : r % 8 < 7}
    BY <2>1
  <2>3. PadZero(Fill(Empty, CycleMask, 40), 512)
          = Mask(512, {} \cup {r \in 0 .. 39 : On(CycleMask, r)})
    BY DEF PadZero, Fill, Empty, Mask, Rows
  <2> QED BY <2>2, <2>3 DEF Columns, SignatureColumns, NumHashIter, Cycle, SigLength
<1>7. ASSUME NEW k \in 0 .. 3
      PROVE  On(Columns(d).message[k + 1], g) <=> s = 8 * k + 7
  <2>1. Columns(d).message[k + 1] = InputMask(k)
    BY DEF Columns
  <2>2. InputMask(k) = Signed(Mask(512, {8 * k + 7}))
    BY DEF InputMask, SigLength, Cycle
  <2>3. {8 * k + 7} \subseteq Int
    OBVIOUS
  <2> QED BY <2>1, <2>2, <2>3, SignedOn
<1>8. On(Columns(d).copy, g) <=> g \in 1 .. 575
  <2>1. CopyEnd = 576
    BY DEF CopyEnd, Larger, MerkleLength, Cycle, RangeLog
  <2>2. Columns(d).copy = [length |-> 1024, on |-> ({} \cup 1 .. 511) \cup 512 .. 575]
    BY <2>1 DEF Columns, PadZero, PadOne, Empty, Mask, Rows, MerkleLength, TxLength
  <2>3. g % 1024 = g
    BY <1>1
  <2> QED BY <1>1, <2>2, <2>3 DEF On
<1> DEFINE Even == {r \in 0 .. 509 : r % 2 = 0}
           Hashed == {r \in 0 .. 39 : r % 8 < 7}
<1>9. /\ 0 .. 510 \in SUBSET Int /\ 0 .. 509 \in SUBSET Int
      /\ 0 .. 63 \in SUBSET Int /\ {63} \in SUBSET Int
      /\ 0 .. 125 \in SUBSET Int /\ 126 .. 253 \in SUBSET Int
      /\ 254 .. 381 \in SUBSET Int /\ 382 .. 509 \in SUBSET Int
      /\ Even \in SUBSET Int /\ Hashed \in SUBSET Int
  OBVIOUS
<1>10. Columns(d).doubling = Signed(Mask(512, Even)) /\ Columns(d).sigHash = Signed(Mask(512, Hashed))
  BY <1>4, <1>6
<1> HIDE DEF Even, Hashed
<1>11. On(Columns(d).sig, g) <=> s \in 0 .. 510
  BY ONLY <1>2, <1>3, <1>9, <1>1
<1>12. On(Columns(d).mult, g) <=> s \in 0 .. 509
  BY ONLY <1>2, <1>3, <1>9, <1>1
<1>13. On(Columns(d).range, g) <=> s \in 0 .. 63
  BY ONLY <1>2, <1>3, <1>9, <1>1
<1>14. On(Columns(d).rangeFinish, g) <=> s \in {63}
  BY ONLY <1>2, <1>3, <1>9, <1>1
<1>15. On(Columns(d).doubling, g) <=> s \in Even
  BY ONLY <1>2, <1>10, <1>9, <1>1
<1>16. On(Columns(d).sigHash, g) <=> s \in Hashed
  BY ONLY <1>2, <1>10, <1>9, <1>1
<1>17. On(Columns(d).limb[1], g) <=> s \in 0 .. 125
  BY ONLY <1>2, <1>5, <1>9, <1>1
<1>18. On(Columns(d).limb[2], g) <=> s \in 126 .. 253
  BY ONLY <1>2, <1>5, <1>9, <1>1
<1>19. On(Columns(d).limb[3], g) <=> s \in 254 .. 381
  BY ONLY <1>2, <1>5, <1>9, <1>1
<1>20. On(Columns(d).limb[4], g) <=> s \in 382 .. 509
  BY ONLY <1>2, <1>5, <1>9, <1>1
<1> USE DEF Even, Hashed
<1> QED BY <1>7, <1>8, <1>11, <1>12, <1>13, <1>14, <1>15, <1>16, <1>17, <1>18, <1>19, <1>20

(* What the masks of a state switch on, on a row and on its step s of the  *)
(* signature.                                                              *)
MaskedRows(g, s, h) ==
  /\ On(mask.setup, g) <=> g = 0
  /\ On(mask.merkle, g) <=> g < h
  /\ On(mask.input, g) <=> g % 8 = 7
  /\ On(mask.finish, g) <=> g = h - 1
  /\ On(mask.hash, g) <=> g < h /\ g % 8 < 7
  /\ On(mask.sig, g) <=> 0 <= s /\ s <= 510
  /\ On(mask.mult, g) <=> 0 <= s /\ s <= 509
  /\ On(mask.doubling, g) <=> 0 <= s /\ s <= 509 /\ s % 2 = 0
  /\ On(mask.limb[1], g) <=> 0 <= s /\ s <= 125
  /\ On(mask.limb[2], g) <=> 126 <= s /\ s <= 253
  /\ On(mask.limb[3], g) <=> 254 <= s /\ s <= 381
  /\ On(mask.limb[4], g) <=> 382 <= s /\ s <= 509
  /\ On(mask.sigHash, g) <=> 0 <= s /\ s <= 39 /\ s % 8 < 7
  /\ On(mask.range, g) <=> 0 <= s /\ s <= 63
  /\ On(mask.rangeFinish, g) <=> s = 63
  /\ On(mask.copy, g) <=> 1 <= g /\ g <= 575
  /\ \A k \in 0 .. 3 : On(mask.message[k + 1], g) <=> s = 8 * k + 7

LEMMA MasksOn ==
  ASSUME depth \in Depths, mask = Columns(depth), NEW g \in Int, 0 <= g, g < 1024
  PROVE  MaskedRows(g, g - 512, HashLength(depth))
<1> DEFINE s == g - 512
<1>1. s \in Int /\ s = g - 512 /\ g \in Int /\ 0 <= g /\ g < 1024
  OBVIOUS
<1> HIDE DEF s
<1>2. /\ On(mask.setup, g) <=> g = 0
      /\ On(mask.merkle, g) <=> g < HashLength(depth)
      /\ On(mask.input, g) <=> g % 8 = 7
      /\ On(mask.finish, g) <=> g = HashLength(depth) - 1
      /\ On(mask.hash, g) <=> g < HashLength(depth) /\ g % 8 < 7
  BY MerkleMasks
<1>3. /\ On(Columns(depth).sig, g) <=> s \in 0 .. 510
      /\ On(Columns(depth).mult, g) <=> s \in 0 .. 509
      /\ On(Columns(depth).doubling, g) <=> s \in 0 .. 509 /\ s % 2 = 0
      /\ On(Columns(depth).limb[1], g) <=> s \in 0 .. 125
      /\ On(Columns(depth).limb[2], g) <=> s \in 126 .. 253
      /\ On(Columns(depth).limb[3], g) <=> s \in 254 .. 381
      /\ On(Columns(depth).limb[4], g) <=> s \in 382 .. 509
      /\ On(Columns(depth).sigHash, g) <=> s \in 0 .. 39 /\ s % 8 < 7
      /\ On(Columns(depth).range, g) <=> s \in 0 .. 63
      /\ On(Columns(depth).rangeFinish, g) <=> s = 63
      /\ On(Columns(depth).copy, g) <=> g \in 1 .. 575
      /\ \A k \in 0 .. 3 : On(Columns(depth).message[k + 1], g) <=> s = 8 * k + 7
  BY ONLY depth \in Depths, <1>1, SignatureMasks
<1>4. MaskedRows(g, s, HashLength(depth))
  BY ONLY mask = Columns(depth), <1>1, <1>2, <1>3 DEF MaskedRows
<1> QED BY <1>4 DEF s

-----------------------------------------------------------------------------
(* The registers of the layout.                                            *)
LEMMA CopiesAre == CopyRegisters = 65 .. 91
BY DEF CopyRegisters, Span, SenderKeyPos, MerkleWidth, RootPos, LaneWidth,
       StateWidth, DigestWidth, AffineWidth

LEMMA RootsAre == RootRegisters = 58 .. 64
BY DEF RootRegisters, Span, RootPos, LaneWidth, StateWidth, DigestWidth

LEMMA WidthIs == TraceWidth = 94
BY DEF TraceWidth, NonceCopyPos, DeltaCopyPos, MerkleWidth, RootPos, LaneWidth,
       StateWidth, DigestWidth, AffineWidth

(* The bit in the registers after the row before: the last one loaded.     *)
LoadedBit(g) == IF g < 513 THEN NoBit
                ELSE IF g < 1023 THEN (g - 513) \div 2
                ELSE 254

(* The inductive invariant: the masks are those of the depth; past the     *)
(* last iteration the rate is zero; up to the row that ends the range      *)
(* proofs the copies are tied; at most the bit just loaded is unchecked.   *)
RowInv ==
  /\ depth \in Depths
  /\ mask = Columns(depth)
  /\ row \in 0 .. 1023
  /\ row > 551 => rate = <<"zero">>
  /\ bound \subseteq 0 .. 93
  /\ row > 0 /\ row < 577 => 65 .. 91 \subseteq bound
  /\ loaded = LoadedBit(row)
  /\ unchecked \subseteq {loaded} \ {NoBit}

(* The builder doubles on the rows of the doubling mask.                   *)
LEMMA DoublesOn ==
  ASSUME NEW g \in Int, 0 <= g, g < 1024
  PROVE  <<"double">> \in BuilderOps(g) <=>
           0 <= g - 512 /\ g - 512 <= 509 /\ (g - 512) % 2 = 0
<1>1. CASE g < 511
  <2>1. BuilderOps(g) = MerkleOps(g)
    BY <1>1 DEF BuilderOps, MerkleLength
  <2>2. <<"double">> \notin MerkleOps(g)
    BY DEF MerkleOps, When
  <2> QED BY <1>1, <2>1, <2>2
<1>2. CASE g = 511
  <2>1. BuilderOps(g) = {<<"signatureInit">>}
    BY <1>2 DEF BuilderOps, MerkleLength
  <2>2. <<"double">> # <<"signatureInit">>
    OBVIOUS
  <2> QED BY <1>2, <2>1, <2>2
<1>3. CASE g > 511
  <2> DEFINE s == g - 512
  <2>1. BuilderOps(g) = SignatureOps(s)
    BY <1>3 DEF BuilderOps, MerkleLength, SigStep
  <2>2. s \in Int /\ s = g - 512 /\ s >= 0
    BY <1>3
  <2> HIDE DEF s
  <2>3. /\ <<"double">> # <<"sigRound">> /\ <<"double">> # <<"limb", Limb(s \div 2)>>
        /\ <<"double">> # <<"add">> /\ <<"double">> # <<"finalAdd">>
        /\ <<"double">> # <<"range">>
    OBVIOUS
  <2>4. <<"double">> \in SignatureOps(s) <=> s < 510 /\ s % 2 = 0
    BY ONLY <2>3 DEF SignatureOps, When, ScalarMulLength
  <2> QED BY <2>1, <2>2, <2>4 DEF s
<1> QED BY <1>1, <1>2, <1>3

LEMMA RowInvInit == Init => RowInv
<1> SUFFICES ASSUME Init PROVE RowInv
  OBVIOUS
<1>1. bound = 58 .. 59
  BY DEF Init, AssertedRoot, Span, RootPos, LaneWidth, StateWidth
<1> QED BY <1>1 DEF Init, RowInv, LoadedBit, NoBit

LEMMA RowInvNext == RowInv /\ [Next]_vars => RowInv'
<1> SUFFICES ASSUME RowInv, [Next]_vars PROVE RowInv'
  OBVIOUS
<1>1. CASE NextRow
  <2>1. /\ row \in Int /\ 0 <= row /\ row < 1023 /\ row' = row + 1
        /\ depth' = depth /\ mask' = mask
    BY <1>1, LastRowIs DEF RowInv, NextRow
  <2>2. MaskedRows(row, row - 512, HashLength(depth))
    BY <2>1, MasksOn DEF RowInv
  <2>3. row' > 551 => rate' = <<"zero">>
    <3>1. rate' = RateAfter(row)
      BY <1>1 DEF NextRow
    <3>2. CASE row = 551
      <4>1. SigStep(row) = 39
        BY <3>2 DEF SigStep, MerkleLength
      <4>2. RateAfter(row) = <<"zero">>
        BY <4>1 DEF RateAfter, NumHashIter, Cycle, Rounds
      <4> QED BY <3>1, <4>2
    <3>3. CASE row > 551
      <4>1. SigStep(row) \in Int /\ SigStep(row) >= 40
        BY <3>3, <2>1 DEF SigStep, MerkleLength
      <4>2. RateAfter(row) = rate
        BY <4>1 DEF RateAfter, NumHashIter, Cycle, Rounds
      <4> QED BY <3>1, <3>3, <4>2 DEF RowInv
    <3> QED BY <2>1, <3>2, <3>3
  <2>4. bound' \subseteq 0 .. 93
    <3>1. bound' = Tied(row)
      BY <1>1 DEF NextRow
    <3>2. CopyRegisters \subseteq 0 .. 93 /\ RootRegisters \subseteq 0 .. 93
      BY CopiesAre, RootsAre
    <3> QED BY <3>1, <3>2 DEF Tied, RowInv
  <2>5. row' > 0 /\ row' < 577 => 65 .. 91 \subseteq bound'
    <3> SUFFICES ASSUME row < 576 PROVE CopyRegisters \subseteq Tied(row)
      BY <1>1, <2>1, CopiesAre DEF NextRow
    <3>1. CASE row = 0
      <4>1. On(mask.setup, row)
        BY <2>2, <3>1 DEF MaskedRows
      <4> QED BY <4>1 DEF Tied
    <3>2. CASE row > 0
      <4>1. On(mask.copy, row)
        BY <2>1, <2>2, <3>2 DEF MaskedRows
      <4>2. CopyRegisters \subseteq bound
        BY <2>1, <3>2, CopiesAre DEF RowInv
      <4> QED BY <4>1, <4>2 DEF Tied
    <3> QED BY <2>1, <3>1, <3>2
  <2> DEFINE doubles == 0 <= row - 512 /\ row - 512 <= 509 /\ (row - 512) % 2 = 0
  <2>6. /\ <<"double">> \in BuilderOps(row) <=> doubles
        /\ On(mask.doubling, row) <=> doubles
    BY <2>1, <2>2, DoublesOn DEF MaskedRows
  <2>7. loaded' = IF doubles THEN (row - 512) \div 2 ELSE loaded
    BY <1>1, <2>6 DEF NextRow, SigStep, MerkleLength
  <2>8. unchecked' = (unchecked \ (IF doubles THEN {loaded} ELSE {}))
                       \cup (IF doubles THEN {loaded'} ELSE {})
    BY <1>1, <2>6 DEF NextRow
  <2>9. loaded' = LoadedBit(row + 1) /\ (doubles => loaded' # NoBit)
    BY <2>1, <2>7 DEF LoadedBit, RowInv, NoBit
  <2>10. unchecked' \subseteq {loaded'} \ {NoBit}
    <3>1. CASE doubles
      BY <2>8, <2>9, <3>1 DEF RowInv
    <3>2. CASE ~doubles
      BY <2>7, <2>8, <3>2 DEF RowInv
    <3> QED BY <3>1, <3>2
  <2> HIDE DEF doubles
  <2>11. loaded' = LoadedBit(row')
    BY <2>1, <2>9
  <2> QED BY <2>1, <2>3, <2>4, <2>5, <2>10, <2>11 DEF RowInv, LoadedBit
<1>2. CASE UNCHANGED vars
  BY <1>2 DEF vars, RowInv, LoadedBit
<1>3. CASE Filled
  BY <1>2, <1>3 DEF Filled
<1> QED BY <1>1, <1>2, <1>3 DEF Next

LEMMA RowInvAlways == Spec => []RowInv
BY RowInvInit, RowInvNext, PTL DEF Spec

-----------------------------------------------------------------------------
(* On every row the depth, the row, the tied registers and the bits of the *)
(* scalars stay in their ranges (trace.rs 77-143).                         *)
THEOREM RowsTyped == Spec => []TypeOK
<1>1. RowInv => TypeOK
  <2> SUFFICES ASSUME RowInv PROVE TypeOK
    OBVIOUS
  <2>1. 510 \div 2 - 1 = 254
    OBVIOUS
  <2>2. LoadedBit(row) \in 0 .. 254 \cup {NoBit}
    BY DEF RowInv, LoadedBit
  <2> QED BY <2>1, <2>2, LastRowIs, WidthIs DEF RowInv, TypeOK, ScalarMulLength
<1> QED BY <1>1, RowInvAlways, PTL

(* Of the 255 bits of each scalar all but the last are found binary before *)
(* the transaction ends: each doubling checks the bit the previous one     *)
(* loaded (schnorr/air.rs 420-560).                                        *)
THEOREM BitsCheckedButLast == Spec => []UncheckedAtMostLast
<1>1. RowInv => UncheckedAtMostLast
  <2> SUFFICES ASSUME RowInv, row = LastRow PROVE unchecked \subseteq {ScalarMulLength \div 2 - 1}
    BY DEF UncheckedAtMostLast
  <2>1. loaded = 254
    BY LastRowIs DEF RowInv, LoadedBit
  <2>2. ScalarMulLength \div 2 - 1 = 254
    BY DEF ScalarMulLength
  <2> QED BY <2>1, <2>2 DEF RowInv
<1> QED BY <1>1, RowInvAlways, PTL

(* The registers the constraints choose for an iteration of the hash.      *)
LEMMA CellsAre ==
  ASSUME NEW k \in 0 .. 3, NEW i \in 0 .. 6
  PROVE  /\ InputCell(k, i) = MessageElement(7 * k + i)
         /\ InputCell(k, i) \in 65 .. 91 \cup {NoRegister}
<1> DEFINE j == 7 * k + i
<1>1. /\ j \in Int /\ 0 <= j /\ j <= 27 /\ k * 7 + i = j
      /\ 65 + k * 7 + i = 65 + j /\ 77 + k * 7 + i - 12 = 77 + j - 12
  OBVIOUS
<1>2. InputCell(k, i) = IF j < 12 THEN 65 + j
                        ELSE IF j < 24 THEN 77 + j - 12
                        ELSE IF j = 24 THEN 89
                        ELSE IF j = 25 THEN 91
                        ELSE NoRegister
  <2>1. /\ SenderKeyPos = 65 /\ ReceiverKeyPos = 77 /\ DeltaCopyPos = 89
        /\ NonceCopyPos = 91 /\ DigestWidth = 7 /\ AffineWidth = 12
    BY DEF SenderKeyPos, ReceiverKeyPos, DeltaCopyPos, NonceCopyPos, MerkleWidth,
           RootPos, LaneWidth, StateWidth, DigestWidth, AffineWidth
  <2>2. InputCell(k, i) = IF k * 7 + i < 12 THEN 65 + k * 7 + i
                          ELSE IF k * 7 + i < 2 * 12 THEN 77 + k * 7 + i - 12
                          ELSE IF k * 7 + i = 2 * 12 THEN 89
                          ELSE IF k * 7 + i = 2 * 12 + 1 THEN 91
                          ELSE NoRegister
    BY ONLY <2>1, Zenon DEF InputCell
  <2>3. /\ k * 7 + i = j
        /\ 65 + k * 7 + i = 65 + j
        /\ 77 + k * 7 + i - 12 = 77 + j - 12
        /\ 2 * 12 = 24 /\ 2 * 12 + 1 = 25
    BY <1>1
  <2> HIDE DEF j
  <2> QED BY ONLY <2>2, <2>3, Zenon
<1>3. MessageElement(j) = IF j < 12 THEN 65 + j
                          ELSE IF j < 24 THEN 77 + j - 12
                          ELSE IF j = 24 THEN 89
                          ELSE IF j = 25 THEN 91
                          ELSE NoRegister
  BY <1>1 DEF MessageElement, DigestWidth, AffineWidth, SenderKeyPos, ReceiverKeyPos,
              DeltaCopyPos, NonceCopyPos, MerkleWidth, RootPos, LaneWidth, StateWidth
<1> HIDE DEF j
<1>4. InputCell(k, i) \in 65 .. 91 \cup {NoRegister}
  BY <1>1, <1>2
<1> QED BY <1>2, <1>3, <1>4 DEF j

(* The message hashed and the delta compared are those of the leaves: the  *)
(* copies are tied from the first row to the last that reads them there    *)
(* (air.rs 333-345, 541-568, 600-604).                                     *)
THEOREM InputsAlwaysTied == Spec => []InputsTied
<1>1. RowInv => InputsTied
  <2> SUFFICES ASSUME RowInv, row > 0
               PROVE  InputReads(row - 1) \cup RangeReads(row - 1) \subseteq bound
    BY DEF InputsTied
  <2> DEFINE g == row - 1
  <2>1. row \in 1 .. 1023 /\ g \in Int /\ 0 <= g /\ g < 1023 /\ row = g + 1
    BY DEF RowInv
  <2> HIDE DEF g
  <2>2. MaskedRows(g, g - 512, HashLength(depth))
    BY <2>1, MasksOn DEF RowInv
  <2>3. row < 577 => 65 .. 91 \subseteq bound
    BY <2>1 DEF RowInv
  <2>4. InputReads(g) \subseteq bound
    <3> SUFFICES ASSUME NEW k \in InputsOn(g), NEW i \in 0 .. 6,
                        InputCell(k, i) # NoRegister
                 PROVE  InputCell(k, i) \in bound
      BY DEF InputReads, DigestWidth
    <3>1. k \in 0 .. 3 /\ On(mask.message[k + 1], g)
      BY DEF InputsOn, NumHashIter
    <3>2. g - 512 = 8 * k + 7
      BY <2>2, <3>1 DEF MaskedRows
    <3>3. row < 577
      BY <2>1, <3>1, <3>2
    <3>4. InputCell(k, i) \in 65 .. 91
      BY <3>1, CellsAre
    <3> QED BY <2>3, <3>3, <3>4
  <2>5. RangeReads(g) \subseteq bound
    <3> SUFFICES ASSUME On(mask.rangeFinish, g) PROVE DeltaCopyPos \in bound
      BY DEF RangeReads
    <3>1. g - 512 = 63
      BY <2>2 DEF MaskedRows
    <3>2. DeltaCopyPos = 89
      BY DEF DeltaCopyPos, MerkleWidth, RootPos, LaneWidth, StateWidth, DigestWidth, AffineWidth
    <3> QED BY <2>1, <2>3, <3>1, <3>2
  <2> QED BY <2>4, <2>5 DEF g
<1> QED BY <1>1, RowInvAlways, PTL

(* Where the hash is copied, the builder has put in its rate what the      *)
(* constraints ask for: the message registers of that iteration, in order, *)
(* and zero ever after, though the builder writes zero only once           *)
(* (schnorr/trace.rs 52-72, air.rs 541-568).                               *)
THEOREM RateAlwaysFollows == Spec => RateFollowsMasks
<1>1. RowInv /\ [Next]_vars => [CopyHash(row) => rate' = RequiredRate(row)]_vars
  <2> SUFFICES ASSUME RowInv, Next, vars' # vars, CopyHash(row)
               PROVE  rate' = RequiredRate(row)
    OBVIOUS
  <2>1. NextRow
    BY DEF Next, Filled
  <2>2. row \in Int /\ 0 <= row /\ row < 1023 /\ rate' = RateAfter(row)
    BY <2>1, LastRowIs DEF RowInv, NextRow
  <2> DEFINE s == row - 512
  <2>3. s \in Int /\ s = row - 512 /\ SigStep(row) = s
    BY <2>2 DEF SigStep, MerkleLength
  <2>4. MaskedRows(row, s, HashLength(depth))
    BY <2>2, MasksOn DEF RowInv
  <2> HIDE DEF s
  <2>5. 0 <= s /\ s <= 510 /\ ~(s <= 39 /\ s % 8 < 7)
    BY <2>3, <2>4 DEF CopyHash, MaskedRows
  <2>6. \A k \in 0 .. 3 : k \in InputsOn(row) <=> s = 8 * k + 7
    BY <2>4 DEF MaskedRows, InputsOn, NumHashIter
  <2>7. InputsOn(row) \subseteq 0 .. 3
    BY DEF InputsOn, NumHashIter
  <2>8. CASE s < 32
    <3> DEFINE k == s \div 8
    <3>1. k \in 0 .. 3 /\ s = 8 * k + 7 /\ s % 8 = 7
      BY <2>3, <2>5, <2>8
    <3> HIDE DEF k
    <3>2. InputsOn(row) = {k}
      <4>1. ASSUME NEW m \in 0 .. 3, s = 8 * m + 7
            PROVE  m = k
        BY <3>1, <4>1
      <4> QED BY <2>6, <2>7, <3>1, <4>1
    <3>3. RequiredRate(row) = <<"input", [i \in 0 .. 6 |-> InputCell(k, i)]>>
      BY <3>2 DEF RequiredRate, DigestWidth
    <3>4. RateAfter(row) = <<"input", Chunk(k)>>
      <4>1. s \div 8 = k
        BY DEF k
      <4>2. ~(s < 0) /\ ~(s >= 40) /\ ~(s % 8 < 7) /\ s < 32
        BY <2>3, <2>5, <2>8, <3>1
      <4> QED BY <2>3, <4>1, <4>2 DEF RateAfter, NumHashIter, Cycle, Rounds
    <3>5. Chunk(k) = [i \in 0 .. 6 |-> InputCell(k, i)]
      <4>1. \A i \in 0 .. 6 : MessageElement(7 * k + i) = InputCell(k, i)
        BY <3>1, CellsAre
      <4> QED BY <4>1 DEF Chunk, DigestWidth
    <3> QED BY <2>2, <3>3, <3>4, <3>5
  <2>9. CASE s > 31
    <3>1. InputsOn(row) = {}
      BY <2>3, <2>6, <2>7, <2>9
    <3>2. RequiredRate(row) = <<"zero">>
      BY <3>1 DEF RequiredRate
    <3>3. CASE s = 39
      <4>1. RateAfter(row) = <<"zero">>
        BY <2>3, <3>3 DEF RateAfter, NumHashIter, Cycle, Rounds
      <4> QED BY <2>2, <3>2, <4>1
    <3>4. CASE s >= 40
      <4>1. rate = <<"zero">>
        BY <2>3, <3>4 DEF RowInv
      <4>2. RateAfter(row) = rate
        BY <2>3, <3>4 DEF RateAfter, NumHashIter, Cycle, Rounds
      <4> QED BY <2>2, <3>2, <4>1, <4>2
    <3>5. s = 39 \/ s >= 40
      <4>1. \A x \in Int : x > 31 /\ ~(x <= 39 /\ x % 8 < 7) => x = 39 \/ x >= 40
        OBVIOUS
      <4> QED BY <2>3, <2>5, <2>9, <4>1
    <3> QED BY <3>3, <3>4, <3>5
  <2> QED BY <2>3, <2>8, <2>9
<1> QED BY <1>1, RowInvAlways, PTL DEF Spec, RateFollowsMasks

-----------------------------------------------------------------------------
(* The three phases of a transaction: what the builder performs and what   *)
(* the masks enforce on a row.                                             *)
LEMMA HashLengthFits ==
  ASSUME RowInv
  PROVE  HashLength(depth) \in Nat /\ HashLength(depth) < 512 /\ HashLength(depth) > 0
BY DepthFits DEF RowInv

LEMMA MerkleRow ==
  ASSUME RowInv, row < 511
  PROVE  /\ BuilderOps(row) = MerkleOps(row)
         /\ EnforcedOps(row) = MerkleOps(row)
<1> DEFINE h == HashLength(depth)
<1>1. row \in Int /\ 0 <= row /\ row < 511
  BY DEF RowInv
<1>2. MaskedRows(row, row - 512, h)
  BY <1>1, MasksOn DEF RowInv
<1>3. BuilderOps(row) = MerkleOps(row)
  BY <1>1 DEF BuilderOps, MerkleLength
<1> HIDE DEF h
<1>4. /\ On(mask.hash, row) <=> row < h /\ row % 8 < 7
      /\ On(mask.merkle, row) /\ On(mask.input, row) <=> row < h /\ row % 8 = 7
      /\ On(mask.finish, row) <=> row = h - 1
      /\ ~On(mask.sig, row) /\ ~On(mask.mult, row) /\ ~On(mask.doubling, row)
      /\ ~On(mask.sigHash, row) /\ ~On(mask.range, row)
  BY <1>1, <1>2 DEF MaskedRows
<1>5. /\ When(On(mask.sigHash, row), <<"sigRound">>) = {}
      /\ When(On(mask.doubling, row), <<"double">>) = {}
      /\ When(Addition(row), <<"add">>) = {}
      /\ When(FinalAddition(row), <<"finalAdd">>) = {}
      /\ When(On(mask.range, row), <<"range">>) = {}
      /\ \A k \in 0 .. 3 : When(On(mask.limb[k + 1], row) /\ On(mask.doubling, row),
                                <<"limb", k>>) = {}
  BY <1>4 DEF When, Addition, FinalAddition
<1>6. UNION {When(On(mask.limb[k + 1], row) /\ On(mask.doubling, row), <<"limb", k>>)
               : k \in 0 .. 3} = {}
  BY <1>5
<1>7. /\ When(On(mask.hash, row), <<"merkleRound">>)
            = When(row < h /\ row % 8 < 7, <<"merkleRound">>)
      /\ When(On(mask.merkle, row) /\ On(mask.input, row), <<"merkleInsert">>)
            = When(row < h /\ row % 8 = 7, <<"merkleInsert">>)
      /\ When(On(mask.finish, row), <<"newRoot">>) = When(row = h - 1, <<"newRoot">>)
  BY <1>4 DEF When
<1>8. MerkleOps(row) = When(row < h /\ row % 8 < 7, <<"merkleRound">>)
                        \cup When(row < h /\ row % 8 = 7, <<"merkleInsert">>)
                        \cup When(row = h - 1, <<"newRoot">>)
  <2>1. 8 - 1 = 7
    OBVIOUS
  <2> QED BY <2>1 DEF MerkleOps, h, Cycle, Rounds
<1>9. EnforcedOps(row) = When(row < h /\ row % 8 < 7, <<"merkleRound">>)
                        \cup When(row < h /\ row % 8 = 7, <<"merkleInsert">>)
                        \cup When(row = h - 1, <<"newRoot">>)
  BY ONLY <1>5, <1>6, <1>7 DEF EnforcedOps
<1> QED BY <1>3, <1>8, <1>9

LEMMA StartRow ==
  ASSUME RowInv, row = 511
  PROVE  BuilderOps(row) = {<<"signatureInit">>} /\ EnforcedOps(row) = {}
<1> DEFINE h == HashLength(depth)
<1>1. BuilderOps(row) = {<<"signatureInit">>}
  BY DEF BuilderOps, MerkleLength
<1>2. MaskedRows(row, row - 512, h)
  BY MasksOn DEF RowInv
<1>3. h \in Nat /\ h < 512
  BY HashLengthFits
<1> HIDE DEF h
<1>4. /\ ~On(mask.hash, row) /\ ~On(mask.merkle, row) /\ ~On(mask.finish, row)
      /\ ~On(mask.sig, row) /\ ~On(mask.mult, row) /\ ~On(mask.doubling, row)
      /\ ~On(mask.sigHash, row) /\ ~On(mask.range, row)
  BY <1>2, <1>3 DEF MaskedRows
<1>5. UNION {When(On(mask.limb[k + 1], row) /\ On(mask.doubling, row), <<"limb", k>>)
               : k \in 0 .. 3} = {}
  BY <1>4 DEF When
<1>6. EnforcedOps(row) = {}
  BY ONLY <1>4, <1>5 DEF EnforcedOps, When, Addition, FinalAddition
<1> QED BY <1>1, <1>6

(* The limb of the digest a doubling takes its bit from.                   *)
LEMMA LimbAt ==
  ASSUME NEW s \in Int, 0 <= s, s < 510, s % 2 = 0
  PROVE  /\ s <= 125 => Limb(s \div 2) = 0
         /\ 126 <= s /\ s <= 253 => Limb(s \div 2) = 1
         /\ 254 <= s /\ s <= 381 => Limb(s \div 2) = 2
         /\ 382 <= s => Limb(s \div 2) = 3
<1> DEFINE r == s \div 2
<1>1. r \in Int /\ 0 <= r /\ s = 2 * r
  OBVIOUS
<1> HIDE DEF r
<1>2. r < 63 => Limb(r) = 0
  BY <1>1 DEF Limb
<1>3. 63 <= r /\ r <= 126 => Limb(r) = 1
  <2>1. 63 <= r /\ r <= 126 => (r - 63) \div 64 = 0
    BY <1>1
  <2> QED BY <1>1, <2>1 DEF Limb
<1>4. 127 <= r /\ r <= 190 => Limb(r) = 2
  <2>1. 127 <= r /\ r <= 190 => (r - 63) \div 64 = 1
    BY <1>1
  <2> QED BY <1>1, <2>1 DEF Limb
<1>5. 191 <= r /\ r < 255 => Limb(r) = 3
  <2>1. 191 <= r /\ r < 255 => (r - 63) \div 64 = 2
    BY <1>1
  <2> QED BY <1>1, <2>1 DEF Limb
<1> QED BY <1>1, <1>2, <1>3, <1>4, <1>5 DEF r

LEMMA SignatureRow ==
  ASSUME RowInv, row > 511
  PROVE  /\ BuilderOps(row) = SignatureOps(row - 512)
         /\ EnforcedOps(row) = SignatureOps(row - 512)
<1> DEFINE s == row - 512
           h == HashLength(depth)
<1>1. s \in Int /\ 0 <= s /\ s <= 511 /\ row = s + 512
  BY DEF RowInv
<1>2. MaskedRows(row, s, h)
  BY MasksOn DEF RowInv
<1>3. BuilderOps(row) = SignatureOps(s)
  BY DEF BuilderOps, MerkleLength, SigStep, RowInv
<1>4. h \in Nat /\ h < 512
  BY HashLengthFits
<1> HIDE DEF s, h
<1>5. /\ ~On(mask.hash, row) /\ ~On(mask.merkle, row) /\ ~On(mask.finish, row)
      /\ On(mask.sigHash, row) <=> s < 40 /\ s % 8 < 7
      /\ On(mask.doubling, row) <=> s < 510 /\ s % 2 = 0
      /\ Addition(row) <=> s < 510 /\ s % 2 = 1
      /\ FinalAddition(row) <=> s = 510
      /\ On(mask.range, row) <=> s < 64
  BY <1>1, <1>2, <1>4 DEF MaskedRows, Addition, FinalAddition
<1> DEFINE limbs == UNION {When(On(mask.limb[k + 1], row) /\ On(mask.doubling, row),
                                <<"limb", k>>) : k \in 0 .. 3}
<1>6. limbs = When(s < 510 /\ s % 2 = 0, <<"limb", Limb(s \div 2)>>)
  <2>1. CASE s < 510 /\ s % 2 = 0
    <3> DEFINE m == Limb(s \div 2)
    <3>1. m \in 0 .. 3 /\ \A k \in 0 .. 3 : On(mask.limb[k + 1], row) <=> k = m
      <4>1. /\ On(mask.limb[0 + 1], row) <=> s <= 125
            /\ On(mask.limb[1 + 1], row) <=> 126 <= s /\ s <= 253
            /\ On(mask.limb[2 + 1], row) <=> 254 <= s /\ s <= 381
            /\ On(mask.limb[3 + 1], row) <=> 382 <= s /\ s <= 509
        BY <1>1, <1>2 DEF MaskedRows
      <4>2. /\ s <= 125 => m = 0
            /\ 126 <= s /\ s <= 253 => m = 1
            /\ 254 <= s /\ s <= 381 => m = 2
            /\ 382 <= s => m = 3
        BY <1>1, <2>1, LimbAt
      <4> HIDE DEF m
      <4>3. m \in 0 .. 3
        BY <1>1, <2>1, <4>2
      <4>4. /\ On(mask.limb[0 + 1], row) <=> 0 = m
            /\ On(mask.limb[1 + 1], row) <=> 1 = m
            /\ On(mask.limb[2 + 1], row) <=> 2 = m
            /\ On(mask.limb[3 + 1], row) <=> 3 = m
        BY <1>1, <2>1, <4>1, <4>2
      <4>5. \A k \in 0 .. 3 : k = 0 \/ k = 1 \/ k = 2 \/ k = 3
        OBVIOUS
      <4>6. \A k \in 0 .. 3 : On(mask.limb[k + 1], row) <=> k = m
        BY ONLY <4>4, <4>5, Zenon
      <4> QED BY <4>3, <4>6
    <3> HIDE DEF m
    <3>2. \A k \in 0 .. 3 :
            When(On(mask.limb[k + 1], row) /\ On(mask.doubling, row), <<"limb", k>>)
              = IF k = m THEN {<<"limb", k>>} ELSE {}
      BY <1>5, <2>1, <3>1 DEF When
    <3>3. limbs = {<<"limb", m>>}
      BY <3>1, <3>2
    <3> QED BY <2>1, <3>3 DEF m, When
  <2>2. CASE ~(s < 510 /\ s % 2 = 0)
    BY <1>5, <2>2 DEF When
  <2> QED BY <2>1, <2>2
<1> HIDE DEF limbs
<1>7. /\ When(On(mask.hash, row), <<"merkleRound">>) = {}
      /\ When(On(mask.merkle, row) /\ On(mask.input, row), <<"merkleInsert">>) = {}
      /\ When(On(mask.finish, row), <<"newRoot">>) = {}
      /\ When(On(mask.sigHash, row), <<"sigRound">>)
            = When(s < 40 /\ s % 8 < 7, <<"sigRound">>)
      /\ When(On(mask.doubling, row), <<"double">>)
            = When(s < 510 /\ s % 2 = 0, <<"double">>)
      /\ When(Addition(row), <<"add">>) = When(s < 510 /\ s % 2 = 1, <<"add">>)
      /\ When(FinalAddition(row), <<"finalAdd">>) = When(s = 510, <<"finalAdd">>)
      /\ When(On(mask.range, row), <<"range">>) = When(s < 64, <<"range">>)
  BY <1>5 DEF When
<1>8. EnforcedOps(row) = When(s < 40 /\ s % 8 < 7, <<"sigRound">>)
        \cup When(s < 510 /\ s % 2 = 0, <<"double">>)
        \cup limbs
        \cup When(s < 510 /\ s % 2 = 1, <<"add">>)
        \cup When(s = 510, <<"finalAdd">>)
        \cup When(s < 64, <<"range">>)
  BY ONLY <1>7 DEF EnforcedOps, limbs
<1>9. 5 * 8 = 40
  OBVIOUS
<1>10. SignatureOps(s) = When(s < 40 /\ s % 8 < 7, <<"sigRound">>)
        \cup When(s < 510 /\ s % 2 = 0, <<"double">>)
        \cup When(s < 510 /\ s % 2 = 0, <<"limb", Limb(s \div 2)>>)
        \cup When(s < 510 /\ s % 2 = 1, <<"add">>)
        \cup When(s = 510, <<"finalAdd">>)
        \cup When(s < 64, <<"range">>)
  BY <1>9 DEF SignatureOps, NumHashIter, Cycle, Rounds, ScalarMulLength, RangeLog
<1>11. EnforcedOps(row) = SignatureOps(s)
  BY ONLY <1>6, <1>8, <1>10
<1> QED BY <1>3, <1>11 DEF s

(* On every row the masks switch on the constraints of exactly the         *)
(* operations the builder performs on it; only the start of the signature  *)
(* has no constraint (air.rs 194-380 against trace.rs 77-143).             *)
THEOREM MasksAlwaysFollow == Spec => []MasksFollowBuilder
<1>1. RowInv => MasksFollowBuilder
  <2> SUFFICES ASSUME RowInv
               PROVE  EnforcedOps(row) = BuilderOps(row) \ {<<"signatureInit">>}
    BY DEF MasksFollowBuilder
  <2>1. CASE row < 511
    <3>1. <<"signatureInit">> \notin MerkleOps(row)
      BY DEF MerkleOps, When
    <3> QED BY <2>1, <3>1, MerkleRow
  <2>2. CASE row = 511
    BY <2>2, StartRow
  <2>3. CASE row > 511
    <3>1. <<"signatureInit">> \notin SignatureOps(row - 512)
      BY DEF SignatureOps, When
    <3> QED BY <2>3, <3>1, SignatureRow
  <2> QED BY <2>1, <2>2, <2>3 DEF RowInv
<1> QED BY <1>1, RowInvAlways, PTL

-----------------------------------------------------------------------------
(* The registers each operation writes, by number.                         *)
LEMMA WrittenAre ==
  /\ Written(<<"merkleRound">>) = 0 .. 57
  /\ Written(<<"merkleInsert">>) = 0 .. 57
  /\ Written(<<"newRoot">>) = 58 .. 64
  /\ Written(<<"signatureInit">>) = (0 .. 55) \cup {56, 57, 92, 93}
  /\ Written(<<"sigRound">>) = 42 .. 55
  /\ Written(<<"double">>) = 0 .. 37
  /\ Written(<<"add">>) = 0 .. 37
  /\ Written(<<"finalAdd">>) = 0 .. 37
  /\ Written(<<"range">>) = {56, 57, 92, 93}
  /\ \A k \in 0 .. 3 : Written(<<"limb", k>>) = {41 - k}
<1>1. /\ RootPos = 58 /\ SenderPos = 0 /\ DigestWidth = 7 /\ SchnorrWidth = 56
      /\ DeltaBitPos = 56 /\ DeltaAccPos = 57 /\ SigmaBitPos = 92 /\ SigmaAccPos = 93
      /\ HashPos = 42 /\ StateWidth = 14 /\ LimbPos = 38
  BY DEF RootPos, SenderPos, DigestWidth, SchnorrWidth, DeltaBitPos, DeltaAccPos,
         SigmaBitPos, SigmaAccPos, HashPos, StateWidth, LimbPos, LaneWidth, PointWidth,
         ProjectiveWidth, NonceCopyPos, DeltaCopyPos, MerkleWidth, AffineWidth
<1>2. /\ Span(0, 58) = 0 .. 57 /\ Span(58, 7) = 58 .. 64 /\ Span(0, 56) = 0 .. 55
      /\ Span(42, 14) = 42 .. 55 /\ Span(0, 38) = 0 .. 37
  BY DEF Span
<1>3. Written(<<"merkleRound">>) = 0 .. 57
  BY <1>1, <1>2 DEF Written
<1>4. Written(<<"merkleInsert">>) = 0 .. 57
  BY <1>1, <1>2 DEF Written
<1>5. Written(<<"newRoot">>) = 58 .. 64
  BY <1>1, <1>2 DEF Written
<1>6. Written(<<"signatureInit">>) = (0 .. 55) \cup {56, 57, 92, 93}
  BY <1>1, <1>2 DEF Written
<1>7. Written(<<"sigRound">>) = 42 .. 55
  BY <1>1, <1>2 DEF Written
<1>8. Written(<<"double">>) = 0 .. 37
  BY <1>1, <1>2 DEF Written
<1>9. Written(<<"add">>) = 0 .. 37
  BY <1>1, <1>2 DEF Written
<1>10. Written(<<"finalAdd">>) = 0 .. 37
  BY <1>1, <1>2 DEF Written
<1>11. Written(<<"range">>) = {56, 57, 92, 93}
  BY <1>1, <1>2 DEF Written
<1>12. ASSUME NEW k \in 0 .. 3 PROVE Written(<<"limb", k>>) = {41 - k}
  <2>1. <<"limb", k>>[1] = "limb" /\ <<"limb", k>>[2] = k
    OBVIOUS
  <2>2. Written(<<"limb", k>>) = {LimbPos + 3 - k}
    BY <2>1 DEF Written
  <2>3. LimbPos + 3 - k = 41 - k
    BY <1>1
  <2> QED BY <2>2, <2>3
<1> QED BY <1>3, <1>4, <1>5, <1>6, <1>7, <1>8, <1>9, <1>10, <1>11, <1>12

(* The one operation of a step of the signature that writes a register.    *)
WriterAt(s, x) ==
  IF x < 38 THEN IF s = 510 THEN <<"finalAdd">>
                 ELSE IF s % 2 = 0 THEN <<"double">> ELSE <<"add">>
  ELSE IF x < 42 THEN <<"limb", Limb(s \div 2)>>
  ELSE IF x < 56 THEN <<"sigRound">>
  ELSE <<"range">>

LEMMA SignatureWriters ==
  ASSUME NEW s \in Int, 0 <= s, s <= 511, NEW a \in SignatureOps(s), NEW x \in Written(a)
  PROVE  /\ x \in 0 .. 57 \cup {92, 93}
         /\ a = WriterAt(s, x)
         /\ a # <<"newRoot">>
<1>1. \/ a = <<"sigRound">>
      \/ a = <<"double">> /\ s < 510 /\ s % 2 = 0
      \/ a = <<"limb", Limb(s \div 2)>> /\ s < 510 /\ s % 2 = 0
      \/ a = <<"add">> /\ s < 510 /\ s % 2 = 1
      \/ a = <<"finalAdd">> /\ s = 510
      \/ a = <<"range">>
  BY DEF SignatureOps, When, ScalarMulLength
<1>2. CASE a = <<"sigRound">>
  <2>1. x \in 42 .. 55
    BY <1>2, WrittenAre
  <2> QED BY <1>2, <2>1 DEF WriterAt
<1>3. CASE a = <<"double">> /\ s < 510 /\ s % 2 = 0
  <2>1. x \in 0 .. 37
    BY <1>3, WrittenAre
  <2> QED BY <1>3, <2>1 DEF WriterAt
<1>4. CASE a = <<"limb", Limb(s \div 2)>> /\ s < 510 /\ s % 2 = 0
  <2>1. Limb(s \div 2) \in 0 .. 3
    BY <1>4, LimbAt
  <2>2. x = 41 - Limb(s \div 2)
    BY <1>4, <2>1, WrittenAre
  <2>3. x \in 38 .. 41
    BY <2>1, <2>2
  <2> QED BY <1>4, <2>3 DEF WriterAt
<1>5. CASE a = <<"add">> /\ s < 510 /\ s % 2 = 1
  <2>1. x \in 0 .. 37
    BY <1>5, WrittenAre
  <2> QED BY <1>5, <2>1 DEF WriterAt
<1>6. CASE a = <<"finalAdd">> /\ s = 510
  <2>1. x \in 0 .. 37
    BY <1>6, WrittenAre
  <2> QED BY <1>6, <2>1 DEF WriterAt
<1>7. CASE a = <<"range">>
  <2>1. x \in {56, 57, 92, 93}
    BY <1>7, WrittenAre
  <2> QED BY <1>7, <2>1 DEF WriterAt
<1> QED BY <1>1, <1>2, <1>3, <1>4, <1>5, <1>6, <1>7

(* Operations of one row write different registers, and none writes the    *)
(* copies or, but for the new root, the root: the signature and the range  *)
(* proofs reuse the Merkle registers up to the register before the root    *)
(* (constants.rs 33-83, trace.rs 77-130).                                  *)
THEOREM RegistersAlwaysApart == Spec => []RegistersKeptApart
<1>1. RowInv => RegistersKeptApart
  <2> DEFINE Apart(ops) ==
        /\ \A a, b \in ops : a # b => Written(a) \cap Written(b) = {}
        /\ \A a \in ops :
             /\ Written(a) \cap 65 .. 91 = {}
             /\ a # <<"newRoot">> => Written(a) \cap 58 .. 64 = {}
             /\ Written(a) \subseteq 0 .. 93
  <2> SUFFICES ASSUME RowInv PROVE Apart(BuilderOps(row))
    BY CopiesAre, RootsAre, WidthIs DEF RegistersKeptApart
  <2>1. CASE row < 511
    <3>1. ASSUME NEW a \in MerkleOps(row)
          PROVE  \/ a = <<"merkleRound">> /\ row % 8 < 7
                 \/ a = <<"merkleInsert">> /\ row % 8 = 7
                 \/ a = <<"newRoot">>
      BY DEF MerkleOps, When, Cycle, Rounds
    <3>2. Apart(MerkleOps(row))
      <4>1. ASSUME NEW a \in MerkleOps(row), NEW b \in MerkleOps(row), a # b
            PROVE  Written(a) \cap Written(b) = {}
        <5>1. (a = <<"newRoot">> /\ b \in {<<"merkleRound">>, <<"merkleInsert">>})
              \/ (b = <<"newRoot">> /\ a \in {<<"merkleRound">>, <<"merkleInsert">>})
          BY <3>1, <4>1
        <5> QED BY <5>1, WrittenAre
      <4>2. ASSUME NEW a \in MerkleOps(row)
            PROVE  /\ Written(a) \cap 65 .. 91 = {}
                   /\ a # <<"newRoot">> => Written(a) \cap 58 .. 64 = {}
                   /\ Written(a) \subseteq 0 .. 93
        BY <3>1, WrittenAre
      <4> QED BY <4>1, <4>2
    <3> QED BY <2>1, <3>2, MerkleRow
  <2>2. CASE row = 511
    <3>1. \A a \in BuilderOps(row) : a = <<"signatureInit">>
      BY <2>2, StartRow
    <3>2. /\ Written(<<"signatureInit">>) \cap 65 .. 91 = {}
          /\ Written(<<"signatureInit">>) \cap 58 .. 64 = {}
          /\ Written(<<"signatureInit">>) \subseteq 0 .. 93
      BY WrittenAre
    <3> QED BY <3>1, <3>2
  <2>3. CASE row > 511
    <3> DEFINE s == row - 512
    <3>1. s \in Int /\ 0 <= s /\ s <= 511 /\ BuilderOps(row) = SignatureOps(s)
      BY <2>3, SignatureRow DEF RowInv
    <3> HIDE DEF s
    <3>2. ASSUME NEW a \in SignatureOps(s), NEW b \in SignatureOps(s), a # b
          PROVE  Written(a) \cap Written(b) = {}
      <4> SUFFICES ASSUME NEW x, x \in Written(a), x \in Written(b) PROVE FALSE
        OBVIOUS
      <4>1. a = WriterAt(s, x) /\ b = WriterAt(s, x)
        BY <3>1, SignatureWriters
      <4> QED BY <3>2, <4>1
    <3>3. ASSUME NEW a \in SignatureOps(s)
          PROVE  /\ Written(a) \cap 65 .. 91 = {}
                 /\ a # <<"newRoot">> => Written(a) \cap 58 .. 64 = {}
                 /\ Written(a) \subseteq 0 .. 93
      <4>1. \A x \in Written(a) : x \in 0 .. 57 \cup {92, 93}
        BY <3>1, SignatureWriters
      <4> QED BY <4>1
    <3> QED BY <3>1, <3>2, <3>3
  <2> QED BY <2>1, <2>2, <2>3 DEF RowInv
<1> QED BY <1>1, RowInvAlways, PTL

-----------------------------------------------------------------------------
(* The groups of results, by number.                                       *)
Entry(name, slots) == [name |-> name, slots |-> slots]

LEMMA PlacesAre ==
  /\ SenderPos = 0 /\ ReceiverPos = 29 /\ RootPos = 58 /\ ValueRes = 65
  /\ BalanceRes = 90 /\ NonceUpdateRes = 91 /\ IntRootRes = 92 /\ RootMatchRes = 99
  /\ SenderKeyRes = 101 /\ ReceiverKeyRes = 103 /\ DeltaCopyRes = 105
  /\ SigmaCopyRes = 106 /\ NonceCopyRes = 107 /\ DeltaRangeRes = 108
  /\ SigmaRangeRes = 109 /\ DeclaredResults = 115
  /\ DigestWidth = 7 /\ StateWidth = 14 /\ AffineWidth = 12 /\ ProjectiveWidth = 18
  /\ PointWidth = 19 /\ LimbPos = 38 /\ HashPos = 42
  /\ DeltaBitPos = 56 /\ DeltaAccPos = 57 /\ SigmaBitPos = 92 /\ SigmaAccPos = 93
BY DEF SenderPos, ReceiverPos, RootPos, ValueRes, BalanceRes, NonceUpdateRes, IntRootRes,
       RootMatchRes, SenderKeyRes, ReceiverKeyRes, DeltaCopyRes, SigmaCopyRes,
       NonceCopyRes, DeltaRangeRes, SigmaRangeRes, DeclaredResults, DigestWidth,
       StateWidth, AffineWidth, ProjectiveWidth, PointWidth, LimbPos, HashPos,
       SchnorrWidth, DeltaBitPos, DeltaAccPos, SigmaBitPos, SigmaAccPos, LaneWidth,
       MerkleWidth, DeltaCopyPos, NonceCopyPos

LEMMA SetupEntries ==
  ASSUME NEW g, NEW a \in SetupGroups(g)
  PROVE  On(mask.setup, g) /\ a.slots \subseteq 0 .. 114
<1>1. /\ Span(SenderPos, StateWidth) = 0 .. 13
      /\ Span(StateWidth, StateWidth) = 14 .. 27
      /\ Span(ReceiverPos - 1, StateWidth) = 28 .. 41
      /\ Span(ReceiverPos + StateWidth - 1, StateWidth) = 42 .. 55
      /\ Span(ValueRes, AffineWidth) = 65 .. 76
      /\ Span(ValueRes + AffineWidth, AffineWidth) = 77 .. 88
      /\ {ValueRes + 2 * AffineWidth} = {89}
      /\ {BalanceRes} = {90} /\ {NonceUpdateRes} = {91}
  BY PlacesAre DEF Span
<1>2. /\ On(mask.setup, g)
      /\ \/ a.slots = 0 .. 13 \/ a.slots = 14 .. 27 \/ a.slots = 28 .. 41
         \/ a.slots = 42 .. 55 \/ a.slots = 65 .. 76 \/ a.slots = 77 .. 88
         \/ a.slots = {89} \/ a.slots = {90} \/ a.slots = {91}
  BY ONLY <1>1, a \in SetupGroups(g) DEF SetupGroups, Group
<1> QED BY <1>2

LEMMA CopyEntries ==
  ASSUME NEW g, NEW a \in CopyGroups(g)
  PROVE  InTail(a) /\ a.slots \subseteq 99 .. 114
<1>1. /\ Span(SenderKeyRes, AffineWidth) = 101 .. 112
      /\ Span(ReceiverKeyRes, AffineWidth) = 103 .. 114
      /\ {DeltaCopyRes} = {105} /\ {SigmaCopyRes} = {106} /\ {NonceCopyRes} = {107}
  BY PlacesAre DEF Span
<1>2. \/ a = Entry(<<"tail", "senderKeyCopy">>, 101 .. 112)
      \/ a = Entry(<<"tail", "receiverKeyCopy">>, 103 .. 114)
      \/ a = Entry(<<"tail", "deltaCopy">>, {105})
      \/ a = Entry(<<"tail", "sigmaCopy">>, {106})
      \/ a = Entry(<<"tail", "nonceCopy">>, {107})
  BY ONLY <1>1, a \in CopyGroups(g) DEF CopyGroups, Group, Entry
<1> QED BY <1>2 DEF Entry, InTail

LEMMA SenderEntries ==
  ASSUME NEW g, NEW a \in LaneGroups(g, "sender", SenderPos)
  PROVE  \/ On(mask.merkle, g) /\ a = Entry(<<"sender", "bit">>, {14})
         \/ On(mask.hash, g) /\ a = Entry(<<"sender", "oldRound">>, 0 .. 13)
         \/ On(mask.hash, g) /\ a = Entry(<<"sender", "newRound">>, 15 .. 28)
         \/ /\ On(mask.merkle, g) /\ On(mask.input, g)
            /\ a = Entry(<<"sender", "oldInsert">>, 0 .. 13)
         \/ /\ On(mask.merkle, g) /\ On(mask.input, g)
            /\ a = Entry(<<"sender", "newInsert">>, 15 .. 28)
<1>1. /\ Span(SenderPos, StateWidth) = 0 .. 13
      /\ Span(SenderPos + StateWidth + 1, StateWidth) = 15 .. 28
      /\ {SenderPos + StateWidth} = {14}
  BY PlacesAre DEF Span
<1> QED BY ONLY <1>1, a \in LaneGroups(g, "sender", SenderPos) DEF LaneGroups, Group, Entry

LEMMA ReceiverEntries ==
  ASSUME NEW g, NEW a \in LaneGroups(g, "receiver", ReceiverPos)
  PROVE  \/ On(mask.merkle, g) /\ a = Entry(<<"receiver", "bit">>, {43})
         \/ On(mask.hash, g) /\ a = Entry(<<"receiver", "oldRound">>, 29 .. 42)
         \/ On(mask.hash, g) /\ a = Entry(<<"receiver", "newRound">>, 44 .. 57)
         \/ /\ On(mask.merkle, g) /\ On(mask.input, g)
            /\ a = Entry(<<"receiver", "oldInsert">>, 29 .. 42)
         \/ /\ On(mask.merkle, g) /\ On(mask.input, g)
            /\ a = Entry(<<"receiver", "newInsert">>, 44 .. 57)
<1>1. /\ Span(ReceiverPos, StateWidth) = 29 .. 42
      /\ Span(ReceiverPos + StateWidth + 1, StateWidth) = 44 .. 57
      /\ {ReceiverPos + StateWidth} = {43}
  BY PlacesAre DEF Span
<1> QED BY ONLY <1>1, a \in LaneGroups(g, "receiver", ReceiverPos) DEF LaneGroups, Group, Entry

LEMMA RootEntries ==
  ASSUME NEW g, NEW a \in RootGroups(g)
  PROVE  \/ a = Entry(<<"body", "root">>, 58 .. 64)
         \/ On(mask.finish, g) /\ a = Entry(<<"body", "intermediateRoot">>, 92 .. 98)
         \/ On(mask.finish, g) /\ a = Entry(<<"tail", "rootMatch">>, 99 .. 105)
<1>1. /\ Span(RootPos, DigestWidth) = 58 .. 64
      /\ Span(IntRootRes, DigestWidth) = 92 .. 98
      /\ Span(RootMatchRes, DigestWidth) = 99 .. 105
  BY PlacesAre DEF Span
<1> QED BY ONLY <1>1, a \in RootGroups(g) DEF RootGroups, Group, Entry

LEMMA SignatureEntries ==
  ASSUME NEW g, NEW a \in SignatureGroups(g)
  PROVE  \/ On(mask.doubling, g) /\ a = Entry(<<"S", "double">>, 0 .. 18)
         \/ Addition(g) /\ a = Entry(<<"S", "add">>, 0 .. 18)
         \/ On(mask.doubling, g) /\ a = Entry(<<"hP", "double">>, 19 .. 37)
         \/ Addition(g) /\ a = Entry(<<"hP", "add">>, 19 .. 37)
         \/ On(mask.doubling, g) /\ a = Entry(<<"body", "limbs">>, 38 .. 41)
         \/ Addition(g) /\ a = Entry(<<"body", "limbsKept">>, 38 .. 41)
         \/ On(mask.sigHash, g) /\ a = Entry(<<"body", "sigRound">>, 42 .. 55)
         \/ CopyHash(g) /\ a = Entry(<<"body", "sigCopy">>, 42 .. 55)
         \/ FinalAddition(g) /\ a = Entry(<<"body", "finalAdd">>, 0 .. 17)
         \/ FinalAddition(g) /\ a = Entry(<<"body", "digest">>, 38 .. 41)
<1>1. /\ Span(0, PointWidth) = 0 .. 18 /\ Span(PointWidth, PointWidth) = 19 .. 37
      /\ Span(LimbPos, 4) = 38 .. 41 /\ Span(HashPos, StateWidth) = 42 .. 55
      /\ Span(0, ProjectiveWidth) = 0 .. 17
  BY PlacesAre DEF Span
<1> QED BY ONLY <1>1, a \in SignatureGroups(g) DEF SignatureGroups, PointGroups, Group, Entry

LEMMA RangeEntries ==
  ASSUME NEW g, NEW a \in RangeGroups(g)
  PROVE  \/ On(mask.range, g) /\ a = Entry(<<"body", "deltaRange">>, {56, 57})
         \/ On(mask.range, g) /\ a = Entry(<<"body", "sigmaRange">>, {92, 93})
         \/ a = Entry(<<"tail", "deltaCompared">>, {108})
         \/ a = Entry(<<"tail", "sigmaCompared">>, {109})
<1>1. /\ {DeltaBitPos, DeltaAccPos} = {56, 57} /\ {SigmaBitPos, SigmaAccPos} = {92, 93}
      /\ {DeltaRangeRes} = {108} /\ {SigmaRangeRes} = {109}
  BY PlacesAre
<1> QED BY ONLY <1>1, a \in RangeGroups(g) DEF RangeGroups, Group, Entry

(* No result lies past those the degrees are declared for.                 *)
THEOREM SlotsAlwaysDeclared == Spec => []SlotsDeclared
<1>1. RowInv => SlotsDeclared
  <2> SUFFICES ASSUME NEW a \in Active(row) PROVE a.slots \subseteq 0 .. 114
    <3>1. 115 - 1 = 114
      OBVIOUS
    <3> QED BY <3>1, PlacesAre DEF SlotsDeclared
  <2>1. CASE a \in SetupGroups(row)
    BY <2>1, SetupEntries
  <2>2. CASE a \in CopyGroups(row)
    <3>1. a.slots \subseteq 99 .. 114
      BY <2>2, CopyEntries
    <3> QED BY <3>1
  <2>3. CASE a \in LaneGroups(row, "sender", SenderPos)
    <3>1. a.slots = {14} \/ a.slots = 0 .. 13 \/ a.slots = 15 .. 28
      BY <2>3, SenderEntries DEF Entry
    <3> QED BY <3>1
  <2>4. CASE a \in LaneGroups(row, "receiver", ReceiverPos)
    <3>1. a.slots = {43} \/ a.slots = 29 .. 42 \/ a.slots = 44 .. 57
      BY <2>4, ReceiverEntries DEF Entry
    <3> QED BY <3>1
  <2>5. CASE a \in RootGroups(row)
    <3>1. a.slots = 58 .. 64 \/ a.slots = 92 .. 98 \/ a.slots = 99 .. 105
      BY <2>5, RootEntries DEF Entry
    <3> QED BY <3>1
  <2>6. CASE a \in SignatureGroups(row)
    <3>1. \/ a.slots = 0 .. 18 \/ a.slots = 19 .. 37 \/ a.slots = 38 .. 41
          \/ a.slots = 42 .. 55 \/ a.slots = 0 .. 17
      BY <2>6, SignatureEntries DEF Entry
    <3> QED BY <3>1
  <2>7. CASE a \in RangeGroups(row)
    <3>1. a.slots = {56, 57} \/ a.slots = {92, 93} \/ a.slots = {108} \/ a.slots = {109}
      BY <2>7, RangeEntries DEF Entry
    <3> QED BY <3>1
  <2> QED BY <2>1, <2>2, <2>3, <2>4, <2>5, <2>6, <2>7 DEF Active
<1> QED BY <1>1, RowInvAlways, PTL

(* The group outside the tail that holds a slot, in the Merkle phase at a  *)
(* hash or an insertion, and in the signature phase at its step s.         *)
MerkleOwner(inserts, x) ==
  IF x < 14 THEN Entry(<<"sender", IF inserts THEN "oldInsert" ELSE "oldRound">>, 0 .. 13)
  ELSE IF x = 14 THEN Entry(<<"sender", "bit">>, {14})
  ELSE IF x < 29 THEN Entry(<<"sender", IF inserts THEN "newInsert" ELSE "newRound">>, 15 .. 28)
  ELSE IF x < 43 THEN Entry(<<"receiver", IF inserts THEN "oldInsert" ELSE "oldRound">>, 29 .. 42)
  ELSE IF x = 43 THEN Entry(<<"receiver", "bit">>, {43})
  ELSE IF x < 58 THEN Entry(<<"receiver", IF inserts THEN "newInsert" ELSE "newRound">>, 44 .. 57)
  ELSE IF x < 65 THEN Entry(<<"body", "root">>, 58 .. 64)
  ELSE Entry(<<"body", "intermediateRoot">>, 92 .. 98)

PointOwner(s, x) ==
  IF s = 510 THEN Entry(<<"body", "finalAdd">>, 0 .. 17)
  ELSE IF x < 19 THEN Entry(<<"S", IF s % 2 = 0 THEN "double" ELSE "add">>, 0 .. 18)
  ELSE Entry(<<"hP", IF s % 2 = 0 THEN "double" ELSE "add">>, 19 .. 37)

LimbOwner(s) ==
  Entry(<<"body", IF s = 510 THEN "digest" ELSE IF s % 2 = 0 THEN "limbs" ELSE "limbsKept">>,
        38 .. 41)

SignatureOwner(s, x) ==
  IF x < 38 THEN PointOwner(s, x)
  ELSE IF x < 42 THEN LimbOwner(s)
  ELSE IF x < 56 THEN Entry(<<"body", IF s < 40 /\ s % 8 < 7 THEN "sigRound" ELSE "sigCopy">>,
                            42 .. 55)
  ELSE IF x < 58 THEN Entry(<<"body", "deltaRange">>, {56, 57})
  ELSE IF x < 65 THEN Entry(<<"body", "root">>, 58 .. 64)
  ELSE Entry(<<"body", "sigmaRange">>, {92, 93})

LEMMA MerkleOwned ==
  ASSUME RowInv, row < 512, ~On(mask.setup, row),
         NEW a \in Active(row), ~InTail(a), NEW x \in a.slots
  PROVE  x \in 0 .. 98 /\ a = MerkleOwner(row % 8 = 7, x)
<1> DEFINE h == HashLength(depth)
<1>1. row \in Int /\ 0 <= row /\ row < 512 /\ row - 512 < 0
  BY DEF RowInv
<1>2. MaskedRows(row, row - 512, h)
  BY <1>1, MasksOn DEF RowInv
<1> HIDE DEF h
<1>3. /\ On(mask.hash, row) => ~(row % 8 = 7)
      /\ On(mask.input, row) => row % 8 = 7
      /\ ~On(mask.sig, row) /\ ~On(mask.mult, row) /\ ~On(mask.doubling, row)
      /\ ~On(mask.sigHash, row) /\ ~On(mask.range, row)
  BY <1>1, <1>2 DEF MaskedRows
<1>4. ~Addition(row) /\ ~FinalAddition(row) /\ ~CopyHash(row)
  BY <1>3 DEF Addition, FinalAddition, CopyHash
<1>5. a \notin SetupGroups(row) /\ a \notin CopyGroups(row) /\ a \notin SignatureGroups(row)
  BY <1>3, <1>4, SetupEntries, CopyEntries, SignatureEntries
<1>6. a \notin RangeGroups(row)
  <2>1. /\ InTail(Entry(<<"tail", "deltaCompared">>, {108}))
        /\ InTail(Entry(<<"tail", "sigmaCompared">>, {109}))
    BY DEF InTail, Entry
  <2> QED BY <1>3, <2>1, RangeEntries
<1>7. CASE a \in LaneGroups(row, "sender", SenderPos)
  <2>1. \/ a = Entry(<<"sender", "bit">>, {14})
        \/ ~(row % 8 = 7) /\ a = Entry(<<"sender", "oldRound">>, 0 .. 13)
        \/ ~(row % 8 = 7) /\ a = Entry(<<"sender", "newRound">>, 15 .. 28)
        \/ row % 8 = 7 /\ a = Entry(<<"sender", "oldInsert">>, 0 .. 13)
        \/ row % 8 = 7 /\ a = Entry(<<"sender", "newInsert">>, 15 .. 28)
    BY <1>3, <1>7, SenderEntries
  <2>2. \A n, S : Entry(n, S).slots = S
    BY DEF Entry
  <2>3. CASE a = Entry(<<"sender", "bit">>, {14})
    <3>1. x = 14
      BY <2>2, <2>3
    <3> QED BY <2>3, <3>1 DEF MerkleOwner
  <2>4. CASE ~(row % 8 = 7) /\ a = Entry(<<"sender", "oldRound">>, 0 .. 13)
    <3>1. x \in 0 .. 13
      BY <2>2, <2>4
    <3> QED BY <2>4, <3>1 DEF MerkleOwner
  <2>5. CASE ~(row % 8 = 7) /\ a = Entry(<<"sender", "newRound">>, 15 .. 28)
    <3>1. x \in 15 .. 28
      BY <2>2, <2>5
    <3> QED BY <2>5, <3>1 DEF MerkleOwner
  <2>6. CASE row % 8 = 7 /\ a = Entry(<<"sender", "oldInsert">>, 0 .. 13)
    <3>1. x \in 0 .. 13
      BY <2>2, <2>6
    <3> QED BY <2>6, <3>1 DEF MerkleOwner
  <2>7. CASE row % 8 = 7 /\ a = Entry(<<"sender", "newInsert">>, 15 .. 28)
    <3>1. x \in 15 .. 28
      BY <2>2, <2>7
    <3> QED BY <2>7, <3>1 DEF MerkleOwner
  <2> QED BY <2>1, <2>3, <2>4, <2>5, <2>6, <2>7
<1>8. CASE a \in LaneGroups(row, "receiver", ReceiverPos)
  <2>1. \/ a = Entry(<<"receiver", "bit">>, {43})
        \/ ~(row % 8 = 7) /\ a = Entry(<<"receiver", "oldRound">>, 29 .. 42)
        \/ ~(row % 8 = 7) /\ a = Entry(<<"receiver", "newRound">>, 44 .. 57)
        \/ row % 8 = 7 /\ a = Entry(<<"receiver", "oldInsert">>, 29 .. 42)
        \/ row % 8 = 7 /\ a = Entry(<<"receiver", "newInsert">>, 44 .. 57)
    BY <1>3, <1>8, ReceiverEntries
  <2>2. \A n, S : Entry(n, S).slots = S
    BY DEF Entry
  <2>3. CASE a = Entry(<<"receiver", "bit">>, {43})
    <3>1. x = 43
      BY <2>2, <2>3
    <3> QED BY <2>3, <3>1 DEF MerkleOwner
  <2>4. CASE ~(row % 8 = 7) /\ a = Entry(<<"receiver", "oldRound">>, 29 .. 42)
    <3>1. x \in 29 .. 42
      BY <2>2, <2>4
    <3> QED BY <2>4, <3>1 DEF MerkleOwner
  <2>5. CASE ~(row % 8 = 7) /\ a = Entry(<<"receiver", "newRound">>, 44 .. 57)
    <3>1. x \in 44 .. 57
      BY <2>2, <2>5
    <3> QED BY <2>5, <3>1 DEF MerkleOwner
  <2>6. CASE row % 8 = 7 /\ a = Entry(<<"receiver", "oldInsert">>, 29 .. 42)
    <3>1. x \in 29 .. 42
      BY <2>2, <2>6
    <3> QED BY <2>6, <3>1 DEF MerkleOwner
  <2>7. CASE row % 8 = 7 /\ a = Entry(<<"receiver", "newInsert">>, 44 .. 57)
    <3>1. x \in 44 .. 57
      BY <2>2, <2>7
    <3> QED BY <2>7, <3>1 DEF MerkleOwner
  <2> QED BY <2>1, <2>3, <2>4, <2>5, <2>6, <2>7
<1>9. CASE a \in RootGroups(row)
  <2>1. InTail(Entry(<<"tail", "rootMatch">>, 99 .. 105))
    BY DEF InTail, Entry
  <2>2. \A n, S : Entry(n, S).slots = S
    BY DEF Entry
  <2>3. CASE a = Entry(<<"body", "root">>, 58 .. 64)
    <3>1. x \in 58 .. 64
      BY <2>2, <2>3
    <3> QED BY <2>3, <3>1 DEF MerkleOwner
  <2>4. CASE a = Entry(<<"body", "intermediateRoot">>, 92 .. 98)
    <3>1. x \in 92 .. 98
      BY <2>2, <2>4
    <3> QED BY <2>4, <3>1 DEF MerkleOwner
  <2> QED BY <1>9, <2>1, <2>3, <2>4, RootEntries
<1> QED BY <1>5, <1>6, <1>7, <1>8, <1>9 DEF Active

LEMMA SignatureOwned ==
  ASSUME RowInv, row > 511, NEW a \in Active(row), ~InTail(a), NEW x \in a.slots
  PROVE  x \in 0 .. 98 /\ a = SignatureOwner(row - 512, x)
<1> DEFINE s == row - 512
           h == HashLength(depth)
<1>1. s \in Int /\ 0 <= s /\ s <= 511 /\ row = s + 512
  BY DEF RowInv
<1>2. MaskedRows(row, s, h)
  BY MasksOn DEF RowInv
<1>3. h \in Nat /\ h < 512
  BY HashLengthFits
<1> HIDE DEF s, h
<1>4. /\ ~On(mask.setup, row) /\ ~On(mask.hash, row) /\ ~On(mask.merkle, row)
      /\ ~On(mask.finish, row)
      /\ On(mask.sigHash, row) <=> s < 40 /\ s % 8 < 7
      /\ On(mask.doubling, row) <=> s < 510 /\ s % 2 = 0
      /\ Addition(row) <=> s < 510 /\ ~(s % 2 = 0)
      /\ FinalAddition(row) <=> s = 510
      /\ CopyHash(row) => ~(s < 40 /\ s % 8 < 7)
  BY <1>1, <1>2, <1>3 DEF MaskedRows, Addition, FinalAddition, CopyHash
<1>5. \A n, S : Entry(n, S).slots = S
  BY DEF Entry
<1>6. /\ a \notin SetupGroups(row) /\ a \notin CopyGroups(row)
      /\ a \notin LaneGroups(row, "sender", SenderPos)
      /\ a \notin LaneGroups(row, "receiver", ReceiverPos)
  BY <1>4, SetupEntries, CopyEntries, SenderEntries, ReceiverEntries
<1>7. CASE a \in RootGroups(row)
  <2>1. a = Entry(<<"body", "root">>, 58 .. 64)
    BY <1>4, <1>7, RootEntries
  <2>2. x \in 58 .. 64
    BY <1>5, <2>1
  <2>3. a = SignatureOwner(s, x)
    BY <2>1, <2>2 DEF SignatureOwner
  <2> QED BY <2>2, <2>3 DEF s
<1>8. CASE a \in RangeGroups(row)
  <2>1. /\ InTail(Entry(<<"tail", "deltaCompared">>, {108}))
        /\ InTail(Entry(<<"tail", "sigmaCompared">>, {109}))
    BY DEF InTail, Entry
  <2>2. CASE a = Entry(<<"body", "deltaRange">>, {56, 57})
    <3>1. x \in 56 .. 57
      BY <1>5, <2>2
    <3>2. a = SignatureOwner(s, x)
      BY <2>2, <3>1 DEF SignatureOwner
    <3> QED BY <3>1, <3>2 DEF s
  <2>3. CASE a = Entry(<<"body", "sigmaRange">>, {92, 93})
    <3>1. x \in 92 .. 93
      BY <1>5, <2>3
    <3>2. a = SignatureOwner(s, x)
      BY <2>3, <3>1 DEF SignatureOwner
    <3> QED BY <3>1, <3>2 DEF s
  <2> QED BY <1>8, <2>1, <2>2, <2>3, RangeEntries
<1>9. CASE a \in SignatureGroups(row)
  <2>1. \/ s < 510 /\ s % 2 = 0 /\ a = Entry(<<"S", "double">>, 0 .. 18)
        \/ s < 510 /\ ~(s % 2 = 0) /\ a = Entry(<<"S", "add">>, 0 .. 18)
        \/ s < 510 /\ s % 2 = 0 /\ a = Entry(<<"hP", "double">>, 19 .. 37)
        \/ s < 510 /\ ~(s % 2 = 0) /\ a = Entry(<<"hP", "add">>, 19 .. 37)
        \/ s < 510 /\ s % 2 = 0 /\ a = Entry(<<"body", "limbs">>, 38 .. 41)
        \/ s < 510 /\ ~(s % 2 = 0) /\ a = Entry(<<"body", "limbsKept">>, 38 .. 41)
        \/ (s < 40 /\ s % 8 < 7) /\ a = Entry(<<"body", "sigRound">>, 42 .. 55)
        \/ ~(s < 40 /\ s % 8 < 7) /\ a = Entry(<<"body", "sigCopy">>, 42 .. 55)
        \/ s = 510 /\ a = Entry(<<"body", "finalAdd">>, 0 .. 17)
        \/ s = 510 /\ a = Entry(<<"body", "digest">>, 38 .. 41)
    BY <1>4, <1>9, SignatureEntries
  <2>2. CASE /\ s < 510
             /\ \/ s % 2 = 0 /\ a = Entry(<<"S", "double">>, 0 .. 18)
                \/ ~(s % 2 = 0) /\ a = Entry(<<"S", "add">>, 0 .. 18)
    <3>1. x \in 0 .. 18
      BY <1>5, <2>2
    <3>2. a = PointOwner(s, x)
      BY <1>1, <2>2, <3>1 DEF PointOwner
    <3>3. a = SignatureOwner(s, x)
      BY <3>1, <3>2 DEF SignatureOwner
    <3> QED BY <3>1, <3>3 DEF s
  <2>3. CASE /\ s < 510
             /\ \/ s % 2 = 0 /\ a = Entry(<<"hP", "double">>, 19 .. 37)
                \/ ~(s % 2 = 0) /\ a = Entry(<<"hP", "add">>, 19 .. 37)
    <3>1. x \in 19 .. 37
      BY <1>5, <2>3
    <3>2. a = PointOwner(s, x)
      BY <1>1, <2>3, <3>1 DEF PointOwner
    <3>3. a = SignatureOwner(s, x)
      BY <3>1, <3>2 DEF SignatureOwner
    <3> QED BY <3>1, <3>3 DEF s
  <2>4. CASE \/ s < 510 /\ s % 2 = 0 /\ a = Entry(<<"body", "limbs">>, 38 .. 41)
             \/ s < 510 /\ ~(s % 2 = 0) /\ a = Entry(<<"body", "limbsKept">>, 38 .. 41)
             \/ s = 510 /\ a = Entry(<<"body", "digest">>, 38 .. 41)
    <3>1. x \in 38 .. 41
      BY <1>5, <2>4
    <3>2. a = LimbOwner(s)
      BY <1>1, <2>4 DEF LimbOwner
    <3>3. a = SignatureOwner(s, x)
      BY <3>1, <3>2 DEF SignatureOwner
    <3> QED BY <3>1, <3>3 DEF s
  <2>5. CASE \/ (s < 40 /\ s % 8 < 7) /\ a = Entry(<<"body", "sigRound">>, 42 .. 55)
             \/ ~(s < 40 /\ s % 8 < 7) /\ a = Entry(<<"body", "sigCopy">>, 42 .. 55)
    <3>1. x \in 42 .. 55
      BY <1>5, <2>5
    <3>2. a = SignatureOwner(s, x)
      BY <2>5, <3>1 DEF SignatureOwner
    <3> QED BY <3>1, <3>2 DEF s
  <2>6. CASE s = 510 /\ a = Entry(<<"body", "finalAdd">>, 0 .. 17)
    <3>1. x \in 0 .. 17
      BY <1>5, <2>6
    <3>2. a = PointOwner(s, x)
      BY <2>6 DEF PointOwner
    <3>3. a = SignatureOwner(s, x)
      BY <3>1, <3>2 DEF SignatureOwner
    <3> QED BY <3>1, <3>3 DEF s
  <2> QED BY <2>1, <2>2, <2>3, <2>4, <2>5, <2>6
<1> QED BY <1>6, <1>7, <1>8, <1>9 DEF Active

(* The groups in the tail hold none of the slots before it.                *)
LEMMA TailApart ==
  ASSUME ~On(mask.setup, row), NEW a \in Active(row), InTail(a)
  PROVE  a.slots \subseteq 99 .. 114
<1>1. ASSUME NEW n, NEW m, NEW S, a = Entry(<<n, m>>, S)
      PROVE  n = "tail" /\ a.slots = S
  BY <1>1 DEF InTail, Entry
<1>2. CASE a \in CopyGroups(row)
  BY <1>2, CopyEntries
<1>3. a \notin SetupGroups(row)
  BY SetupEntries
<1>4. a \notin LaneGroups(row, "sender", SenderPos)
  BY <1>1, SenderEntries
<1>5. a \notin LaneGroups(row, "receiver", ReceiverPos)
  BY <1>1, ReceiverEntries
<1>6. a \notin SignatureGroups(row)
  BY <1>1, SignatureEntries
<1>7. CASE a \in RootGroups(row)
  <2>1. a.slots = 99 .. 105
    BY <1>1, <1>7, RootEntries
  <2> QED BY <2>1
<1>8. CASE a \in RangeGroups(row)
  <2>1. a.slots = {108} \/ a.slots = {109}
    BY <1>1, <1>8, RangeEntries
  <2> QED BY <2>1
<1> QED BY <1>2, <1>3, <1>4, <1>5, <1>6, <1>7, <1>8 DEF Active

(* Past the setup row, no constraint of the paths, the roots, the points,  *)
(* the hash or the range steps shares a slot with another on the same row, *)
(* though three programs overlay their results (air.rs 383-610).           *)
THEOREM BodySlotsAlwaysExclusive == Spec => []BodySlotsExclusive
<1>1. RowInv => BodySlotsExclusive
  <2> SUFFICES ASSUME RowInv, ~On(mask.setup, row),
                      NEW a \in Active(row), NEW b \in Active(row), Clash(a, b)
               PROVE  InTail(a) /\ InTail(b)
    BY DEF BodySlotsExclusive
  <2>1. PICK x : x \in a.slots /\ x \in b.slots
    BY DEF Clash
  <2>2. CASE ~InTail(a) /\ ~InTail(b)
    <3>1. CASE row < 512
      <4>1. a = MerkleOwner(row % 8 = 7, x) /\ b = MerkleOwner(row % 8 = 7, x)
        BY <2>1, <2>2, <3>1, MerkleOwned
      <4> QED BY <4>1 DEF Clash
    <3>2. CASE row > 511
      <4>1. a = SignatureOwner(row - 512, x) /\ b = SignatureOwner(row - 512, x)
        BY <2>1, <2>2, <3>2, SignatureOwned
      <4> QED BY <4>1 DEF Clash
    <3> QED BY <3>1, <3>2 DEF RowInv
  <2>3. \A c \in Active(row) : ~InTail(c) /\ x \in c.slots => x \in 0 .. 98
    <3>1. row < 512 \/ row > 511
      BY DEF RowInv
    <3> QED BY <3>1, MerkleOwned, SignatureOwned
  <2>4. \A c \in Active(row) : InTail(c) /\ x \in c.slots => x \in 99 .. 114
    BY TailApart
  <2> QED BY <2>1, <2>2, <2>3, <2>4
<1> QED BY <1>1, RowInvAlways, PTL
=============================================================================
