------------------------ MODULE MerkleUpdateProofs ------------------------
(***************************************************************************)
(* Theorems about MerkleUpdate, for every depth of the tree, number of     *)
(* rounds, batch, and order the workers run in; then about                 *)
(* MerkleUpdateAir: whatever values, siblings and bits a prover writes,    *)
(* the constraints attest transfers between accounts of the tree.          *)
(***************************************************************************)
EXTENDS MerkleUpdate, MerkleUpdateAir, TransferBatchProofs

-----------------------------------------------------------------------------
(* The inductive invariant: every row filled of every fragment is the row  *)
(* of its transfer at its step.                                            *)
FragmentIs(rows, values, m) ==
  /\ IsSequence(rows) /\ Len(rows) <= TxLength
  /\ \A k \in 1 .. Len(rows) : RowIs(rows[k], values, m, k - 1)

FragmentOk(t) ==
  \E values, m : /\ RecordIs(batch.txs[t], NextRoot(batch, t), values, m)
                 /\ FragmentIs(fragments[t], values, m)

Inv == /\ batch \in Batches
       /\ fragments = [t \in Txs |-> fragments[t]]
       /\ \A t \in Txs : FragmentOk(t)
       /\ patched \in BOOLEAN
       /\ patched => \A t \in Txs : Filled(t)

(* All fragments are empty at first.                                       *)
LEMMA InvInit == Init => Inv
<1> SUFFICES ASSUME Init PROVE Inv
  OBVIOUS
<1>1. \A t \in Txs : fragments[t] = <<>>
  BY DEF Init
<1>2. \A values, m : FragmentIs(<<>>, values, m)
  <2>1. TxLength \in Nat
    BY LengthSteps
  <2> QED BY <2>1, EmptySequence DEF FragmentIs
<1>3. \A t \in Txs : FragmentOk(t)
  BY <1>1, <1>2, BatchRecords DEF Init, FragmentOk
<1> QED BY <1>3 DEF Init, Inv

(* A row appended to the fragment of a worker.                             *)
LEMMA FillKeeps ==
  ASSUME Inv, ~patched, NEW t \in Txs, NEW filled, Fill(t, filled),
         UNCHANGED <<batch, patched>>, Len(fragments[t]) < TxLength,
         \A values, m : RecordIs(batch.txs[t], NextRoot(batch, t), values, m)
                        /\ FragmentIs(fragments[t], values, m)
                        => RowIs(filled, values, m, Len(fragments[t]))
  PROVE  Inv'
<1> DEFINE rows == Append(fragments[t], filled)
<1>1. /\ fragments' = [u \in Txs |-> fragments'[u]]
      /\ fragments'[t] = rows
      /\ \A u \in Txs \ {t} : fragments'[u] = fragments[u]
  BY DEF Inv, Fill
<1>2. ASSUME NEW u \in Txs, u # t PROVE FragmentOk(u)'
  BY <1>1, <1>2 DEF Inv, FragmentOk
<1>3. FragmentOk(t)'
  <2>1. PICK values, m : /\ RecordIs(batch.txs[t], NextRoot(batch, t), values, m)
                         /\ FragmentIs(fragments[t], values, m)
    BY DEF Inv, FragmentOk
  <2>2. RowIs(filled, values, m, Len(fragments[t]))
    BY <2>1
  <2>3. IsSequence(fragments[t])
    BY <2>1 DEF FragmentIs
  <2>4. /\ IsSequence(rows) /\ Len(rows) = Len(fragments[t]) + 1
        /\ \A k \in 1 .. Len(fragments[t]) : rows[k] = fragments[t][k]
        /\ rows[Len(fragments[t]) + 1] = filled
    BY <2>3, AppendSequence
  <2>5. Len(fragments[t]) \in Nat /\ TxLength \in Nat
    BY <2>3, LengthSteps DEF IsSequence
  <2> HIDE DEF rows
  <2>6. ASSUME NEW k \in 1 .. Len(rows) PROVE RowIs(rows[k], values, m, k - 1)
    <3>1. CASE k = Len(fragments[t]) + 1
      <4>1. k - 1 = Len(fragments[t])
        BY <2>5, <3>1
      <4> QED BY <2>2, <2>4, <3>1, <4>1
    <3>2. CASE k # Len(fragments[t]) + 1
      <4>1. k \in 1 .. Len(fragments[t])
        BY <2>4, <2>5, <3>2
      <4> QED BY <2>1, <2>4, <4>1 DEF FragmentIs
    <3> QED BY <3>1, <3>2
  <2>7. FragmentIs(rows, values, m)
    BY <2>4, <2>5, <2>6 DEF FragmentIs
  <2> QED BY <1>1, <2>1, <2>7 DEF FragmentOk
<1> QED BY <1>1, <1>2, <1>3 DEF Inv

(* Every step of every worker keeps the invariant.                         *)
LEMMA InvNext == Inv /\ [Next]_vars => Inv'
<1> SUFFICES ASSUME Inv, [Next]_vars PROVE Inv'
  OBVIOUS
<1> USE DEF Inv
<1>1. ASSUME NEW t \in Txs, InitFragment(t) PROVE Inv'
  <2>1. fragments[t] = <<>> /\ Len(fragments[t]) = 0 /\ ~Filled(t) /\ TxLength \in Nat
    BY <1>1, EmptySequence, LengthSteps DEF InitFragment, Filled
  <2>2. 0 < TxLength
    BY LengthSteps
  <2>3. \A values, m : RecordIs(batch.txs[t], NextRoot(batch, t), values, m)
          => RowIs(FirstRow(batch.txs[t]), values, m, Len(fragments[t]))
    BY <2>1, RowBegins DEF RecordIs
  <2> QED BY <1>1, <2>1, <2>2, <2>3, FillKeeps DEF InitFragment
<1>2. ASSUME NEW t \in Txs, UpdateFragment(t) PROVE Inv'
  <2> DEFINE step == Len(fragments[t]) - 1
             filled == UpdateRow(step, batch.txs[t], fragments[t][step + 1])
  <2>1. Fill(t, filled) /\ UNCHANGED <<batch, patched>> /\ ~patched
    BY <1>2 DEF UpdateFragment
  <2>2. /\ Len(fragments[t]) \in Nat /\ Len(fragments[t]) < TxLength
        /\ step \in Nat /\ step + 1 = Len(fragments[t])
        /\ step + 1 \in 1 .. Len(fragments[t])
    <3>1. IsSequence(fragments[t]) /\ Len(fragments[t]) <= TxLength
      BY DEF FragmentOk, FragmentIs
    <3>2. fragments[t] # <<>> /\ Len(fragments[t]) # TxLength
      BY <1>2 DEF UpdateFragment, Filled
    <3>3. Len(fragments[t]) # 0
      BY <3>1, <3>2, AppendSequence
    <3> QED BY <3>1, <3>2, <3>3, LengthSteps DEF IsSequence
  <2>3. ASSUME NEW values, NEW m,
               RecordIs(batch.txs[t], NextRoot(batch, t), values, m),
               FragmentIs(fragments[t], values, m)
        PROVE  RowIs(filled, values, m, Len(fragments[t]))
    <3>1. RowIs(fragments[t][step + 1], values, m, (step + 1) - 1)
      BY <2>2, <2>3 DEF FragmentIs
    <3>2. (step + 1) - 1 = step
      BY <2>2
    <3>3. Accounts(values) /\ m \in Moves /\ batch.txs[t] = Record(values, m)
      BY <2>3 DEF RecordIs
    <3>4. RowIs(filled, values, m, step + 1)
      <4>1. RowIs(fragments[t][step + 1], values, m, step)
        BY <3>1, <3>2
      <4> HIDE DEF step
      <4> QED BY <2>2, <3>3, <4>1, RowUpdated
    <3> QED BY <2>2, <3>4
  <2> HIDE DEF filled, step
  <2> QED BY <2>1, <2>2, <2>3, FillKeeps
<1>3. CASE PatchBits
  <2>1. 1 \in Txs
    BY BatchAssumption DEF Txs
  <2>2. PICK values, m : /\ RecordIs(batch.txs[1], NextRoot(batch, 1), values, m)
                         /\ FragmentIs(fragments[1], values, m)
    BY <2>1 DEF FragmentOk
  <2> DEFINE rows == fragments[1]
             old == rows[2]
             half == [s |-> [old.s EXCEPT !.bit = 1], r |-> old.r, root |-> old.root]
             filled == [s |-> [old.s EXCEPT !.bit = 1], r |-> [old.r EXCEPT !.bit = 1],
                     root |-> old.root]
  <2>3. Len(rows) = TxLength /\ TxLength \in Nat /\ 2 \in 1 .. Len(rows)
        /\ IsSequence(rows)
    BY <1>3, <2>1, <2>2, LengthSteps DEF PatchBits, Filled, FragmentIs
  <2>4. RowIs(old, values, m, 1)
    <3>1. 2 - 1 = 1
      OBVIOUS
    <3> QED BY <2>2, <2>3, <3>1 DEF FragmentIs
  <2>5. RowIs(filled, values, m, 1)
    <3>1. Hashed(1) = 1 /\ 1 < HashLength
      BY LengthSteps DEF Hashed
    <3>2. 1 % Cycle # 0
      BY CycleAssumption
    <3>3. /\ old = [s |-> old.s, r |-> old.r, root |-> old.root]
          /\ SenderIs(old.s, values, m, 1) /\ ReceiverIs(old.r, values, m, 1)
          /\ old.root = Root(Committed(values))
      BY <2>4, <3>1 DEF RowIs
    <3> HIDE DEF old
    <3>4. /\ filled = [s |-> filled.s, r |-> filled.r, root |-> filled.root]
          /\ filled.s = [old.s EXCEPT !.bit = 1] /\ filled.r = [old.r EXCEPT !.bit = 1]
          /\ filled.root = old.root
      BY <3>3
    <3> HIDE DEF filled, half
    <3>5. \A lane, a, b, i, x, y : LaneIs(lane, a, b, i, x, y, 1)
            => LaneIs([lane EXCEPT !.bit = 1], a, b, i, x, y, 1)
      <4> SUFFICES ASSUME NEW lane, NEW a, NEW b, NEW i, NEW x, NEW y,
                          LaneIs(lane, a, b, i, x, y, 1)
                   PROVE  LaneIs([lane EXCEPT !.bit = 1], a, b, i, x, y, 1)
        OBVIOUS
      <4> DEFINE u == LaneAt(a, i, x, 1)
                 w == LaneAt(b, i, y, 1)
      <4>1. lane = [old |-> u, bit |-> lane.bit, new |-> w]
        BY DEF LaneIs
      <4> HIDE DEF u, w
      <4>2. [lane EXCEPT !.bit = 1] = [old |-> u, bit |-> 1, new |-> w]
        BY <4>1
      <4>3. BitAt(i, 1, 1)
        BY <3>2 DEF BitAt
      <4> QED BY <4>2, <4>3 DEF LaneIs, u, w
    <3>6. SenderIs(filled.s, values, m, 1) /\ ReceiverIs(filled.r, values, m, 1)
      BY <3>3, <3>4, <3>5 DEF SenderIs, ReceiverIs
    <3> QED BY <3>1, <3>3, <3>4, <3>6 DEF RowIs
  <2>6. /\ fragments' = [t \in Txs |-> fragments'[t]]
        /\ fragments'[1] = Put(rows, 2, filled)
        /\ \A t \in Txs \ {1} : fragments'[t] = fragments[t]
    <3> DEFINE first == [fragments EXCEPT ![1][2].s.bit = 1]
    <3>1. fragments' = [first EXCEPT ![1][2].r.bit = 1]
      BY <1>3 DEF PatchBits
    <3>2. old = [s |-> old.s, r |-> old.r, root |-> old.root]
      BY <2>4 DEF RowIs
    <3>3. /\ first = [t \in Txs |-> first[t]]
          /\ first[1] = Put(rows, 2, [old EXCEPT !.s.bit = 1])
          /\ \A t \in Txs \ {1} : first[t] = fragments[t]
      BY <2>1 DEF Put
    <3>4. [old EXCEPT !.s.bit = 1] = half
      <4> HIDE DEF old
      <4> QED BY <3>2
    <3> HIDE DEF first, old, half
    <3>5. first[1][2] = half
      BY <2>3, <3>3, <3>4, PutSequence
    <3>6. [half EXCEPT !.r.bit = 1] = filled
      BY DEF half, filled
    <3>7. /\ fragments' = [t \in Txs |-> fragments'[t]]
          /\ fragments'[1] = Put(first[1], 2, [first[1][2] EXCEPT !.r.bit = 1])
          /\ \A t \in Txs \ {1} : fragments'[t] = fragments[t]
      BY <2>1, <3>1, <3>3 DEF Put
    <3> HIDE DEF filled, rows
    <3>8. fragments'[1] = Put(Put(rows, 2, half), 2, filled)
      BY <3>3, <3>4, <3>5, <3>6, <3>7
    <3> QED BY <2>3, <3>7, <3>8, PutSequence
  <2> HIDE DEF filled, old, rows
  <2>7. FragmentIs(Put(rows, 2, filled), values, m)
    <3>1. /\ IsSequence(Put(rows, 2, filled)) /\ Len(Put(rows, 2, filled)) = Len(rows)
          /\ \A j \in 1 .. Len(rows) :
               Put(rows, 2, filled)[j] = IF j = 2 THEN filled ELSE rows[j]
      BY <2>3, PutSequence
    <3>2. \A j \in 1 .. Len(rows) : RowIs(Put(rows, 2, filled)[j], values, m, j - 1)
      <4>1. 2 - 1 = 1
        OBVIOUS
      <4> QED BY <2>2, <2>5, <3>1, <4>1 DEF FragmentIs, rows
    <3> QED BY <2>3, <3>1, <3>2 DEF FragmentIs
  <2>8. batch' = batch /\ patched' = TRUE
    BY <1>3 DEF PatchBits
  <2>9. \A t \in Txs : FragmentOk(t)'
    BY <2>2, <2>6, <2>7, <2>8 DEF FragmentOk
  <2>10. \A t \in Txs : Filled(t)'
    <3>1. Len(Put(rows, 2, filled)) = TxLength
      BY <2>3, PutSequence
    <3> QED BY <1>3, <2>6, <3>1 DEF PatchBits, Filled
  <2> QED BY <2>6, <2>8, <2>9, <2>10
<1>4. CASE Built
  BY <1>4 DEF Built, vars, FragmentOk, Filled
<1>5. CASE UNCHANGED vars
  BY <1>5 DEF vars, FragmentOk, Filled
<1> QED BY <1>1, <1>2, <1>3, <1>4, <1>5 DEF Next

(* The invariant holds in every order of filling the fragments.            *)
LEMMA InvAlways == Spec => []Inv
BY InvInit, InvNext, PTL DEF Spec

-----------------------------------------------------------------------------
(* The invariant gives the types.                                          *)
LEMMA InvTyped == Inv => TypeOK
<1> SUFFICES ASSUME Inv PROVE TypeOK
  OBVIOUS
<1>1. ASSUME NEW t \in Txs
      PROVE  /\ Len(fragments[t]) \in 0 .. TxLength
             /\ \A k \in DOMAIN fragments[t] :
                  Lane(fragments[t][k].s) /\ Lane(fragments[t][k].r)
  <2>1. PICK values, m : FragmentIs(fragments[t], values, m)
    BY DEF Inv, FragmentOk
  <2>2. Len(fragments[t]) \in 0 .. TxLength
        /\ DOMAIN fragments[t] = 1 .. Len(fragments[t])
    BY <2>1, LengthSteps DEF FragmentIs, IsSequence
  <2>3. ASSUME NEW k \in 1 .. Len(fragments[t])
        PROVE  Lane(fragments[t][k].s) /\ Lane(fragments[t][k].r)
    <3>1. RowIs(fragments[t][k], values, m, k - 1)
      BY <2>1 DEF FragmentIs
    <3> QED BY <3>1 DEF RowIs, SenderIs, ReceiverIs, LaneIs, BitAt, Lane
  <2> QED BY <2>2, <2>3
<1> QED BY <1>1 DEF Inv, TypeOK

(* In whatever order the workers fill them, fragments never grow past      *)
(* their bounds, index bits stay binary and the patch waits for all of     *)
(* them (merkle/update/prover.rs 41-74).                                   *)
THEOREM FragmentsTyped == Spec => []TypeOK
BY InvAlways, InvTyped, PTL

(* Rows in closed form obey the constraints, within a fragment and where   *)
(* one ends and the next begins.                                           *)
LEMMA InvObeys == Inv => TraceObeysConstraints
<1> SUFFICES ASSUME Inv, NEW g \in 0 .. (LastRow - 1),
                    RowFilled(g), RowFilled(g + 1)
             PROVE  TransitionHolds(g, Row(g), Row(g + 1))
  BY DEF TraceObeysConstraints
<1> DEFINE step == g % TxLength
           t == FragmentOf(g)
<1>1. TxLength \in Nat \ {0} /\ NumTx \in Nat \ {0} /\ g \in Nat
  BY LengthSteps, BatchAssumption
<1>2. step \in 0 .. (TxLength - 1) /\ t = g \div TxLength + 1
  BY <1>1, Division DEF FragmentOf
<1>3. t \in Txs /\ (step = TxLength - 1 => t + 1 \in Txs)
  <2>1. g \in 0 .. (NumTx * TxLength - 2)
    BY <1>1 DEF LastRow
  <2> DEFINE q == g \div TxLength
  <2>2. q \in Int /\ t = q + 1
    BY <1>1, <1>2, Division
  <2>3. q + 1 \in Txs /\ (step = TxLength - 1 => q + 2 \in Txs)
    BY <2>1, Places
  <2> HIDE DEF q, t, step
  <2>4. t + 1 = q + 2
    BY <2>2
  <2> QED BY <2>2, <2>3, <2>4
<1>4. PICK values, m : /\ RecordIs(batch.txs[t], NextRoot(batch, t), values, m)
                       /\ FragmentIs(fragments[t], values, m)
  BY <1>3 DEF Inv, FragmentOk
<1>5. Accounts(values) /\ m \in Moves
  BY <1>4 DEF RecordIs
<1>6. step + 1 \in 1 .. Len(fragments[t]) /\ RowIs(Row(g), values, m, step)
  <2>1. Len(fragments[t]) \in Nat /\ step < Len(fragments[t])
    BY <1>4 DEF FragmentIs, IsSequence, RowFilled
  <2>2. step + 1 \in 1 .. Len(fragments[t]) /\ (step + 1) - 1 = step
    BY <1>2, <2>1
  <2>3. RowIs(fragments[t][step + 1], values, m, step)
    BY <1>4, <2>2 DEF FragmentIs
  <2> QED BY <2>2, <2>3 DEF Row
<1>7. CASE step = TxLength - 1
  <2>1. FragmentOf(g + 1) = t + 1 /\ (g + 1) % TxLength = 0
    <3>1. (g + 1) % TxLength = 0 /\ (g + 1) \div TxLength = g \div TxLength + 1
      BY <1>1, <1>7, CycleSteps
    <3> QED BY <3>1 DEF FragmentOf
  <2>2. PICK v, n : /\ RecordIs(batch.txs[t + 1], NextRoot(batch, t + 1), v, n)
                    /\ FragmentIs(fragments[t + 1], v, n)
    BY <1>3, <1>7 DEF Inv, FragmentOk
  <2>3. RowIs(Row(g + 1), v, n, 0)
    <3>1. 0 < Len(fragments[t + 1]) /\ Len(fragments[t + 1]) \in Nat
      BY <2>1, <2>2 DEF FragmentIs, IsSequence, RowFilled
    <3>2. 1 \in 1 .. Len(fragments[t + 1]) /\ 0 + 1 = 1 /\ 1 - 1 = 0
      BY <3>1
    <3>3. RowIs(fragments[t + 1][1], v, n, 0)
      BY <2>2, <3>2 DEF FragmentIs
    <3> QED BY <2>1, <3>2, <3>3 DEF Row
  <2>4. Row(g + 1).root = Root(Committed(v))
    BY <2>3, LengthSteps DEF RowIs
  <2>5. batch.txs[t + 1].root = Root(Committed(v))
    BY <2>2 DEF RecordIs, Record
  <2>6. NextRoot(batch, t) = batch.txs[t + 1].root
    <3>1. t < NumTx
      BY <1>1, <1>3, <1>7 DEF Txs
    <3> QED BY <3>1 DEF NextRoot
  <2>7. Row(g).root = NextRoot(batch, t)
    <3>1. ~(step < HashLength)
      BY <1>7, LengthSteps
    <3> QED BY <1>4, <1>6, <3>1 DEF RowIs, RecordIs
  <2>8. Row(g + 1).root = Row(g).root
    BY <2>4, <2>5, <2>6, <2>7
  <2> QED BY <1>1, <1>7, <2>8, BorderObeys
<1>8. CASE step # TxLength - 1
  <2>1. FragmentOf(g + 1) = t /\ (g + 1) % TxLength = step + 1
    <3>1. (g + 1) % TxLength = (g % TxLength) + 1 /\ (g + 1) \div TxLength = g \div TxLength
      BY <1>1, <1>8, CycleSteps
    <3> QED BY <3>1 DEF FragmentOf
  <2>2. RowIs(Row(g + 1), values, m, step + 1)
    <3>1. Len(fragments[t]) \in Nat /\ step + 1 < Len(fragments[t])
      BY <1>4, <2>1 DEF FragmentIs, IsSequence, RowFilled
    <3>2. step + 2 \in 1 .. Len(fragments[t]) /\ (step + 2) - 1 = step + 1
          /\ (step + 1) + 1 = step + 2
      BY <1>2, <3>1
    <3>3. RowIs(fragments[t][step + 2], values, m, step + 1)
      <4>1. RowIs(fragments[t][step + 2], values, m, (step + 2) - 1)
        BY <1>4, <3>2 DEF FragmentIs
      <4> QED BY <3>2, <4>1
    <3> QED BY <2>1, <3>2, <3>3 DEF Row
  <2> QED BY <1>1, <1>5, <1>6, <2>2, RowObeys
<1> QED BY <1>7, <1>8

(* Any two consecutive rows filled obey the constraints, within a fragment *)
(* and across the border of two fragments, before and after the patch      *)
(* (merkle/update/trace.rs 22-139, air.rs 231-377).                        *)
THEOREM TraceAlwaysObeys == Spec => []TraceObeysConstraints
BY InvAlways, InvObeys, PTL

(* The last rows of the hashes hold the recorded roots.                    *)
LEMMA InvMeets == Inv => PathsMeetRoots
<1> SUFFICES ASSUME Inv, NEW t \in Txs, Len(fragments[t]) > HashLength
             PROVE  LET filled == fragments[t][HashLength + 1]
                    IN /\ First(filled.s.old) = batch.txs[t].root
                       /\ First(filled.s.new) = First(filled.r.old)
                       /\ First(filled.r.new) = RootAfter(t)
  BY DEF PathsMeetRoots
<1> DEFINE filled == fragments[t][HashLength + 1]
<1>1. PICK values, m : /\ RecordIs(batch.txs[t], NextRoot(batch, t), values, m)
                       /\ FragmentIs(fragments[t], values, m)
  BY DEF Inv, FragmentOk
<1>2. RowIs(filled, values, m, HashLength)
  <2>1. Len(fragments[t]) \in Nat
    BY <1>1 DEF FragmentIs, IsSequence
  <2>2. HashLength + 1 \in 1 .. Len(fragments[t]) /\ (HashLength + 1) - 1 = HashLength
    BY <2>1, LengthSteps
  <2> QED BY <1>1, <2>2 DEF FragmentIs
<1>3. SenderIs(filled.s, values, m, HashLength) /\ ReceiverIs(filled.r, values, m, HashLength)
  <2>1. Hashed(HashLength) = HashLength
    BY LengthSteps DEF Hashed
  <2> QED BY <1>2, <2>1 DEF RowIs
<1>4. /\ Accounts(values) /\ m \in Moves
      /\ batch.txs[t].root = Root(Committed(values))
      /\ RootAfter(t) = Root(Committed(Move(values, m)))
  BY <1>1 DEF RecordIs, Record, RootAfter, NextRoot
<1> HIDE DEF filled
<1>5. /\ First(filled.s.old) = batch.txs[t].root
      /\ First(filled.s.new) = First(filled.r.old)
      /\ First(filled.r.new) = RootAfter(t)
  BY <1>3, <1>4, HashEnd
<1> QED BY <1>5 DEF filled

(* The four paths of a transaction climb to the roots the metadata names,  *)
(* although each of the two sibling paths serves two trees                 *)
(* (merkle/update/trace.rs 75-139, lib.rs 360-404).                        *)
THEOREM PathsAlwaysMeet == Spec => []PathsMeetRoots
BY InvAlways, InvMeets, PTL

(* The first and the last row hold the roots of the batch.                 *)
LEMMA InvPublic == Inv => PublicInputsMatch
<1> SUFFICES ASSUME Inv, patched
             PROVE  /\ Row(0).root = batch.txs[1].root
                    /\ Row(LastRow).root = batch.finalRoot
  BY DEF PublicInputsMatch, PublicInputs
<1>1. TxLength \in Nat \ {0} /\ NumTx \in Nat \ {0} /\ 1 \in Txs /\ NumTx \in Txs
  BY LengthSteps, BatchAssumption DEF Txs
<1>2. /\ FragmentOf(0) = 1 /\ 0 % TxLength = 0
      /\ FragmentOf(LastRow) = NumTx /\ LastRow % TxLength = TxLength - 1
  <2>1. 0 \div TxLength = 0 /\ 0 % TxLength = 0
    BY <1>1
  <2>2. LastRow \div TxLength = NumTx - 1 /\ LastRow % TxLength = TxLength - 1
    BY LastPlace DEF LastRow
  <2> QED BY <1>1, <2>1, <2>2 DEF FragmentOf
<1>3. ASSUME NEW t \in Txs
      PROVE  /\ fragments[t][1].root = batch.txs[t].root
             /\ fragments[t][TxLength].root = NextRoot(batch, t)
  <2>1. PICK values, m : /\ RecordIs(batch.txs[t], NextRoot(batch, t), values, m)
                         /\ FragmentIs(fragments[t], values, m)
    BY DEF Inv, FragmentOk
  <2>2. Len(fragments[t]) = TxLength
    BY DEF Inv, Filled
  <2>3. RowIs(fragments[t][1], values, m, 0)
        /\ RowIs(fragments[t][TxLength], values, m, TxLength - 1)
    <3>1. 1 \in 1 .. Len(fragments[t]) /\ TxLength \in 1 .. Len(fragments[t])
          /\ 1 - 1 = 0
      BY <1>1, <2>2
    <3> QED BY <2>1, <3>1 DEF FragmentIs
  <2>4. 0 < HashLength /\ ~(TxLength - 1 < HashLength)
    BY LengthSteps
  <2> QED BY <2>1, <2>3, <2>4 DEF RowIs, RecordIs, Record
<1>4. NextRoot(batch, NumTx) = batch.finalRoot
  BY <1>1 DEF NextRoot
<1>5. Row(0) = fragments[1][1] /\ Row(LastRow) = fragments[NumTx][TxLength]
  BY <1>1, <1>2 DEF Row
<1> QED BY <1>1, <1>3, <1>4, <1>5

(* The public inputs read off the finished trace are the roots the         *)
(* verifier is given (merkle/update/prover.rs 83-107).                     *)
THEOREM PublicInputsAlwaysMatch == Spec => []PublicInputsMatch
BY InvAlways, InvPublic, PTL

-----------------------------------------------------------------------------
(* Any prover.  A leaf names the value it was made of.                     *)
LEMMA LeafInjective ==
  ASSUME NEW v, IsValue(v), NEW w, IsValue(w), Leaf(v) = Leaf(w)
  PROVE  v = w
<1>1. Load(v).fst = Load(w).fst /\ Load(v).snd = Load(w).snd
  BY MergeInjective DEF Leaf
<1>2. /\ [lowKey |-> v.pkey] = [lowKey |-> w.pkey]
      /\ [highKey |-> v.pkey, balance |-> v.balance, nonce |-> v.nonce]
           = [highKey |-> w.pkey, balance |-> w.balance, nonce |-> w.nonce]
  BY <1>1 DEF Load, Fresh
<1>3. v.pkey = w.pkey /\ v.balance = w.balance /\ v.nonce = w.nonce
  BY <1>2
<1> QED BY <1>3 DEF IsValue

(* Powers of two are ordered as their exponents are.                       *)
LEMMA Pow2Grows ==
  ASSUME NEW n \in Nat
  PROVE  \A k \in 0 .. n : Pow2[k] <= Pow2[n]
<1> DEFINE S == {m \in Nat : \A k \in 0 .. m : Pow2[k] <= Pow2[m]}
<1>1. 0 \in S
  BY Pow2Steps
<1>2. ASSUME NEW j \in Nat, j \in S PROVE j + 1 \in S
  <2>1. Pow2[j + 1] = 2 * Pow2[j] /\ Pow2[j] \in Nat
    BY Pow2Steps
  <2>2. ASSUME NEW k \in 0 .. (j + 1) PROVE Pow2[k] <= Pow2[j + 1]
    <3>1. CASE k = j + 1
      BY <2>1, <3>1
    <3>2. CASE k # j + 1
      <4>1. k \in 0 .. j
        BY <3>2
      <4>2. Pow2[k] <= Pow2[j] /\ Pow2[k] \in Nat
        BY <1>2, <4>1, Pow2Steps
      <4> QED BY <2>1, <4>2
    <3> QED BY <3>1, <3>2
  <2> QED BY <2>2
<1>3. Nat \subseteq S
  <2> HIDE DEF S
  <2> QED BY <1>1, <1>2, SetInduction
<1> QED BY <1>3

(* The leaf that a node of a level and an index below it name.             *)
Below(p, l, index) == p * Pow2[l] + index

(* The leaves below a node.                                                *)
LEMMA BelowSteps ==
  ASSUME NEW l \in 0 .. Depth, NEW p \in Level(l), NEW j \in 0 .. (Pow2[l] - 1)
  PROVE  Below(p, l, j) \in Index /\ Above(Below(p, l, j), l) = p
<1> DEFINE d == Pow2[l]
           n == Pow2[Depth - l]
<1>1. l \in Nat /\ Depth - l \in Nat /\ Depth \in Nat
  BY DepthAssumption
<1>2. d \in Nat \ {0} /\ n \in Nat /\ p \in 0 .. (n - 1)
  BY <1>1, Pow2Positive DEF Level
<1>3. Pow2[Depth] = n * d
  <2> DEFINE S == {k \in 0 .. Depth : Pow2[Depth] = Pow2[Depth - k] * Pow2[k]}
  <2>1. 0 \in S
    BY <1>1, Pow2Steps
  <2>2. ASSUME NEW k \in 0 .. (Depth - 1), k \in S PROVE k + 1 \in S
    <3> DEFINE a == Pow2[Depth - (k + 1)]
               b == Pow2[k]
    <3>1. Depth - (k + 1) \in Nat /\ (Depth - (k + 1)) + 1 = Depth - k /\ k \in Nat
      BY <1>1
    <3>2. Pow2[Depth - k] = 2 * a /\ Pow2[k + 1] = 2 * b /\ a \in Nat /\ b \in Nat
      BY <3>1, Pow2Steps
    <3>3. Pow2[Depth] = Pow2[Depth - k] * b /\ k + 1 \in 0 .. Depth
      BY <1>1, <2>2
    <3> HIDE DEF a, b
    <3>4. Pow2[Depth] = (2 * a) * b
      BY <3>2, <3>3
    <3>5. (2 * a) * b = a * (2 * b)
      BY <3>2
    <3>6. Pow2[Depth] = a * Pow2[k + 1]
      BY <3>2, <3>4, <3>5
    <3> QED BY <3>3, <3>6 DEF a
  <2>3. 0 .. Depth \subseteq S
    <3> HIDE DEF S
    <3> QED BY <1>1, <2>1, <2>2, IntervalInduction
  <2> QED BY <2>3
<1> HIDE DEF d, n
<1>4. p * d + j \in 0 .. (n * d - 1)
  <2>1. n * d = p * d + d + (n - 1 - p) * d /\ (n - 1 - p) * d >= 0 /\ p * d \in Nat
    BY <1>2
  <2>2. j \in 0 .. (d - 1)
    BY DEF d
  <2> QED BY <1>2, <2>1, <2>2
<1>5. (p * d + j) \div d = p
  <2> DEFINE i == p * d + j
  <2>1. i = d * p + j /\ p \in Int /\ j \in 0 .. (d - 1)
    BY <1>2 DEF d
  <2> HIDE DEF i
  <2>2. i \div d = p
    BY <1>2, <2>1
  <2> QED BY <2>2 DEF i
<1> QED BY <1>3, <1>4, <1>5 DEF d, Below, Above, Index

-----------------------------------------------------------------------------
(* What a pair of climbing digests attests at a level: in every tree that  *)
(* has the old digest as a node of that level, the old leaf lies below it, *)
(* and with the new leaf in its place the node is the new digest.          *)
IsTree(t) == t = [i \in Index |-> t[i]]

Opens(l, x, y, index, old, new) ==
  \A t : \A p \in Level(l) :
    IsTree(t) /\ x = Nodes(t)[l][p] =>
      LET i == Below(p, l, index)
      IN t[i] = Leaf(old) /\ y = Nodes([t EXCEPT ![i] = Leaf(new)])[l][p]

(* A fresh lane opens the leaf it loads.                                   *)
LEMMA OpensLeaf ==
  ASSUME NEW old, NEW new
  PROVE  Opens(0, Leaf(old), Leaf(new), 0, old, new)
<1> SUFFICES ASSUME NEW t, NEW p \in Level(0), IsTree(t), Leaf(old) = Nodes(t)[0][p]
             PROVE  LET i == Below(p, 0, 0)
                    IN /\ t[i] = Leaf(old)
                       /\ Leaf(new) = Nodes([t EXCEPT ![i] = Leaf(new)])[0][p]
  BY DEF Opens
<1>1. p \in Index /\ p \in Int /\ Below(p, 0, 0) = p
  <2>1. p \in Index /\ Pow2[0] = 1
    BY Pow2Steps, DepthAssumption DEF Level, Index
  <2> QED BY <2>1, Pow2Steps DEF Below, Index
<1>2. t[p] = Leaf(old)
  BY NodesSteps
<1>3. Nodes([t EXCEPT ![p] = Leaf(new)])[0][p] = Leaf(new)
  <2> DEFINE u == [t EXCEPT ![p] = Leaf(new)]
  <2>1. u[p] = Leaf(new)
    BY <1>1 DEF IsTree
  <2> HIDE DEF u
  <2>2. Nodes(u)[0][p] = Leaf(new)
    BY <2>1, NodesSteps
  <2> QED BY <2>2 DEF u
<1> QED BY <1>1, <1>2, <1>3

(* One level up, with the same sibling on the side the bit says.           *)
LEMMA OpensAbove ==
  ASSUME NEW l \in 0 .. (Depth - 1), NEW x, NEW y, NEW node,
         NEW index \in 0 .. (Pow2[l] - 1), NEW old, NEW new,
         NEW bit \in {0, 1}, Opens(l, x, y, index, old, new)
  PROVE  Opens(l + 1, IF bit = 0 THEN Merge(x, node) ELSE Merge(node, x),
               IF bit = 0 THEN Merge(y, node) ELSE Merge(node, y),
               index + bit * Pow2[l], old, new)
<1> DEFINE X == IF bit = 0 THEN Merge(x, node) ELSE Merge(node, x)
           Y == IF bit = 0 THEN Merge(y, node) ELSE Merge(node, y)
           j == index + bit * Pow2[l]
<1> SUFFICES ASSUME NEW t, NEW p \in Level(l + 1), IsTree(t),
                    X = Nodes(t)[l + 1][p]
             PROVE  LET i == Below(p, l + 1, j)
                    IN /\ t[i] = Leaf(old)
                       /\ Y = Nodes([t EXCEPT ![i] = Leaf(new)])[l + 1][p]
  BY DEF Opens
<1> DEFINE q == 2 * p + bit
           i == Below(q, l, index)
           u == [t EXCEPT ![i] = Leaf(new)]
           L == Nodes(t)[l][2 * p]
           R == Nodes(t)[l][2 * p + 1]
<1>1. l \in 0 .. Depth /\ l \in Nat /\ p \in Int
  BY DepthAssumption DEF Level
<1>2. q \in Level(l) /\ 2 * p \in Level(l) /\ 2 * p + 1 \in Level(l)
  BY <1>1, Pairs
<1>3. Below(p, l + 1, j) = i
  <2> DEFINE d == Pow2[l]
  <2>1. Pow2[l + 1] = 2 * d /\ d \in Nat /\ index \in Int
    BY <1>1, Pow2Steps
  <2> HIDE DEF d
  <2>2. p * (2 * d) + (index + bit * d) = (2 * p + bit) * d + index
    <3>1. bit = 0 \/ bit = 1
      OBVIOUS
    <3>2. p * (2 * d) = (2 * p) * d /\ (2 * p) * d \in Int
      BY <1>1, <2>1
    <3>3. CASE bit = 0
      BY <1>1, <2>1, <3>2, <3>3
    <3>4. CASE bit = 1
      <4>1. (2 * p + 1) * d = (2 * p) * d + d
        BY <1>1, <2>1
      <4> QED BY <1>1, <2>1, <3>2, <3>4, <4>1
    <3> QED BY <3>1, <3>3, <3>4
  <2> QED BY <2>1, <2>2 DEF Below, d
<1>4. i \in Index /\ Above(i, l) = q
  BY <1>1, <1>2, BelowSteps
<1>5. X = Merge(L, R)
  BY NodeAbove
<1>6. IF bit = 0 THEN x = L /\ node = R ELSE node = L /\ x = R
  <2> HIDE DEF L, R
  <2>1. CASE bit = 0
    <3>1. Merge(x, node) = Merge(L, R)
      BY <1>5, <2>1
    <3>2. x = L /\ node = R
      BY <3>1, MergeInjective
    <3> QED BY <2>1, <3>2
  <2>2. CASE bit = 1
    <3>1. Merge(node, x) = Merge(L, R)
      BY <1>5, <2>2
    <3>2. node = L /\ x = R
      BY <3>1, MergeInjective
    <3> QED BY <2>2, <3>2
  <2> QED BY <2>1, <2>2
<1>7. x = Nodes(t)[l][q]
  <2>1. CASE bit = 0
    <3>1. q = 2 * p
      BY <1>1, <2>1
    <3> QED BY <1>6, <2>1, <3>1
  <2>2. CASE bit = 1
    <3>1. q = 2 * p + 1
      BY <2>2
    <3> QED BY <1>6, <2>2, <3>1
  <2> QED BY <2>1, <2>2
<1>8. t[i] = Leaf(old) /\ y = Nodes(u)[l][q]
  <2> HIDE DEF q
  <2> QED BY <1>2, <1>7 DEF Opens
<1>9. \A r \in Level(l) : r # q => Nodes(u)[l][r] = Nodes(t)[l][r]
  <2>1. \A k \in Index \ {i} : u[k] = t[k]
    BY <1>4 DEF IsTree
  <2> HIDE DEF u, q, i
  <2>2. \A k \in 0 .. Depth : \A r \in Level(k) \ {Above(i, k)} :
          Nodes(u)[k][r] = Nodes(t)[k][r]
    BY <1>4, <2>1, NodesAgree
  <2> QED BY <1>1, <1>4, <2>2
<1>10. Nodes(u)[l + 1][p] = Merge(Nodes(u)[l][2 * p], Nodes(u)[l][2 * p + 1])
  <2> HIDE DEF u
  <2> QED BY NodeAbove
<1>11. Y = Nodes(u)[l + 1][p]
  <2>1. CASE bit = 0
    <3>1. q = 2 * p /\ 2 * p + 1 # q
      BY <1>1, <2>1
    <3>2. Nodes(u)[l][2 * p + 1] = node /\ Nodes(u)[l][2 * p] = y
      <4> HIDE DEF u, q
      <4> QED BY <1>2, <1>6, <1>8, <1>9, <2>1, <3>1
    <3> HIDE DEF u
    <3> QED BY <1>10, <2>1, <3>2
  <2>2. CASE bit = 1
    <3>1. q = 2 * p + 1 /\ 2 * p # q
      BY <1>1, <2>2
    <3>2. Nodes(u)[l][2 * p] = node /\ Nodes(u)[l][2 * p + 1] = y
      <4> HIDE DEF u, q
      <4> QED BY <1>2, <1>6, <1>8, <1>9, <2>2, <3>1
    <3> HIDE DEF u
    <3> QED BY <1>10, <2>2, <3>2
  <2> QED BY <2>1, <2>2
<1> QED BY <1>3, <1>8, <1>11

-----------------------------------------------------------------------------
(* A lane during the hashes: two states in the same round whose digests    *)
(* open the same leaf.                                                     *)
InRound(c, m) == c = [fst |-> c.fst, snd |-> c.snd, applied |-> Applied(m)]
Digest(c) == Merge(c.fst, c.snd)

Holding(lane, step, opened) ==
  /\ InRound(lane.old, step % Cycle) /\ InRound(lane.new, step % Cycle)
  /\ Opens(step \div Cycle, Digest(lane.old), Digest(lane.new),
           opened.index, opened.old, opened.new)

OpeningAt(step) ==
  [index : 0 .. (Pow2[step \div Cycle] - 1), old : Value, new : Value]

(* Rounds keep what a state is the hash of, and after the last one its     *)
(* first half is that hash.                                                *)
LEMMA RoundDigest ==
  /\ \A c : InRound(c, Rounds) => First(c) = Digest(c)
  /\ \A c, step : InRound(c, step % Cycle) /\ step \in Nat =>
       /\ InRound(ApplyRound(c, step), (step % Cycle) + 1)
       /\ Digest(ApplyRound(c, step)) = Digest(c)
  /\ \A a, b : InRound(Fresh(a, b), 0) /\ Digest(Fresh(a, b)) = Merge(a, b)
<1>1. ASSUME NEW c, InRound(c, Rounds) PROVE First(c) = Digest(c)
  <2>1. c = [fst |-> c.fst, snd |-> c.snd, applied |-> Applied(Rounds)]
        /\ Applied(Rounds) # <<>>
    BY <1>1, AppliedSteps, CycleAssumption DEF InRound
  <2>2. c.applied = Applied(Rounds)
    BY <2>1
  <2>3. First(c) = [half |-> c]
    BY <2>1, <2>2 DEF First
  <2> QED BY <2>1, <2>3, MergeTerm DEF Digest
<1>2. ASSUME NEW c, NEW step \in Nat, InRound(c, step % Cycle)
      PROVE  /\ InRound(ApplyRound(c, step), (step % Cycle) + 1)
             /\ Digest(ApplyRound(c, step)) = Digest(c)
  <2> DEFINE m == step % Cycle
  <2>1. m \in Nat /\ Append(Applied(m), m) = Applied(m + 1)
    <3>1. m \in Nat
      BY HashSteps
    <3> HIDE DEF m
    <3> QED BY <3>1, AppliedSteps
  <2>2. c = [fst |-> c.fst, snd |-> c.snd, applied |-> Applied(m)]
    BY <1>2 DEF InRound
  <2>3. ApplyRound(c, step) = [c EXCEPT !.applied = Append(@, m)]
    BY DEF ApplyRound
  <2> HIDE DEF m
  <2>4. ApplyRound(c, step) = [fst |-> c.fst, snd |-> c.snd, applied |-> Applied(m + 1)]
    <3> DEFINE a == c.fst
               b == c.snd
               e == Applied(m)
    <3>1. c = [fst |-> a, snd |-> b, applied |-> e]
          /\ ApplyRound(c, step) = [c EXCEPT !.applied = Append(@, m)]
      BY <2>2, <2>3
    <3> HIDE DEF a, b, e, ApplyRound
    <3>2. ApplyRound(c, step) = [fst |-> a, snd |-> b, applied |-> Append(e, m)]
      BY <3>1
    <3> QED BY <2>1, <3>2 DEF a, b, e
  <2> QED BY <2>4 DEF InRound, Digest, m
<1>3. \A a, b : InRound(Fresh(a, b), 0) /\ Digest(Fresh(a, b)) = Merge(a, b)
  BY AppliedSteps DEF InRound, Digest, Fresh
<1> QED BY <1>1, <1>2, <1>3

(* One row of the hashes takes a lane on, whatever the prover writes.      *)
LEMMA LaneClimbs ==
  ASSUME row \in Nat, Step < HashLength, NEW lane,
         NEW opened \in OpeningAt(Step), Holding(lane, Step, opened),
         NEW next \in WrittenLane(lane)
  PROVE  /\ Holding(next, Step + 1, Climb(opened, next))
         /\ Climb(opened, next) \in OpeningAt(Step + 1)
         /\ Climb(opened, next).old = opened.old
         /\ Climb(opened, next).new = opened.new
<1>1. /\ Step \in 0 .. (HashLength - 1) /\ Step \in Nat
      /\ row % Cycle = Step % Cycle
      /\ Step \div Cycle \in 0 .. Depth /\ Step % Cycle \in 0 .. Rounds
  <2>1. Step \in 0 .. (TxLength - 1) /\ row % Cycle = Step % Cycle
    BY MaskSteps DEF Step
  <2>2. Step \in 0 .. (HashLength - 1)
    BY <2>1, LengthSteps
  <2> QED BY <2>1, <2>2, HashSteps
<1>2. /\ next \in [old : Written(lane.old), bit : IF InputMask(row) THEN Bits ELSE {0},
                   new : Written(lane.new)]
      /\ LaneHolds(row, lane, next)
  BY DEF WrittenLane
<1>3. HashingMask(row) /\ next.bit \in {0, 1}
  <2>1. HashingMask(row)
    BY DEF HashingMask, Step
  <2> QED BY <1>2, <2>1 DEF LaneHolds, IsBinary
<1>4. opened = [index |-> opened.index, old |-> opened.old, new |-> opened.new]
      /\ opened.index \in 0 .. (Pow2[Step \div Cycle] - 1)
      /\ opened.old \in Value /\ opened.new \in Value
  BY DEF OpeningAt
<1>5. InRound(lane.old, Step % Cycle) /\ InRound(lane.new, Step % Cycle)
      /\ Opens(Step \div Cycle, Digest(lane.old), Digest(lane.new),
               opened.index, opened.old, opened.new)
  BY DEF Holding
<1>6. CASE Step % Cycle < Rounds
  <2>1. RoundMask(row) /\ ~InputMask(row)
    <3>1. RoundMask(row)
      BY <1>3, <1>6 DEF RoundMask, Step
    <3>2. row % Cycle # Cycle - 1
      BY <1>1, <1>6, HashSteps
    <3> QED BY <3>1, <3>2 DEF InputMask
  <2>2. next.old = ApplyRound(lane.old, row) /\ next.new = ApplyRound(lane.new, row)
    BY <1>2, <2>1 DEF LaneHolds, RoundHolds
  <2>3. (Step + 1) \div Cycle = Step \div Cycle /\ (Step + 1) % Cycle = (Step % Cycle) + 1
    <3>1. Step % Cycle # Cycle - 1
      BY <1>6, HashSteps
    <3> QED BY <1>1, <3>1, HashSteps, CycleSteps
  <2>4. Climb(opened, next) = opened
    BY <2>1 DEF Climb
  <2>5. /\ InRound(next.old, (Step % Cycle) + 1) /\ Digest(next.old) = Digest(lane.old)
        /\ InRound(next.new, (Step % Cycle) + 1) /\ Digest(next.new) = Digest(lane.new)
    <3>1. /\ InRound(lane.old, row % Cycle) /\ InRound(lane.new, row % Cycle)
      BY <1>1, <1>5
    <3>2. /\ InRound(next.old, (row % Cycle) + 1) /\ Digest(next.old) = Digest(lane.old)
          /\ InRound(next.new, (row % Cycle) + 1) /\ Digest(next.new) = Digest(lane.new)
      BY <2>2, <3>1, RoundDigest
    <3> QED BY <1>1, <3>2
  <2>6. Holding(next, Step + 1, opened)
    BY <1>5, <2>3, <2>5 DEF Holding
  <2>7. opened \in OpeningAt(Step + 1)
    BY <1>4, <2>3 DEF OpeningAt
  <2> QED BY <2>4, <2>6, <2>7
<1>7. CASE ~(Step % Cycle < Rounds)
  <2> DEFINE l == Step \div Cycle
             bit == next.bit
             index == opened.index + bit * Pow2[l]
  <2>1. Step % Cycle = Rounds /\ l \in 0 .. (Depth - 1)
    BY <1>1, <1>7, HashSteps
  <2>2. InputMask(row) /\ ~RoundMask(row)
    <3>1. row % Cycle = Cycle - 1
      BY <1>1, <2>1, HashSteps
    <3> QED BY <1>7, <3>1 DEF InputMask, RoundMask, Step
  <2>3. (Step + 1) \div Cycle = l + 1 /\ (Step + 1) % Cycle = 0
    <3>1. Step % Cycle = Cycle - 1
      BY <2>1, HashSteps
    <3> QED BY <1>1, <3>1, HashSteps, CycleSteps
  <2>4. First(lane.old) = Digest(lane.old) /\ First(lane.new) = Digest(lane.new)
    BY <1>5, <2>1, RoundDigest
  <2>5. /\ InsertHolds(bit, lane.old, next.old) /\ InsertHolds(bit, lane.new, next.new)
        /\ SameSibling(next)
    BY <1>2, <1>3, <2>2 DEF LaneHolds
  <2>6. /\ \E a, b : next.old = Fresh(a, b)
        /\ \E a, b : next.new = Fresh(a, b)
    BY <1>2, <2>2 DEF Written
  <2>7. PICK a, b : next.old = Fresh(a, b)
    BY <2>6
  <2>8. PICK c, d : next.new = Fresh(c, d)
    BY <2>6
  <2>9. /\ First(next.old) = a /\ Second(next.old) = b
        /\ First(next.new) = c /\ Second(next.new) = d
    BY <2>7, <2>8 DEF First, Second, Fresh
  <2>10. /\ IF bit = 0 THEN a = Digest(lane.old) ELSE b = Digest(lane.old)
         /\ IF bit = 0 THEN c = Digest(lane.new) ELSE d = Digest(lane.new)
         /\ IF bit = 0 THEN b = d ELSE a = c
    BY <2>4, <2>5, <2>9 DEF InsertHolds, SameSibling
  <2>11. Digest(next.old) = Merge(a, b) /\ Digest(next.new) = Merge(c, d)
         /\ InRound(next.old, 0) /\ InRound(next.new, 0)
    BY <2>7, <2>8, RoundDigest
  <2>12. Opens(l + 1, Digest(next.old), Digest(next.new), index,
               opened.old, opened.new)
    <3> DEFINE node == IF bit = 0 THEN b ELSE a
               x == Digest(lane.old)
               y == Digest(lane.new)
    <3>1. /\ Digest(next.old) = IF bit = 0 THEN Merge(x, node) ELSE Merge(node, x)
          /\ Digest(next.new) = IF bit = 0 THEN Merge(y, node) ELSE Merge(node, y)
      BY <2>10, <2>11
    <3>2. Opens(l, x, y, opened.index, opened.old, opened.new)
      BY <1>5
    <3> HIDE DEF node, x, y, l, bit
    <3>3. Opens(l + 1, IF bit = 0 THEN Merge(x, node) ELSE Merge(node, x),
                IF bit = 0 THEN Merge(y, node) ELSE Merge(node, y),
                index, opened.old, opened.new)
      <4>1. bit \in {0, 1} /\ opened.index \in 0 .. (Pow2[l] - 1)
        BY <1>3, <1>4 DEF bit, l
      <4> QED BY <2>1, <3>2, <4>1, OpensAbove
    <3> QED BY <3>1, <3>3
  <2>13. Climb(opened, next) =
           [index |-> index, old |-> opened.old, new |-> opened.new]
    <3>1. Climb(opened, next) = [opened EXCEPT !.index = @ + bit * Pow2[l]]
      BY <2>2 DEF Climb
    <3> HIDE DEF bit, l
    <3> QED BY <1>4, <3>1
  <2>14. index \in 0 .. (Pow2[l + 1] - 1)
    <3> DEFINE d2 == Pow2[l]
    <3>1. Pow2[l + 1] = 2 * d2 /\ d2 \in Nat
      BY <2>1, Pow2Steps
    <3>2. opened.index \in 0 .. (d2 - 1) /\ (bit = 0 \/ bit = 1)
      BY <1>3, <1>4
    <3> HIDE DEF d2, bit, l
    <3>3. opened.index + bit * d2 \in 0 .. (2 * d2 - 1)
      BY <3>1, <3>2
    <3> QED BY <3>1, <3>3 DEF d2
  <2> HIDE DEF index, bit, l
  <2>15. Holding(next, Step + 1, Climb(opened, next))
    BY <2>3, <2>11, <2>12, <2>13 DEF Holding
  <2>16. Climb(opened, next) \in OpeningAt(Step + 1)
    BY <1>4, <2>3, <2>13, <2>14 DEF OpeningAt
  <2> QED BY <2>13, <2>15, <2>16
<1> QED BY <1>6, <1>7

-----------------------------------------------------------------------------
(* What the row a transaction starts on is held to, and what it means.     *)
Related(s, r) ==
  /\ s.old.pkey = s.new.pkey /\ r.old.pkey = r.new.pkey
  /\ r.old.nonce = r.new.nonce
  /\ (s.old.balance - s.new.balance) % P = (r.new.balance - r.old.balance) % P
  /\ s.new.nonce = (s.old.nonce + 1) % P

(* On its first row a transaction moves one amount between two values.     *)
LEMMA SetupRelates ==
  ASSUME NEW s, NEW r, NEW cur, SetupHolds(cur),
         cur.s.old = Load(s.old), cur.s.new = Load(s.new),
         cur.r.old = Load(r.old), cur.r.new = Load(r.new)
  PROVE  Related(s, r)
<1>1. \A v : /\ Load(v).snd.highKey = v.pkey /\ Load(v).snd.balance = v.balance
             /\ Load(v).snd.nonce = v.nonce
  BY DEF Load, Fresh
<1>2. /\ cur.s.old.snd.highKey = s.old.pkey /\ cur.s.new.snd.highKey = s.new.pkey
      /\ cur.r.old.snd.highKey = r.old.pkey /\ cur.r.new.snd.highKey = r.new.pkey
      /\ cur.s.old.snd.balance = s.old.balance
      /\ cur.s.new.snd.balance = s.new.balance
      /\ cur.r.old.snd.balance = r.old.balance
      /\ cur.r.new.snd.balance = r.new.balance
      /\ cur.s.old.snd.nonce = s.old.nonce /\ cur.s.new.snd.nonce = s.new.nonce
      /\ cur.r.old.snd.nonce = r.old.nonce /\ cur.r.new.snd.nonce = r.new.nonce
  BY <1>1
<1> QED BY <1>2 DEF SetupHolds, Related

(* Adding and subtracting a difference modulo P.                           *)
LEMMA FieldDifference ==
  ASSUME NEW x \in Field, NEW y \in Field
  PROVE  /\ (x - y) % P \in Field
         /\ (x - ((x - y) % P)) % P = y /\ (y + ((x - y) % P)) % P = x
<1>1. P \in Nat /\ P > 1 /\ x \in 0 .. (P - 1) /\ y \in 0 .. (P - 1)
  BY FieldAssumption DEF Field
<1> DEFINE d == (x - y) % P
<1>2. d \in 0 .. (P - 1) /\ (d = x - y \/ d = x - y + P)
  <2>1. CASE x >= y
    BY <1>1, <2>1
  <2>2. CASE x < y
    <3> DEFINE j == x - y
               q == -1
               r == x - y + P
    <3>1. j = P * q + r /\ q \in Int /\ r \in 0 .. (P - 1)
      BY <1>1, <2>2
    <3>2. j % P = r
      <4> HIDE DEF j, q, r
      <4> QED BY <1>1, <3>1
    <3> QED BY <1>1, <3>1, <3>2
  <2> QED BY <1>1, <2>1, <2>2
<1> HIDE DEF d
<1>3. (x - d) % P = y
  <2>1. CASE d = x - y
    BY <1>1, <2>1
  <2>2. CASE d = x - y + P
    <3> DEFINE j == x - d
               q == -1
    <3>1. j = P * q + y /\ q \in Int
      BY <1>1, <2>2
    <3>2. j % P = y
      <4> HIDE DEF j, q
      <4> QED BY <1>1, <3>1
    <3> QED BY <3>2
  <2> QED BY <1>2, <2>1, <2>2
<1>4. (y + d) % P = x
  <2>1. CASE d = x - y
    BY <1>1, <2>1
  <2>2. CASE d = x - y + P
    <3> DEFINE j == y + d
               q == 1
    <3>1. j = P * q + x /\ q \in Int
      BY <1>1, <2>2
    <3>2. j % P = x
      <4> HIDE DEF j, q
      <4> QED BY <1>1, <3>1
    <3> QED BY <3>2
  <2> QED BY <1>2, <2>1, <2>2
<1> QED BY <1>2, <1>3, <1>4 DEF d, Field

(* Values related by the setup constraints are a debit and a credit of one *)
(* amount (merkle/update/air.rs 83-134).                                   *)
LEMMA RelatedTransfers ==
  ASSUME NEW s, NEW r, IsValue(s.old), IsValue(s.new), IsValue(r.old),
         IsValue(r.new), Related(s, r)
  PROVE  \E d \in Field : s.new = Debit(s.old, d) /\ r.new = Credit(r.old, d)
<1> DEFINE so == s.old
           sn == s.new
           ro == r.old
           rn == r.new
           d == (so.balance - sn.balance) % P
<1>1. /\ so.balance \in Field /\ sn.balance \in Field /\ ro.balance \in Field
      /\ rn.balance \in Field
      /\ sn = [pkey |-> sn.pkey, balance |-> sn.balance, nonce |-> sn.nonce]
      /\ rn = [pkey |-> rn.pkey, balance |-> rn.balance, nonce |-> rn.nonce]
  BY DEF IsValue
<1>2. d = (rn.balance - ro.balance) % P
  BY DEF Related
<1>3. d \in Field /\ (so.balance - d) % P = sn.balance
  BY <1>1, FieldDifference
<1>4. (ro.balance + d) % P = rn.balance
  <2> DEFINE e == (rn.balance - ro.balance) % P
  <2>1. (ro.balance + e) % P = rn.balance
    BY <1>1, FieldDifference
  <2> HIDE DEF d, e
  <2> QED BY <1>2, <2>1 DEF e
<1> HIDE DEF d
<1>5. /\ IsValue(Debit(so, d)) /\ Debit(so, d).pkey = so.pkey
      /\ Debit(so, d).balance = (so.balance - d) % P
      /\ Debit(so, d).nonce = (so.nonce + 1) % P
  BY <1>3, DebitIsValue
<1>6. /\ IsValue(Credit(ro, d)) /\ Credit(ro, d).pkey = ro.pkey
      /\ Credit(ro, d).balance = (ro.balance + d) % P
      /\ Credit(ro, d).nonce = ro.nonce
  BY <1>3, CreditIsValue
<1>7. \A v, w : IsValue(v) /\ IsValue(w) /\ v.pkey = w.pkey
                /\ v.balance = w.balance /\ v.nonce = w.nonce => v = w
  BY DEF IsValue
<1>8. sn.pkey = so.pkey /\ sn.nonce = (so.nonce + 1) % P
      /\ rn.pkey = ro.pkey /\ rn.nonce = ro.nonce
  BY DEF Related
<1> HIDE DEF so, sn, ro, rn
<1>9. IsValue(sn) /\ IsValue(rn)
  BY DEF sn, rn
<1>10. sn = Debit(so, d)
  BY <1>3, <1>5, <1>7, <1>8, <1>9
<1>11. rn = Credit(ro, d)
  BY <1>4, <1>6, <1>7, <1>8, <1>9
<1> QED BY <1>3, <1>10, <1>11 DEF so, sn, ro, rn

-----------------------------------------------------------------------------
(* The inductive invariant.                                                *)
Reached(step) == IF step < HashLength THEN step ELSE HashLength

AirInv ==
  /\ row \in Rows
  /\ tree \in [Index -> Value]
  /\ sender \in OpeningAt(Reached(Step))
  /\ receiver \in OpeningAt(Reached(Step))
  /\ regs.root = Root(Committed(tree))
  /\ Step = 0 => /\ regs.s.old = Load(sender.old)
                 /\ regs.s.new = Load(sender.new)
                 /\ regs.r.old = Load(receiver.old)
                 /\ regs.r.new = Load(receiver.new)
  /\ Step < HashLength => /\ Holding(regs.s, Step, sender)
                          /\ Holding(regs.r, Step, receiver)
  /\ Step # 0 => Related(sender, receiver)

(* A claim opens itself.                                                   *)
LEMMA ClaimHolds ==
  ASSUME NEW o \in Claimed
  PROVE  /\ o \in OpeningAt(0)
         /\ Holding([old |-> Load(o.old), bit |-> 0, new |-> Load(o.new)], 0, o)
<1>1. /\ o = [index |-> o.index, old |-> o.old, new |-> o.new]
      /\ o.index = 0 /\ o.old \in Value /\ o.new \in Value
  BY DEF Claimed
<1>2. 0 \div Cycle = 0 /\ 0 % Cycle = 0
  BY HashSteps
<1>3. o \in OpeningAt(0)
  <2>1. 0 \in 0 .. (Pow2[0] - 1)
    BY Pow2Steps
  <2> QED BY <1>1, <1>2, <2>1 DEF OpeningAt
<1>4. \A v : InRound(Load(v), 0) /\ Digest(Load(v)) = Leaf(v)
  BY RoundDigest DEF Load, Leaf, Fresh
<1>5. Opens(0, Leaf(o.old), Leaf(o.new), 0, o.old, o.new)
  BY OpensLeaf
<1> QED BY <1>1, <1>2, <1>3, <1>4, <1>5 DEF Holding

(* The first row.                                                          *)
LEMMA AirInvInit == AirInit => AirInv
<1> SUFFICES ASSUME AirInit PROVE AirInv
  OBVIOUS
<1>1. row = 0 /\ Step = 0 /\ row \in Rows /\ Reached(0) = 0 /\ 0 < HashLength
  <2>1. NumTx * TxLength - 1 >= 0 /\ NumTx * TxLength \in Nat
    <3>1. NumTx \in Nat /\ NumTx >= 1 /\ TxLength \in Nat /\ TxLength >= 1
      BY LengthSteps, BatchAssumption
    <3>2. NumTx * TxLength = TxLength + (NumTx - 1) * TxLength
          /\ (NumTx - 1) * TxLength >= 0
      BY <3>1
    <3> QED BY <3>1, <3>2
  <2> QED BY <2>1, LengthSteps DEF AirInit, Step, Rows, Reached
<1>2. tree \in [Index -> Value] /\ sender \in Claimed /\ receiver \in Claimed
      /\ regs = Claim(sender, receiver, Root(Committed(tree)))
  BY TreesAssumption DEF AirInit
<1>3. /\ regs.s = [old |-> Load(sender.old), bit |-> 0, new |-> Load(sender.new)]
      /\ regs.r = [old |-> Load(receiver.old), bit |-> 0, new |-> Load(receiver.new)]
      /\ regs.root = Root(Committed(tree))
  BY <1>2 DEF Claim
<1> QED BY <1>1, <1>2, <1>3, ClaimHolds DEF AirInv

(* The values under a root that opens: the account was in the tree, and    *)
(* the new digest is the root of the tree with the new value.              *)
LEMMA OpensRoot ==
  ASSUME NEW t, IsTree(t), NEW o \in OpeningAt(HashLength), NEW lane,
         Holding(lane, HashLength, o), First(lane.old) = Root(t)
  PROVE  /\ o.index \in Index /\ t[o.index] = Leaf(o.old)
         /\ First(lane.new) = Root([t EXCEPT ![o.index] = Leaf(o.new)])
<1>1. HashLength \div Cycle = Depth /\ HashLength % Cycle = Rounds
  BY HashSteps
<1>2. o.index \in Index
  BY <1>1 DEF OpeningAt, Index
<1>3. 0 \in Level(Depth) /\ Below(0, Depth, o.index) = o.index
  <2>1. Depth - Depth = 0 /\ Pow2[0] = 1 /\ Pow2[Depth] \in Nat
    BY DepthAssumption, Pow2Steps
  <2> QED BY <1>2, <2>1 DEF Level, Below, Index
<1>4. First(lane.old) = Digest(lane.old) /\ First(lane.new) = Digest(lane.new)
  BY <1>1, RoundDigest DEF Holding
<1>5. Opens(Depth, First(lane.old), First(lane.new), o.index, o.old, o.new)
  BY <1>1, <1>4 DEF Holding
<1>6. First(lane.old) = Nodes(t)[Depth][0]
  BY DEF Root
<1>7. t[o.index] = Leaf(o.old)
      /\ First(lane.new) = Nodes([t EXCEPT ![o.index] = Leaf(o.new)])[Depth][0]
  <2> DEFINE i == Below(0, Depth, o.index)
  <2>1. t[i] = Leaf(o.old)
        /\ First(lane.new) = Nodes([t EXCEPT ![i] = Leaf(o.new)])[Depth][0]
    BY <1>3, <1>5, <1>6 DEF Opens
  <2> HIDE DEF i
  <2>2. i = o.index
    BY <1>3 DEF i
  <2> QED BY <2>1, <2>2
<1> QED BY <1>2, <1>7 DEF Root

(* The last row of the hashes: both openings are of the tree, the second   *)
(* of what the first one made of it.                                       *)
Transferred(s, r, d) == LET debited == [tree EXCEPT ![s] = Debit(@, d)]
                        IN [debited EXCEPT ![r] = Credit(@, d)]

(* On the last row of the hashes the old digests are nodes of the tree     *)
(* before, so that the new ones are those of the tree after a transfer.    *)
LEMMA FinishTransfers ==
  ASSUME AirInv, HashRow, FinishMask(row)
  PROVE  /\ regs'.root = Root(Committed(tree')) /\ tree' \in [Index -> Value]
         /\ \E s, r \in Index, d \in Field : tree' = Transferred(s, r, d)
<1> DEFINE next == regs'
           T == Committed(tree)
           mid == [tree EXCEPT ![sender.index] = sender.new]
<1>1. /\ row \in Nat /\ Step = HashLength - 1 /\ Step + 1 = HashLength
      /\ Step < HashLength /\ Step # 0 /\ Reached(Step) = Step
      /\ HashLength \in Nat
  <2>1. row \in Nat
    BY DEF AirInv, Rows
  <2> QED BY <2>1, LengthSteps DEF FinishMask, Step, Reached
<1>2. /\ next.s \in WrittenLane(regs.s) /\ next.r \in WrittenLane(regs.r)
      /\ TransitionHolds(row, regs, next)
      /\ sender' = Climb(sender, next.s) /\ receiver' = Climb(receiver, next.r)
      /\ tree' = [tree EXCEPT ![sender.index] = sender.new,
                              ![receiver.index] = receiver.new]
  <2>1. PICK s \in WrittenLane(regs.s), r \in WrittenLane(regs.r) :
          \E root \in {regs.root, First(r.new)} :
            regs' = [s |-> s, r |-> r, root |-> root]
    BY DEF HashRow
  <2>2. next.s = s /\ next.r = r
    BY <2>1
  <2> QED BY <2>2 DEF HashRow
<1>3. /\ sender \in OpeningAt(Step) /\ receiver \in OpeningAt(Step)
      /\ Holding(regs.s, Step, sender) /\ Holding(regs.r, Step, receiver)
      /\ Related(sender, receiver) /\ regs.root = Root(T) /\ tree \in [Index -> Value]
  BY <1>1 DEF AirInv
<1>4. Step % Cycle = Rounds - 1 /\ ~InputMask(row) /\ RoundMask(row)
      /\ row % Cycle = Rounds - 1
  <2>1. Step % Cycle = Rounds - 1
    <3> DEFINE k == HashLength - 1
               e == Rounds - 1
    <3>1. /\ k = Cycle * Depth + e /\ e \in 0 .. (Cycle - 1)
          /\ Cycle \in Nat \ {0} /\ Depth \in Int
      <4>1. Cycle * Depth \in Nat
        BY HashSteps, DepthAssumption
      <4> QED BY <4>1, HashSteps, CycleAssumption, DepthAssumption DEF HashLength
    <3> HIDE DEF k, e
    <3>2. k % Cycle = e
      BY <3>1
    <3> QED BY <1>1, <3>2 DEF k, e
  <2>2. row % Cycle = Step % Cycle
    BY <1>1, MaskSteps DEF Step
  <2>3. Rounds - 1 # Cycle - 1 /\ Rounds - 1 < Rounds
    BY HashSteps, CycleAssumption
  <2> QED BY <1>1, <2>1, <2>2, <2>3 DEF InputMask, RoundMask, HashingMask, Step
<1>5. Climb(sender, next.s) = sender /\ Climb(receiver, next.r) = receiver
  BY <1>4 DEF Climb
<1>6. /\ Holding(next.s, HashLength, sender) /\ Holding(next.r, HashLength, receiver)
      /\ sender \in OpeningAt(HashLength) /\ receiver \in OpeningAt(HashLength)
  <2>1. /\ Holding(next.s, Step + 1, Climb(sender, next.s))
        /\ Climb(sender, next.s) \in OpeningAt(Step + 1)
    BY <1>1, <1>2, <1>3, LaneClimbs
  <2>2. /\ Holding(next.r, Step + 1, Climb(receiver, next.r))
        /\ Climb(receiver, next.r) \in OpeningAt(Step + 1)
    BY <1>1, <1>2, <1>3, LaneClimbs
  <2> QED BY <1>1, <1>5, <2>1, <2>2
<1>7. /\ next.root = First(next.r.new) /\ First(regs.s.new) = First(regs.r.old)
      /\ First(next.s.old) = regs.root
  <2>1. RootHolds(row, regs, next)
    BY <1>2 DEF TransitionHolds
  <2> QED BY <2>1 DEF RootHolds
<1>8. First(next.s.new) = First(next.r.old)
  <2>1. /\ next.s.new = ApplyRound(regs.s.new, row)
        /\ next.r.old = ApplyRound(regs.r.old, row)
    BY <1>2, <1>4 DEF WrittenLane, LaneHolds, RoundHolds
  <2>2. /\ InRound(regs.s.new, Rounds - 1) /\ InRound(regs.r.old, Rounds - 1)
    BY <1>3, <1>4 DEF Holding
  <2>3. Digest(next.s.new) = Digest(regs.s.new)
        /\ Digest(next.r.old) = Digest(regs.r.old)
    BY <1>1, <1>4, <2>1, <2>2, RoundDigest
  <2>4. Digest(regs.s.new) = Digest(regs.r.old)
    <3> DEFINE a == regs.s.new
               b == regs.r.old
               e == Applied(Rounds - 1)
    <3>1. /\ a = [fst |-> a.fst, snd |-> a.snd, applied |-> e]
          /\ b = [fst |-> b.fst, snd |-> b.snd, applied |-> e]
      BY <2>2 DEF InRound
    <3>2. e # <<>>
      <4>1. Rounds - 1 \in Nat /\ Rounds - 1 > 0
        BY CycleAssumption
      <4> QED BY <4>1, AppliedSteps
    <3>3. First(a) = First(b)
      BY <1>7
    <3> HIDE DEF a, b, e
    <3>4. a.applied = e /\ b.applied = e
      BY <3>1
    <3>5. [half |-> a] = [half |-> b]
      BY <3>2, <3>3, <3>4 DEF First
    <3>6. [half |-> a].half = [half |-> b].half
      BY <3>5
    <3>7. a = b
      BY <3>6
    <3> QED BY <3>7 DEF a, b
  <2>5. /\ First(next.s.new) = Digest(next.s.new)
        /\ First(next.r.old) = Digest(next.r.old)
    <3>1. InRound(next.s.new, Rounds) /\ InRound(next.r.old, Rounds)
      BY <1>6, HashSteps DEF Holding
    <3> QED BY <3>1, RoundDigest
  <2> QED BY <2>3, <2>4, <2>5
<1> HIDE DEF next
<1>9. /\ sender.old \in Value /\ sender.new \in Value
      /\ receiver.old \in Value /\ receiver.new \in Value
  BY <1>3 DEF OpeningAt
<1>10. /\ sender.index \in Index /\ T[sender.index] = Leaf(sender.old)
       /\ First(next.s.new) = Root([T EXCEPT ![sender.index] = Leaf(sender.new)])
  <2>1. IsTree(T) /\ First(next.s.old) = Root(T)
    BY <1>3, <1>7 DEF IsTree, Committed
  <2> HIDE DEF T
  <2> QED BY <1>6, <2>1, OpensRoot
<1>11. [T EXCEPT ![sender.index] = Leaf(sender.new)] = Committed(mid)
  BY <1>3, <1>10 DEF Committed
<1>12. /\ receiver.index \in Index /\ Committed(mid)[receiver.index] = Leaf(receiver.old)
       /\ First(next.r.new) =
            Root([Committed(mid) EXCEPT ![receiver.index] = Leaf(receiver.new)])
  <2>1. IsTree(Committed(mid)) /\ First(next.r.old) = Root(Committed(mid))
    <3>1. First(next.r.old) = Root(Committed(mid))
      BY <1>8, <1>10, <1>11
    <3> QED BY <3>1 DEF IsTree, Committed
  <2> HIDE DEF mid
  <2> QED BY <1>6, <2>1, OpensRoot
<1>13. tree' = [mid EXCEPT ![receiver.index] = receiver.new]
  BY <1>2
<1>14. mid \in [Index -> Value] /\ tree' \in [Index -> Value]
  BY <1>3, <1>9, <1>13
<1>15. [Committed(mid) EXCEPT ![receiver.index] = Leaf(receiver.new)] = Committed(tree')
  <2> HIDE DEF mid
  <2> QED BY <1>12, <1>13, <1>14 DEF Committed
<1>16. tree[sender.index] = sender.old /\ mid[receiver.index] = receiver.old
  <2>1. Leaf(tree[sender.index]) = Leaf(sender.old)
    BY <1>10 DEF Committed
  <2>2. Leaf(mid[receiver.index]) = Leaf(receiver.old)
    <3> HIDE DEF mid
    <3> QED BY <1>12 DEF Committed
  <2>3. IsValue(tree[sender.index]) /\ IsValue(sender.old)
        /\ IsValue(mid[receiver.index]) /\ IsValue(receiver.old)
    BY <1>3, <1>9, <1>10, <1>12, <1>14, ValueAssumption
  <2> HIDE DEF mid
  <2> QED BY <2>1, <2>2, <2>3, LeafInjective
<1>17. PICK d \in Field : sender.new = Debit(sender.old, d)
                          /\ receiver.new = Credit(receiver.old, d)
  BY <1>3, <1>9, ValueAssumption, RelatedTransfers
<1>18. tree' = Transferred(sender.index, receiver.index, d)
  <2>1. mid = [tree EXCEPT ![sender.index] = Debit(@, d)]
    BY <1>3, <1>10, <1>16, <1>17
  <2>2. tree' = [mid EXCEPT ![receiver.index] = Credit(@, d)]
    <3> HIDE DEF mid
    <3> QED BY <1>12, <1>13, <1>14, <1>16, <1>17
  <2> QED BY <2>1, <2>2 DEF Transferred
<1>19. next.root = Root(Committed(tree'))
  BY <1>7, <1>12, <1>15
<1> QED BY <1>10, <1>12, <1>14, <1>18, <1>19 DEF next

-----------------------------------------------------------------------------
(* Rows count in transactions.                                             *)
LEMMA RowSteps ==
  ASSUME row \in Nat
  PROVE  /\ Step \in 0 .. (TxLength - 1)
         /\ (row + 1) % TxLength = IF Step = TxLength - 1 THEN 0 ELSE Step + 1
<1>1. TxLength \in Nat \ {0}
  BY LengthSteps
<1> QED BY <1>1, CycleSteps, MaskSteps DEF Step

(* A row of the hashes keeps the invariant.                                *)
LEMMA HashRowKeepsInv ==
  ASSUME AirInv, HashRow
  PROVE  AirInv'
<1> DEFINE next == regs'
<1>1. /\ row \in Nat /\ Step \in Nat /\ Step < HashLength /\ Reached(Step) = Step
      /\ row' \in Rows /\ Step' = Step + 1 /\ Step' # 0
      /\ Reached(Step') = Step + 1 /\ HashLength \in Nat
  <2>1. row \in Nat /\ row' = row + 1 /\ row' \in Rows /\ Step < HashLength
    BY DEF AirInv, Rows, HashRow, Advance
  <2>2. Step \in 0 .. (TxLength - 1) /\ Step' = Step + 1
    BY <2>1, RowSteps, LengthSteps DEF Step
  <2> QED BY <2>1, <2>2, LengthSteps DEF Reached
<1>2. /\ next.s \in WrittenLane(regs.s) /\ next.r \in WrittenLane(regs.r)
      /\ TransitionHolds(row, regs, next)
      /\ sender' = Climb(sender, next.s) /\ receiver' = Climb(receiver, next.r)
      /\ ~FinishMask(row) => tree' = tree
  <2>1. PICK s \in WrittenLane(regs.s), r \in WrittenLane(regs.r) :
          \E root \in {regs.root, First(r.new)} :
            regs' = [s |-> s, r |-> r, root |-> root]
    BY DEF HashRow
  <2>2. next.s = s /\ next.r = r
    BY <2>1
  <2> QED BY <2>2 DEF HashRow
<1>3. /\ sender \in OpeningAt(Step) /\ receiver \in OpeningAt(Step)
      /\ Holding(regs.s, Step, sender) /\ Holding(regs.r, Step, receiver)
  BY <1>1 DEF AirInv
<1>4. /\ Holding(next.s, Step + 1, sender') /\ sender' \in OpeningAt(Step + 1)
      /\ sender'.old = sender.old /\ sender'.new = sender.new
  BY <1>1, <1>2, <1>3, LaneClimbs
<1>5. /\ Holding(next.r, Step + 1, receiver') /\ receiver' \in OpeningAt(Step + 1)
      /\ receiver'.old = receiver.old /\ receiver'.new = receiver.new
  BY <1>1, <1>2, <1>3, LaneClimbs
<1>6. Related(sender, receiver)
  <2>1. CASE Step = 0
    <3>1. SetupHolds(regs)
      BY <1>2, <2>1 DEF TransitionHolds, SetupMask, Step
    <3> QED BY <2>1, <3>1, SetupRelates DEF AirInv
  <2>2. CASE Step # 0
    BY <2>2 DEF AirInv
  <2> QED BY <2>1, <2>2
<1>7. Related(sender', receiver')
  BY <1>4, <1>5, <1>6 DEF Related
<1>8. next.root = Root(Committed(tree')) /\ tree' \in [Index -> Value]
  <2>1. CASE FinishMask(row)
    BY <2>1, FinishTransfers
  <2>2. CASE ~FinishMask(row)
    <3>1. next.root = regs.root
      BY <1>2, <2>2 DEF TransitionHolds, RootHolds
    <3> QED BY <1>2, <2>2, <3>1 DEF AirInv
  <2> QED BY <2>1, <2>2
<1> HIDE DEF next
<1>9. /\ row' \in Rows /\ tree' \in [Index -> Value]
      /\ sender' \in OpeningAt(Reached(Step')) /\ receiver' \in OpeningAt(Reached(Step'))
      /\ next.root = Root(Committed(tree')) /\ Step' # 0 /\ Related(sender', receiver')
      /\ Holding(next.s, Step', sender') /\ Holding(next.r, Step', receiver')
  BY <1>1, <1>4, <1>5, <1>7, <1>8
<1> QED BY <1>9 DEF AirInv, next

(* So does a row past the hashes, and it ends no transaction.              *)
LEMMA FreeRowKeepsInv ==
  ASSUME AirInv, FreeRow
  PROVE  AirInv' /\ ~FinishMask(row)
<1>1. /\ row \in Nat /\ row' \in Rows /\ Step \in HashLength .. (TxLength - 2)
      /\ TransitionHolds(row, regs, regs') /\ UNCHANGED <<tree, sender, receiver>>
      /\ row' = row + 1
  BY DEF AirInv, Rows, FreeRow, Advance
<1>2. /\ Step' = Step + 1 /\ Step' # 0 /\ ~(Step' < HashLength) /\ Step # 0
      /\ Reached(Step) = HashLength /\ Reached(Step') = HashLength
  <2>1. Step \in 0 .. (TxLength - 1) /\ Step' = Step + 1
    BY <1>1, RowSteps, LengthSteps DEF Step
  <2> QED BY <1>1, <2>1, LengthSteps DEF Reached
<1>3. ~FinishMask(row)
  BY <1>1, LengthSteps DEF FinishMask, Step
<1>4. regs'.root = regs.root
  BY <1>1, <1>3 DEF TransitionHolds, RootHolds
<1>5. Related(sender', receiver') /\ Committed(tree') = Committed(tree)
  BY <1>1, <1>2 DEF AirInv, Related, Committed
<1> QED BY <1>1, <1>2, <1>3, <1>4, <1>5 DEF AirInv

(* So does a row that starts a transaction, and it ends none.              *)
LEMMA StartRowKeepsInv ==
  ASSUME AirInv, StartRow
  PROVE  AirInv' /\ ~FinishMask(row)
<1>1. /\ row \in Nat /\ row' \in Rows /\ Step = TxLength - 1
      /\ TransitionHolds(row, regs, regs') /\ tree' = tree
      /\ row' = row + 1 /\ sender' \in Claimed /\ receiver' \in Claimed
  BY DEF AirInv, Rows, StartRow, Advance
<1>2. Step' = 0 /\ Reached(Step') = 0
  <2>1. Step' = 0
    BY <1>1, RowSteps DEF Step
  <2> QED BY <2>1, LengthSteps DEF Reached
<1>3. ~FinishMask(row)
  BY <1>1, LengthSteps DEF FinishMask, Step
<1>4. PICK root : regs' = Claim(sender', receiver', root)
  BY DEF StartRow
<1>5. /\ regs'.s = [old |-> Load(sender'.old), bit |-> 0, new |-> Load(sender'.new)]
      /\ regs'.r = [old |-> Load(receiver'.old), bit |-> 0, new |-> Load(receiver'.new)]
  BY <1>4 DEF Claim
<1>6. regs'.root = Root(Committed(tree'))
  <2>1. regs'.root = regs.root
    BY <1>1, <1>3 DEF TransitionHolds, RootHolds
  <2> QED BY <1>1, <2>1 DEF AirInv, Committed
<1>7. /\ sender' \in OpeningAt(0) /\ Holding(regs'.s, 0, sender')
      /\ receiver' \in OpeningAt(0) /\ Holding(regs'.r, 0, receiver')
  BY <1>1, <1>5, ClaimHolds
<1>8. tree' \in [Index -> Value]
  BY <1>1 DEF AirInv
<1>9. /\ regs'.s.old = Load(sender'.old) /\ regs'.s.new = Load(sender'.new)
      /\ regs'.r.old = Load(receiver'.old) /\ regs'.r.new = Load(receiver'.new)
  BY <1>5
<1> QED BY <1>1, <1>2, <1>3, <1>6, <1>7, <1>8, <1>9 DEF AirInv

(* So does no row at all.                                                  *)
LEMMA StutterKeepsInv == AirInv /\ UNCHANGED airVars => AirInv'
BY DEF AirInv, airVars, Step, Related, Committed

(* Every step keeps the invariant.                                         *)
LEMMA AirInvNext == AirInv /\ [AirNext]_airVars => AirInv'
BY HashRowKeepsInv, FreeRowKeepsInv, StartRowKeepsInv, StutterKeepsInv DEF AirNext, Stop

(* The invariant holds of every trace that the constraints allow.          *)
LEMMA AirInvAlways == AirSpec => []AirInv
BY AirInvInit, AirInvNext, PTL DEF AirSpec

-----------------------------------------------------------------------------
(* An opening below a node is one of the whole tree.                       *)
LEMMA AirInvTyped == AirInv => AirTypeOK
<1> SUFFICES ASSUME AirInv PROVE AirTypeOK
  OBVIOUS
<1>1. OpeningAt(Reached(Step)) \subseteq Opening
  <2> DEFINE k == Reached(Step)
  <2>1. k \div Cycle \in 0 .. Depth
    <3>1. row \in Nat
      BY DEF AirInv, Rows
    <3>2. Step \in Nat
      BY <3>1, RowSteps
    <3>3. CASE Step < HashLength
      <4>1. k = Step /\ Step \in 0 .. (HashLength - 1)
        BY <3>2, <3>3, HashSteps DEF Reached
      <4> HIDE DEF k
      <4> QED BY <4>1, HashSteps
    <3>4. CASE ~(Step < HashLength)
      BY <3>4, HashSteps, DepthAssumption DEF Reached
    <3> QED BY <3>3, <3>4
  <2> DEFINE l == k \div Cycle
  <2>2. Pow2[l] <= Pow2[Depth] /\ Pow2[l] \in Nat /\ Pow2[Depth] \in Nat
    <3> HIDE DEF k
    <3> QED BY <2>1, Pow2Grows, Pow2Steps, DepthAssumption
  <2>3. 0 .. (Pow2[l] - 1) \subseteq Index
    <3> HIDE DEF l
    <3> QED BY <2>2 DEF Index
  <2> HIDE DEF k
  <2> QED BY <2>3 DEF OpeningAt, Opening, k
<1> QED BY <1>1 DEF AirInv, AirTypeOK

(* AirTypeOK for every prover: the ghosts read off the rows stay openings of  *)
(* accounts of the tree.                                                   *)
THEOREM AirTyped == AirSpec => []AirTypeOK
BY AirInvAlways, AirInvTyped, PTL

(* RootTracksTree for every prover: the root register never leaves the     *)
(* tree that the transfers so far made (merkle/update/air.rs 245-288).     *)
THEOREM RootAlwaysTracksTree == AirSpec => []RootTracksTree
<1>1. AirInv => RootTracksTree
  BY DEF AirInv, RootTracksTree
<1> QED BY <1>1, AirInvAlways, PTL

(* AttestsTransfer for every prover: a transaction whose rows obey the     *)
(* constraints moved one amount between two accounts of the tree.          *)
THEOREM TransfersAlwaysAttested == AirSpec => AttestsTransfer
<1> DEFINE Act == FinishMask(row) => \E s, r \in Index, d \in Field :
                                       LET debited == [tree EXCEPT ![s] = Debit(@, d)]
                                       IN tree' = [debited EXCEPT ![r] = Credit(@, d)]
<1>1. ASSUME AirInv, [AirNext]_airVars PROVE [Act]_airVars
  <2>1. CASE HashRow
    <3>1. ASSUME FinishMask(row)
          PROVE  \E s, r \in Index, d \in Field :
                   LET debited == [tree EXCEPT ![s] = Debit(@, d)]
                   IN tree' = [debited EXCEPT ![r] = Credit(@, d)]
      BY <1>1, <2>1, <3>1, FinishTransfers DEF Transferred
    <3> QED BY <3>1
  <2>2. CASE FreeRow
    BY <1>1, <2>2, FreeRowKeepsInv
  <2>3. CASE StartRow
    BY <1>1, <2>3, StartRowKeepsInv
  <2>4. CASE Stop \/ UNCHANGED airVars
    BY <2>4 DEF Stop
  <2> QED BY <1>1, <2>1, <2>2, <2>3, <2>4 DEF AirNext
<1> QED BY <1>1, AirInvAlways, PTL DEF AirSpec, AttestsTransfer
=============================================================================
