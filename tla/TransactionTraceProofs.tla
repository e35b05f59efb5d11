----------------------- MODULE TransactionTraceProofs -----------------------
(***************************************************************************)
(* Theorems about TransactionTrace, for every depth of the tree, length of *)
(* the range proofs, batch, and order the fragments are filled in.         *)
(***************************************************************************)
EXTENDS TransactionTrace, TransferBatchProofs

(* The lengths of the parts of a transaction.                              *)
LEMMA PartLengths ==
  /\ MerkleLength \in Nat /\ TxLength = 2 * MerkleLength
  /\ HashLength \in Nat /\ HashLength > 1 /\ HashLength < MerkleLength
  /\ Cycle \in Nat \ {0} /\ Rounds = Cycle - 1 /\ Cycle > 2
  /\ MerkleLength % Cycle = 0
  /\ NumHashIter = 5 /\ NumHashIter * Cycle \in Nat
  /\ NumHashIter * Cycle = 5 * Cycle /\ NumHashIter * Cycle <= MerkleLength - 2
  /\ RangeLog \in Nat /\ RangeLog > 0 /\ RangeLog < MerkleLength
<1>1. /\ TxLength \in Nat /\ HashLength \in Nat /\ HashLength > 1
  BY LengthSteps
<1>2. MerkleLength \in Int /\ TxLength = 2 * MerkleLength
  BY <1>1, RowsAssumption DEF MerkleLength
<1>3. /\ Cycle \in Nat \ {0} /\ Rounds = Cycle - 1 /\ Cycle > 2
  BY CycleAssumption
<1> HIDE DEF MerkleLength
<1>4. /\ HashLength < MerkleLength /\ MerkleLength % Cycle = 0
      /\ NumHashIter * Cycle <= MerkleLength - 2
      /\ (NumHashIter - 1) * Cycle <= RangeLog
      /\ RangeLog < MerkleLength /\ RangeLog \in Nat
  BY RowsAssumption DEF ScalarMulLength
<1> QED BY <1>1, <1>2, <1>3, <1>4 DEF NumHashIter

(* The constants of a round are those of the row in its cycle, wherever    *)
(* the second half of a transaction starts.                                *)
LEMMA SecondHalfRounds ==
  ASSUME NEW g \in Nat
  PROVE  /\ g % TxLength \in 0 .. (TxLength - 1)
         /\ SigRow(g) \in Int /\ SigRow(g) = (g % TxLength) - MerkleLength
         /\ SigRow(g) >= 0 => SigRow(g) % Cycle = g % Cycle
<1> DEFINE step == g % TxLength
           s == step - MerkleLength
           e == MerkleLength \div Cycle
           q == s \div Cycle
           r == s % Cycle
<1>1. step \in 0 .. (TxLength - 1) /\ g % Cycle = step % Cycle
  BY MaskSteps, PartLengths
<1>2. MerkleLength = Cycle * e /\ e \in Int /\ MerkleLength \in Nat
  BY PartLengths, Division
<1>3. Cycle \in Nat \ {0}
  BY PartLengths
<1> HIDE DEF step, e
<1>4. s \in Int
  BY <1>1, <1>2
<1>5. s = Cycle * q + r /\ q \in Int /\ r \in 0 .. (Cycle - 1)
  <2> HIDE DEF s
  <2> QED BY <1>3, <1>4, Division
<1> HIDE DEF q, r
<1> DEFINE p == q + e
<1>6. step = Cycle * p + r /\ p \in Int
  <2>1. step = s + MerkleLength
    BY <1>1, <1>2
  <2> HIDE DEF s
  <2>2. Cycle * p = Cycle * q + Cycle * e
    BY <1>2, <1>3, <1>5
  <2>3. step = Cycle * q + r + Cycle * e
    BY <1>2, <1>5, <2>1
  <2>4. p \in Int
    BY <1>2, <1>5
  <2> HIDE DEF p
  <2> QED BY <2>2, <2>3, <2>4, <1>2, <1>3, <1>5
<1> HIDE DEF p
<1>7. step % Cycle = r
  BY <1>3, <1>5, <1>6
<1>8. SigRow(g) = s
  BY DEF SigRow, step
<1> HIDE DEF s
<1> QED BY <1>1, <1>4, <1>7, <1>8 DEF step, r, s

-----------------------------------------------------------------------------
(* The digests that hash_message goes through.                             *)
Digests(x, message) ==
  LET h[i \in 0 .. (NumHashIter - 1)] ==
        IF i = 0 THEN Merge([x |-> x], Zeroes)
        ELSE Merge(h[i - 1], Chunk(message, i - 1))
  IN h

LEMMA DigestSteps ==
  ASSUME NEW x, NEW message
  PROVE  LET h == Digests(x, message)
         IN /\ HashMessage(x, message) = h[4]
            /\ h[0] = Merge([x |-> x], Zeroes)
            /\ \A i \in 1 .. 4 : h[i] = Merge(h[i - 1], Chunk(message, i - 1))
<1> DEFINE d0 == Merge([x |-> x], Zeroes)
           Next1(d, i) == Merge(d, Chunk(message, i - 1))
           Is(h) == h = [i \in 0 .. 4 |-> IF i = 0 THEN d0 ELSE Next1(h[i - 1], i)]
           d1 == Next1(d0, 1)
           d2 == Next1(d1, 2)
           d3 == Next1(d2, 3)
           d4 == Next1(d3, 4)
           w == [i \in 0 .. 4 |-> CASE i = 0 -> d0 [] i = 1 -> d1 [] i = 2 -> d2
                                    [] i = 3 -> d3 [] i = 4 -> d4]
<1>1. NumHashIter - 1 = 4
  BY DEF NumHashIter
<1>2. Digests(x, message) = CHOOSE h : Is(h)
  BY <1>1 DEF Digests
<1>3. HashMessage(x, message) = Digests(x, message)[4]
  BY <1>1 DEF HashMessage, Digests
<1> HIDE DEF d0, Next1
<1>4. Is(w)
  <2>1. w[0] = d0 /\ w[1] = d1 /\ w[2] = d2 /\ w[3] = d3 /\ w[4] = d4
    <3> HIDE DEF d1, d2, d3, d4
    <3> QED OBVIOUS
  <2>2. ASSUME NEW i \in 0 .. 4
        PROVE  w[i] = IF i = 0 THEN d0 ELSE Next1(w[i - 1], i)
    <3> HIDE DEF w
    <3>1. i = 0 \/ i = 1 \/ i = 2 \/ i = 3 \/ i = 4
      OBVIOUS
    <3> QED BY <2>1, <3>1
  <2>3. w = [i \in 0 .. 4 |-> w[i]]
    <3> HIDE DEF d1, d2, d3, d4
    <3> QED OBVIOUS
  <2> HIDE DEF w
  <2> QED BY <2>2, <2>3
<1>5. Is(Digests(x, message))
  <2> HIDE DEF Is
  <2> QED BY <1>2, <1>4
<1> DEFINE h == Digests(x, message)
<1> HIDE DEF h
<1>6. Is(h)
  BY <1>5 DEF h
<1>7. h[0] = d0 /\ \A i \in 1 .. 4 : h[i] = Next1(h[i - 1], i)
  BY <1>6
<1> QED BY <1>3, <1>7 DEF h, d0, Next1

(* The hash state of row s of the second half, by hashes and rounds.       *)
HashAt(x, message, s) ==
  LET l == s \div Cycle
  IN [fst |-> IF l = 0 THEN [x |-> x] ELSE Digests(x, message)[l - 1],
      snd |-> IF l \in 1 .. 4 THEN Chunk(message, l - 1) ELSE Zeroes,
      applied |-> Applied(s % Cycle)]
HashOf(x, message, s) ==
  HashAt(x, message, IF s < NumHashIter * Cycle THEN s ELSE NumHashIter * Cycle)

(* Where the rows of the hashes lie.                                       *)
LEMMA HashRows ==
  ASSUME NEW s \in Nat
  PROVE  /\ s % Cycle \in 0 .. Rounds /\ s \div Cycle \in Nat
         /\ s < 5 * Cycle => s \div Cycle \in 0 .. 4
         /\ s % Cycle = Rounds => s = (s \div Cycle + 1) * Cycle - 1
         /\ s < 5 * Cycle /\ s % Cycle = Rounds =>
              (s < 4 * Cycle <=> s \div Cycle # 4)
<1> DEFINE l == s \div Cycle
           r == s % Cycle
<1>1. Cycle \in Nat \ {0} /\ Rounds = Cycle - 1
  BY PartLengths
<1>2. s = Cycle * l + r /\ l \in Int /\ r \in 0 .. (Cycle - 1)
  BY <1>1, Division
<1>3. l \in 0 .. s
  BY <1>1, QuotientBound
<1> HIDE DEF l, r
<1>4. s < 5 * Cycle => l <= 4
  <2> SUFFICES ASSUME s < 5 * Cycle, l >= 5 PROVE FALSE
    BY <1>2
  <2>1. Cycle * l = Cycle * 5 + Cycle * (l - 5) /\ Cycle * (l - 5) >= 0
    BY <1>1, <1>2
  <2> QED BY <1>1, <1>2, <2>1
<1>5. r = Rounds => s = (l + 1) * Cycle - 1
  <2>1. (l + 1) * Cycle = Cycle * l + Cycle
    BY <1>1, <1>2
  <2> QED BY <1>1, <1>2, <2>1
<1>6. r = Rounds /\ l # 4 /\ l <= 4 => s < 4 * Cycle
  <2> SUFFICES ASSUME r = Rounds, l <= 3 PROVE s < 4 * Cycle
    BY <1>2
  <2>1. Cycle * 4 = Cycle * (l + 1) + Cycle * (3 - l) /\ Cycle * (3 - l) >= 0
        /\ Cycle * (l + 1) = (l + 1) * Cycle
    BY <1>1, <1>2
  <2> QED BY <1>1, <1>2, <1>5, <2>1
<1>7. s < 4 * Cycle => l # 4
  BY <1>1, <1>2
<1>8. r \in 0 .. Rounds /\ l \in Nat /\ (s < 5 * Cycle => l \in 0 .. 4)
  BY <1>1, <1>2, <1>3, <1>4
<1> QED BY <1>4, <1>5, <1>6, <1>7, <1>8 DEF l, r

(* After all the rounds of a hash its state holds the digest.              *)
LEMMA HashDigest ==
  ASSUME NEW x, NEW message, NEW s \in Nat, s < 5 * Cycle, s % Cycle = Rounds
  PROVE  First(HashAt(x, message, s)) = Digests(x, message)[s \div Cycle]
<1> DEFINE l == s \div Cycle
           a == IF l = 0 THEN [x |-> x] ELSE Digests(x, message)[l - 1]
           b == IF l \in 1 .. 4 THEN Chunk(message, l - 1) ELSE Zeroes
           c == [fst |-> a, snd |-> b, applied |-> Applied(Rounds)]
<1>1. l \in 0 .. 4
  BY HashRows
<1>2. HashAt(x, message, s) = c
  BY DEF HashAt
<1>3. First(c) = Merge(a, b)
  <2> HIDE DEF a, b
  <2>1. Applied(Rounds) # <<>>
    BY AppliedSteps, CycleAssumption
  <2> QED BY <2>1, MergeTerm DEF First
<1>4. Merge(a, b) = Digests(x, message)[l]
  <2> HIDE DEF l
  <2>1. CASE l = 0
    <3>1. a = [x |-> x] /\ b = Zeroes
      BY <2>1
    <3> QED BY <2>1, <3>1, DigestSteps
  <2>2. CASE l # 0
    <3>1. l \in 1 .. 4
      BY <1>1, <2>2
    <3>2. a = Digests(x, message)[l - 1] /\ b = Chunk(message, l - 1)
      BY <2>2, <3>1
    <3> QED BY <3>1, <3>2, DigestSteps
  <2> QED BY <2>1, <2>2
<1> HIDE DEF c
<1> QED BY <1>2, <1>3, <1>4 DEF l

(* The hash state rests once the message is hashed.                        *)
LEMMA HashRests ==
  ASSUME NEW x, NEW message
  PROVE  /\ HashAt(x, message, 5 * Cycle) = Fresh(Digests(x, message)[4], Zeroes)
         /\ \A s \in Nat : s >= 5 * Cycle =>
              HashOf(x, message, s) = HashAt(x, message, 5 * Cycle)
<1>1. Cycle \in Nat \ {0} /\ NumHashIter * Cycle = 5 * Cycle
  BY PartLengths
<1>2. (5 * Cycle) \div Cycle = 5 /\ (5 * Cycle) % Cycle = 0
  <2> DEFINE i == 5 * Cycle
             q == 5
             r == 0
  <2>1. i = Cycle * q + r /\ q \in Int /\ r \in 0 .. (Cycle - 1)
    BY <1>1
  <2>2. i \div Cycle = q /\ i % Cycle = r
    <3> HIDE DEF i, q, r
    <3> QED BY <1>1, <2>1
  <2> QED BY <2>2
<1>3. HashAt(x, message, 5 * Cycle) = Fresh(Digests(x, message)[4], Zeroes)
  <2>1. 5 - 1 = 4 /\ 5 # 0 /\ 5 \notin 1 .. 4
    OBVIOUS
  <2> QED BY <1>2, <2>1, AppliedSteps DEF HashAt, Fresh
<1>4. ASSUME NEW s \in Nat, s >= 5 * Cycle
      PROVE  HashOf(x, message, s) = HashAt(x, message, 5 * Cycle)
  <2>1. ~(s < 5 * Cycle)
    BY <1>1, <1>4
  <2> QED BY <1>1, <2>1 DEF HashOf
<1> QED BY <1>3, <1>4

(* The signature starts with the state of row 0.                           *)
LEMMA HashBegins ==
  ASSUME NEW x, NEW message
  PROVE  HashOf(x, message, 0) = Fresh([x |-> x], Zeroes)
<1>1. Cycle \in Nat \ {0} /\ NumHashIter * Cycle = 5 * Cycle
  BY PartLengths
<1>2. 0 \div Cycle = 0 /\ 0 % Cycle = 0 /\ 0 < 5 * Cycle /\ 0 \notin 1 .. 4
  BY <1>1
<1> QED BY <1>1, <1>2, AppliedSteps DEF HashOf, HashAt, Fresh

(* A round leads from one row of a hash to the next.                       *)
LEMMA HashRound ==
  ASSUME NEW x, NEW message, NEW s \in Nat, s < 5 * Cycle, s % Cycle < Rounds
  PROVE  /\ s + 1 < 5 * Cycle
         /\ ApplyRound(HashAt(x, message, s), s) = HashAt(x, message, s + 1)
<1>1. Cycle \in Nat \ {0} /\ Rounds = Cycle - 1
  BY PartLengths
<1>2. s % Cycle # Cycle - 1 /\ s % Cycle \in Nat
  BY <1>1
<1>3. (s + 1) % Cycle = (s % Cycle) + 1 /\ (s + 1) \div Cycle = s \div Cycle
  BY <1>1, <1>2, CycleSteps
<1>4. s + 1 < 5 * Cycle
  <2> SUFFICES ASSUME s + 1 = 5 * Cycle PROVE FALSE
    BY <1>1
  <2>1. s = Cycle * 4 + (Cycle - 1) /\ 4 \in Int /\ Cycle - 1 \in 0 .. (Cycle - 1)
    BY <1>1
  <2> DEFINE q == 4
             r == Cycle - 1
  <2>2. s = Cycle * q + r /\ q \in Int /\ r \in 0 .. (Cycle - 1)
    BY <2>1
  <2>3. s % Cycle = r
    <3> HIDE DEF q, r
    <3> QED BY <1>1, <2>2
  <2> QED BY <1>2, <2>3
<1> DEFINE l == s \div Cycle
           a == IF l = 0 THEN [x |-> x] ELSE Digests(x, message)[l - 1]
           b == IF l \in 1 .. 4 THEN Chunk(message, l - 1) ELSE Zeroes
           m == s % Cycle
<1>5. HashAt(x, message, s) = [fst |-> a, snd |-> b, applied |-> Applied(m)]
  BY DEF HashAt
<1>6. HashAt(x, message, s + 1) =
        [fst |-> a, snd |-> b, applied |-> Applied(m + 1)]
  BY <1>3 DEF HashAt
<1>7. Append(Applied(m), m) = Applied(m + 1)
  BY <1>2, AppliedSteps
<1> HIDE DEF a, b
<1>8. ApplyRound([fst |-> a, snd |-> b, applied |-> Applied(m)], s) =
        [fst |-> a, snd |-> b, applied |-> Append(Applied(m), m)]
  <2> DEFINE c == [fst |-> a, snd |-> b, applied |-> Applied(m)]
  <2>1. ApplyRound(c, s) = [c EXCEPT !.applied = Append(@, m)]
    BY DEF ApplyRound
  <2> HIDE DEF m
  <2>2. [c EXCEPT !.applied = Append(@, m)] =
          [fst |-> a, snd |-> b, applied |-> Append(Applied(m), m)]
    OBVIOUS
  <2> QED BY <2>1, <2>2
<1> QED BY <1>4, <1>5, <1>6, <1>7, <1>8

(* After a digest come its chunk of the message, and after the last zeroes.*)
LEMMA HashChunk ==
  ASSUME NEW x, NEW message, NEW s \in Nat, s < 5 * Cycle, s % Cycle = Rounds
  PROVE  HashOf(x, message, s + 1) =
           Fresh(Digests(x, message)[s \div Cycle],
                 IF s \div Cycle # 4 THEN Chunk(message, s \div Cycle) ELSE Zeroes)
<1> DEFINE l == s \div Cycle
<1>1. Cycle \in Nat \ {0} /\ Rounds = Cycle - 1 /\ NumHashIter * Cycle = 5 * Cycle
  BY PartLengths
<1>2. l \in 0 .. 4 /\ s = (l + 1) * Cycle - 1
  BY HashRows
<1>3. (s + 1) % Cycle = 0 /\ (s + 1) \div Cycle = l + 1
  BY <1>1, CycleSteps
<1>4. CASE l = 4
  <2>1. s + 1 >= 5 * Cycle /\ s + 1 \in Nat
    BY <1>1, <1>2, <1>4
  <2> QED BY <1>4, <2>1, HashRests
<1>5. CASE l # 4
  <2>1. s + 1 < 5 * Cycle
    <3>1. s < 4 * Cycle
      BY <1>5, HashRows
    <3> QED BY <1>1, <3>1
  <2>2. HashOf(x, message, s + 1) = HashAt(x, message, s + 1)
    BY <1>1, <2>1 DEF HashOf
  <2> HIDE DEF l
  <2>3. l + 1 # 0 /\ (l + 1) - 1 = l /\ l + 1 \in 1 .. 4
    BY <1>2, <1>5
  <2>4. HashAt(x, message, s + 1) =
          Fresh(Digests(x, message)[l], Chunk(message, l))
    BY <1>3, <2>3, AppliedSteps DEF HashAt, Fresh
  <2> QED BY <1>5, <2>2, <2>4 DEF l
<1> QED BY <1>4, <1>5

(* The builder's step leads from one row of the hashes to the next.        *)
LEMMA HashUpdated ==
  ASSUME NEW x, NEW message, NEW s \in Nat
  PROVE  HashStep(s, message, HashOf(x, message, s)) = HashOf(x, message, s + 1)
<1>1. Cycle \in Nat \ {0} /\ Rounds = Cycle - 1
      /\ NumHashIter * Cycle = 5 * Cycle /\ (NumHashIter - 1) * Cycle = 4 * Cycle
  BY PartLengths DEF NumHashIter
<1>2. s % Cycle \in 0 .. Rounds
  BY HashRows
<1>3. CASE s >= 5 * Cycle
  <2>1. s + 1 \in Nat /\ s + 1 >= 5 * Cycle
    BY <1>1, <1>3
  <2>2. HashStep(s, message, HashOf(x, message, s)) = HashOf(x, message, s)
    BY <1>1, <1>3 DEF HashStep
  <2> QED BY <1>3, <2>1, <2>2, HashRests
<1>4. CASE s < 5 * Cycle /\ s % Cycle < Rounds
  <2>1. ~(s >= 5 * Cycle)
    BY <1>1, <1>4
  <2> DEFINE h == HashOf(x, message, s)
  <2>2. HashStep(s, message, h) = ApplyRound(h, s)
    <3> HIDE DEF h
    <3> QED BY <1>1, <1>4, <2>1 DEF HashStep
  <2>3. h = HashAt(x, message, s)
    BY <1>1, <1>4 DEF HashOf
  <2>4. HashOf(x, message, s + 1) = HashAt(x, message, s + 1)
    BY <1>1, <1>4, HashRound DEF HashOf
  <2> QED BY <1>4, <2>2, <2>3, <2>4, HashRound
<1>5. CASE s < 5 * Cycle /\ s % Cycle = Rounds
  <2>1. ~(s >= 5 * Cycle) /\ ~(s % Cycle < Rounds)
    BY <1>1, <1>5
  <2> DEFINE h == HashOf(x, message, s)
             d == Digests(x, message)[s \div Cycle]
  <2>2. HashStep(s, message, h) =
          Fresh(First(h), IF s < 4 * Cycle THEN Chunk(message, s \div Cycle) ELSE Zeroes)
    <3> HIDE DEF h
    <3> QED BY <1>1, <2>1 DEF HashStep
  <2>3. First(h) = d
    <3>1. h = HashAt(x, message, s)
      BY <1>1, <1>5 DEF HashOf
    <3> QED BY <1>5, <3>1, HashDigest
  <2>4. s < 4 * Cycle <=> s \div Cycle # 4
    BY <1>5, HashRows
  <2> HIDE DEF h, d
  <2>5. HashStep(s, message, h) =
          Fresh(d, IF s \div Cycle # 4 THEN Chunk(message, s \div Cycle) ELSE Zeroes)
    BY <2>2, <2>3, <2>4
  <2> QED BY <1>5, <2>5, HashChunk DEF h, d
<1> QED BY <1>1, <1>2, <1>3, <1>4, <1>5
(* Two rows of the hashes that follow each other obey the constraints, the *)
(* chunks read from the copies.                                            *)
LEMMA HashObeys ==
  ASSUME NEW x, NEW tx, NEW g \in Nat, SigRow(g) \in 0 .. (MerkleLength - 2),
         NEW cur, cur.sig.hash = HashOf(x, Message(tx), SigRow(g)),
         NEW next, next.sig.hash = HashOf(x, Message(tx), SigRow(g) + 1),
         next.copies = Copies(tx)
  PROVE  HashHolds(g, cur, next)
<1> DEFINE s == SigRow(g)
           message == Message(tx)
           h == cur.sig.hash
<1>1. /\ Cycle \in Nat \ {0} /\ Rounds = Cycle - 1
      /\ NumHashIter * Cycle = 5 * Cycle /\ NumHashIter - 2 = 3
      /\ MerkleLength \in Nat /\ 5 * Cycle <= MerkleLength - 2
  BY PartLengths
<1>2. s \in Nat /\ s % Cycle = g % Cycle
  BY <1>1, SecondHalfRounds
<1>3. s % Cycle \in 0 .. Rounds
  BY <1>2, HashRows
<1>4. InternalInputs(g, next.copies) =
        IF s < 5 * Cycle /\ s % Cycle = Rounds /\ s \div Cycle # 4
        THEN Chunk(message, s \div Cycle) ELSE Zeroes
  <2> DEFINE fed == {k \in 0 .. (NumHashIter - 2) : MessageMask(g, k)}
             l == s \div Cycle
             fields == BuildTxMessage(next.copies.sKey, next.copies.rKey,
                                      next.copies.delta, next.copies.nonce)
  <2>1. fields = message
    BY DEF Copies, Message
  <2>2. InternalInputs(g, next.copies) =
          IF fed = {} THEN Zeroes ELSE Chunk(fields, CHOOSE k \in fed : TRUE)
    BY DEF InternalInputs
  <2>3. \A k : k \in fed <=> k \in 0 .. 3 /\ s = (k + 1) * Cycle - 1
    BY <1>1 DEF MessageMask
  <2> HIDE DEF fed, fields
  <2>4. CASE s < 5 * Cycle /\ s % Cycle = Rounds /\ l # 4
    <3>1. l \in 0 .. 3 /\ s = (l + 1) * Cycle - 1
      <4>1. l \in 0 .. 4 /\ s = (l + 1) * Cycle - 1
        BY <1>2, <2>4, HashRows
      <4> QED BY <2>4, <4>1
    <3>2. \A k \in fed : k = l
      <4> SUFFICES ASSUME NEW k \in fed PROVE k = l
        OBVIOUS
      <4>1. k \in 0 .. 3 /\ s = (k + 1) * Cycle - 1
        BY <2>3
      <4> HIDE DEF l
      <4>2. (k + 1) * Cycle = (l + 1) * Cycle /\ k \in Int /\ l \in Int
        BY <1>1, <1>2, <3>1, <4>1
      <4>3. (k + 1) * Cycle = (l + 1) * Cycle + (k - l) * Cycle
        BY <1>1, <4>2
      <4>4. (k - l) * Cycle = 0
        BY <1>1, <4>2, <4>3
      <4>5. k - l = 0
        BY <1>1, <4>2, <4>4
      <4> QED BY <4>2, <4>5
    <3> HIDE DEF l
    <3>3. l \in fed
      BY <2>3, <3>1
    <3>4. fed # {} /\ (CHOOSE k \in fed : TRUE) = l
      BY <3>2, <3>3
    <3>5. InternalInputs(g, next.copies) = Chunk(message, l)
      BY <2>1, <2>2, <3>4
    <3> QED BY <2>4, <3>5 DEF l
  <2>5. CASE ~(s < 5 * Cycle /\ s % Cycle = Rounds /\ l # 4)
    <3>1. fed = {}
      <4> SUFFICES ASSUME NEW k \in fed PROVE FALSE
        OBVIOUS
      <4>1. k \in 0 .. 3 /\ s = (k + 1) * Cycle - 1
        BY <2>3
      <4>2. s = Cycle * k + Rounds /\ Rounds \in 0 .. (Cycle - 1)
        BY <1>1, <4>1
      <4>3. s \div Cycle = k /\ s % Cycle = Rounds
        <5> DEFINE r == Rounds
        <5>1. s = Cycle * k + r /\ k \in Int /\ r \in 0 .. (Cycle - 1)
          BY <4>1, <4>2
        <5> HIDE DEF r, s
        <5>2. s \div Cycle = k /\ s % Cycle = r
          BY <1>1, <5>1
        <5> QED BY <5>2 DEF r
      <4>4. s < 5 * Cycle
        <5>1. k = 0 \/ k = 1 \/ k = 2 \/ k = 3
          BY <4>1
        <5> QED BY <1>1, <4>2, <5>1
      <4> QED BY <2>5, <4>1, <4>3, <4>4
    <3>2. InternalInputs(g, next.copies) = Zeroes
      BY <2>2, <3>1
    <3> QED BY <2>5, <3>2
  <2> QED BY <2>4, <2>5
<1>5. next.sig.hash = HashStep(s, message, h)
  BY <1>2, HashUpdated
<1>6. SigHashMask(g) => next.sig.hash = ApplyRound(h, g)
  <2> SUFFICES ASSUME SigHashMask(g) PROVE next.sig.hash = ApplyRound(h, g)
    OBVIOUS
  <2>1. ~(s >= 5 * Cycle) /\ s % Cycle < Rounds
    BY <1>1, <1>2 DEF SigHashMask
  <2>2. next.sig.hash = ApplyRound(h, s)
    <3> HIDE DEF h, s
    <3> QED BY <1>1, <1>5, <2>1 DEF HashStep
  <2> QED BY <1>2, <2>2 DEF ApplyRound
<1>7. ASSUME ~SigHashMask(g)
      PROVE  /\ First(next.sig.hash) = First(h)
             /\ Second(next.sig.hash) = InternalInputs(g, next.copies)
  <2>1. \A a, b : First(Fresh(a, b)) = a /\ Second(Fresh(a, b)) = b
    BY DEF First, Second, Fresh
  <2>2. CASE s >= 5 * Cycle
    <3>1. s + 1 >= 5 * Cycle /\ s + 1 \in Nat /\ ~(s < 5 * Cycle)
      BY <1>1, <1>2, <2>2
    <3>2. h = Fresh(Digests(x, message)[4], Zeroes)
      BY <1>2, <2>2, HashRests
    <3>3. next.sig.hash = Fresh(Digests(x, message)[4], Zeroes)
      BY <3>1, HashRests
    <3> QED BY <1>4, <1>7, <2>1, <3>1, <3>2, <3>3
  <2>3. CASE s < 5 * Cycle /\ s % Cycle = Rounds
    <3>1. h = HashAt(x, message, s)
      BY <1>1, <2>3 DEF HashOf
    <3>2. First(h) = Digests(x, message)[s \div Cycle]
      BY <1>2, <2>3, <3>1, HashDigest
    <3>3. next.sig.hash =
            Fresh(Digests(x, message)[s \div Cycle],
                  IF s \div Cycle # 4 THEN Chunk(message, s \div Cycle) ELSE Zeroes)
      BY <1>2, <2>3, HashChunk
    <3> QED BY <1>4, <1>7, <2>1, <2>3, <3>2, <3>3
  <2>4. s >= 5 * Cycle \/ (s < 5 * Cycle /\ s % Cycle = Rounds)
    BY <1>1, <1>2, <1>3, <1>7 DEF SigHashMask
  <2> QED BY <2>2, <2>3, <2>4
<1> QED BY <1>6, <1>7 DEF HashHolds

-----------------------------------------------------------------------------
(* The lane of a range proof on row s of the second half: the bit fed last *)
(* and the number without the bits to come.                                *)
Fed(s) == IF s < RangeLog THEN s ELSE RangeLog
RangeOf(value, s) ==
  [bit |-> IF s = 0 THEN 0 ELSE RangeBit(value, Fed(s) - 1),
   acc |-> value \div Pow2[RangeLog - Fed(s)]]

(* Before the first bit the accumulator is zero, after the last the number.*)
LEMMA RangeEnds ==
  ASSUME NEW value \in Field
  PROVE  /\ RangeOf(value, 0) = RangeStart
         /\ \A s \in Nat : s >= RangeLog => RangeOf(value, s).acc = value
<1>1. RangeLog \in Nat /\ RangeLog > 0
  BY PartLengths
<1>2. value \in Nat /\ value < P
  BY FieldAssumption DEF Field
<1> DEFINE d == Pow2[RangeLog]
<1>3. value \div d = 0
  <2>1. d \in Nat \ {0} /\ value < d
    BY <1>1, <1>2, Pow2Positive, ModulusAssumption, FieldAssumption
  <2> HIDE DEF d
  <2> QED BY <1>2, <2>1
<1>4. Fed(0) = 0 /\ RangeLog - Fed(0) = RangeLog
  BY <1>1 DEF Fed
<1>5. RangeOf(value, 0) = RangeStart
  BY <1>3, <1>4 DEF RangeOf, RangeStart
<1>6. ASSUME NEW s \in Nat, s >= RangeLog PROVE RangeOf(value, s).acc = value
  <2>1. RangeLog - Fed(s) = 0
    BY <1>1, <1>6 DEF Fed
  <2>2. value \div Pow2[0] = value
    BY <1>2, Pow2Steps
  <2> QED BY <2>1, <2>2 DEF RangeOf
<1> QED BY <1>5, <1>6

(* The builder's step appends the next bit, by doubling and adding.        *)
LEMMA RangeUpdated ==
  ASSUME NEW value \in Field, NEW s \in Nat
  PROVE  /\ RangeStep(s, value, RangeOf(value, s)) = RangeOf(value, s + 1)
         /\ s < RangeLog => RangeLaneHolds(RangeOf(value, s), RangeOf(value, s + 1))
<1>1. RangeLog \in Nat /\ RangeLog > 0
  BY PartLengths
<1>2. CASE s >= RangeLog
  <2>1. /\ ~(s < RangeLog) /\ Fed(s) = RangeLog /\ Fed(s + 1) = RangeLog
        /\ s # 0 /\ s + 1 # 0
    BY <1>1, <1>2 DEF Fed
  <2> QED BY <2>1 DEF RangeStep, RangeOf
<1>3. CASE s < RangeLog
  <2> DEFINE k == RangeLog - 1 - s
             q == value \div Pow2[k]
             bit == q % 2
             lane == RangeOf(value, s)
  <2>1. /\ k \in Nat /\ RangeLog - s = k + 1 /\ RangeLog - (s + 1) = k
        /\ Fed(s) = s /\ Fed(s + 1) = s + 1 /\ s + 1 # 0 /\ (s + 1) - 1 = s
    BY <1>1, <1>3 DEF Fed
  <2>2. value \in Nat /\ value < P /\ P \in Nat
    BY FieldAssumption DEF Field
  <2>3. q \in 0 .. value
    BY <2>1, <2>2, Pow2Positive, QuotientBound
  <2>4. lane.acc = q \div 2
    <3>1. value \div Pow2[k + 1] = q \div 2
      BY <2>1, <2>2, HalfQuotient
    <3> QED BY <2>1, <3>1 DEF RangeOf
  <2>5. RangeBit(value, s) = bit
    BY DEF RangeBit
  <2>6. RangeOf(value, s + 1) = [bit |-> bit, acc |-> q]
    BY <2>1, <2>5 DEF RangeOf
  <2> HIDE DEF q, lane
  <2>7. bit \in {0, 1} /\ DoubleAndAdd(lane.acc, bit) = q
    <3>1. bit \in {0, 1} /\ 2 * (q \div 2) + bit = q
      BY <2>2, <2>3
    <3>2. q % P = q
      BY <2>2, <2>3
    <3> QED BY <2>4, <3>1, <3>2 DEF DoubleAndAdd
  <2> HIDE DEF bit
  <2>8. RangeStep(s, value, lane) = [bit |-> bit, acc |-> q]
    BY <1>3, <2>5, <2>7 DEF RangeStep
  <2> QED BY <2>6, <2>7, <2>8 DEF lane, RangeLaneHolds
<1> QED BY <1>1, <1>2, <1>3
-----------------------------------------------------------------------------
(* The row of transaction t, a transfer m between the given values, at a   *)
(* step: the copies on every row, the Merkle update in the first half, the *)
(* signature in the second, under the root that the update left.           *)
SigmaOf(tx) == (tx.sOld.balance - tx.delta) % P
SigAt(t, tx, s) == [hash |-> HashOf(t, Message(tx), s),
                    delta |-> RangeOf(tx.delta, s),
                    sigma |-> RangeOf(SigmaOf(tx), s)]

TxRowIs(row, t, values, m, k) ==
  LET tx == Record(values, m)
  IN /\ row = [merkle |-> row.merkle, copies |-> row.copies, sig |-> row.sig]
     /\ row.copies = Copies(tx)
     /\ k < MerkleLength => RowIs(row.merkle, values, m, k)
     /\ k >= MerkleLength =>
          /\ row.merkle.root = Root(Committed(Move(values, m)))
          /\ row.sig = SigAt(t, tx, k - MerkleLength)

(* What a transaction records of a transfer.                               *)
LEMMA RecordFields ==
  ASSUME NEW values, Accounts(values), NEW m \in Moves
  PROVE  LET tx == Record(values, m)
         IN /\ tx.delta = m.delta /\ tx.sOld = values[m.s]
            /\ tx.rOld = values[m.r] /\ tx.root = Root(Committed(values))
            /\ tx.delta \in Field /\ SigmaOf(tx) \in Field
            /\ (tx.sOld.balance - SigmaOf(tx)) % P = tx.delta
<1> DEFINE tx == Record(values, m)
<1>1. /\ tx.delta = m.delta /\ tx.sOld = values[m.s] /\ tx.rOld = values[m.r]
      /\ tx.root = Root(Committed(values))
  BY DEF Record
<1>2. m.delta \in Field /\ IsValue(values[m.s])
  BY MoveSteps
<1> HIDE DEF tx
<1>3. tx.sOld.balance \in Field
  BY <1>1, <1>2 DEF IsValue
<1>4. SigmaOf(tx) \in Field
  <2>1. tx.sOld.balance - tx.delta \in Int
    BY <1>1, <1>2, <1>3, FieldAssumption DEF Field
  <2> QED BY <2>1, Reduced DEF SigmaOf
<1>5. (tx.sOld.balance - SigmaOf(tx)) % P = tx.delta
  <2> DEFINE x == tx.sOld.balance
             d == tx.delta
  <2>1. x \in Field /\ d \in Field /\ 0 \in Field
    BY <1>1, <1>2, <1>3, FieldAssumption DEF Field
  <2> HIDE DEF x, d
  <2>2. (x - ((x - d) % P)) % P = (((0 + d) % P) - 0) % P
    BY <2>1, AmountsAgree
  <2>3. (((0 + d) % P) - 0) % P = d
    BY <2>1, FieldAssumption DEF Field
  <2> QED BY <2>2, <2>3 DEF x, d, SigmaOf
<1> QED BY <1>1, <1>2, <1>4, <1>5 DEF tx

(* The builder's first row is row 0 in closed form.                        *)
LEMMA TxRowBegins ==
  ASSUME NEW t, NEW values, NEW m
  PROVE  TxRowIs(TxFirstRow(Record(values, m)), t, values, m, 0)
<1> DEFINE tx == Record(values, m)
           row == TxFirstRow(tx)
<1>1. /\ row = [merkle |-> row.merkle, copies |-> row.copies, sig |-> row.sig]
      /\ row.copies = Copies(tx) /\ row.merkle = FirstRow(tx)
  <2> HIDE DEF tx
  <2> QED BY DEF TxFirstRow
<1>2. RowIs(row.merkle, values, m, 0)
  BY <1>1, RowBegins
<1>3. 0 < MerkleLength /\ MerkleLength \in Nat
  BY PartLengths
<1> HIDE DEF row, tx
<1>4. TxRowIs(row, t, values, m, 0)
  BY <1>1, <1>2, <1>3 DEF TxRowIs, tx
<1> QED BY <1>4 DEF row, tx

(* The signature starts where the Merkle update rests.                     *)
LEMMA SignatureStarts ==
  ASSUME NEW t, NEW values, Accounts(values), NEW m \in Moves,
         NEW row, TxRowIs(row, t, values, m, MerkleLength - 1)
  PROVE  TxRowIs(StartSignature(t, row), t, values, m, MerkleLength)
<1> DEFINE tx == Record(values, m)
           merkle == row.merkle
           next == StartSignature(t, row)
           started == [hash |-> Fresh([x |-> t], Zeroes),
                       delta |-> RangeStart, sigma |-> RangeStart]
<1>1. /\ MerkleLength \in Nat /\ HashLength \in Nat /\ HashLength < MerkleLength
      /\ MerkleLength - 1 < MerkleLength /\ ~(MerkleLength - 1 < HashLength)
      /\ MerkleLength - MerkleLength = 0
  BY PartLengths
<1>2. /\ row = [merkle |-> merkle, copies |-> row.copies, sig |-> row.sig]
      /\ row.copies = Copies(tx) /\ RowIs(merkle, values, m, MerkleLength - 1)
  BY <1>1 DEF TxRowIs
<1>3. /\ merkle = [s |-> merkle.s, r |-> merkle.r, root |-> merkle.root]
      /\ merkle.root = Root(Committed(Move(values, m)))
  BY <1>1, <1>2 DEF RowIs
<1>4. /\ next = [merkle |-> next.merkle, copies |-> row.copies, sig |-> started]
      /\ next.merkle.root = merkle.root
  <2> HIDE DEF merkle, started
  <2>1. next = [row EXCEPT !.merkle.s = Overlaid, !.merkle.r = Overlaid,
                           !.sig = started]
    BY DEF StartSignature, started
  <2> HIDE DEF next
  <2> DEFINE half == [merkle EXCEPT !.s = Overlaid]
             last == [half EXCEPT !.r = Overlaid]
  <2>2. last.root = merkle.root
    BY <1>3
  <2>3. [row EXCEPT !.merkle.s = Overlaid] =
          [merkle |-> half, copies |-> row.copies, sig |-> row.sig]
    BY <1>2
  <2>4. next = [merkle |-> last, copies |-> row.copies, sig |-> started]
    <3> HIDE DEF half
    <3> QED BY <2>1, <2>3
  <2> HIDE DEF last
  <2> QED BY <2>2, <2>4
<1>5. started = SigAt(t, tx, 0)
  BY RecordFields, HashBegins, RangeEnds DEF SigAt
<1> HIDE DEF next, started, tx
<1>6. TxRowIs(next, t, values, m, MerkleLength)
  <2>1. ~(MerkleLength < MerkleLength)
    BY <1>1
  <2>2. /\ next = [merkle |-> next.merkle, copies |-> next.copies, sig |-> next.sig]
        /\ next.copies = row.copies /\ next.sig = started
    BY <1>4
  <2> QED BY <1>1, <1>2, <1>3, <1>4, <1>5, <2>1, <2>2 DEF TxRowIs, tx
<1> QED BY <1>6 DEF next

(* The builder's update leads from the row of a step to that of the next.  *)
LEMMA TxRowUpdated ==
  ASSUME NEW t, NEW values, Accounts(values), NEW m \in Moves,
         batch.txs[t] = Record(values, m),
         NEW step \in Nat, NEW row, TxRowIs(row, t, values, m, step)
  PROVE  TxRowIs(UpdateTxRow(step, t, row), t, values, m, step + 1)
<1> DEFINE tx == Record(values, m)
           s == step - MerkleLength
           next == UpdateTxRow(step, t, row)
<1>1. MerkleLength \in Nat
  BY PartLengths
<1>2. row = [merkle |-> row.merkle, copies |-> row.copies, sig |-> row.sig]
      /\ row.copies = Copies(tx)
  BY DEF TxRowIs
<1>3. CASE step < MerkleLength - 1
  <2>1. step < MerkleLength /\ step + 1 < MerkleLength /\ ~(step + 1 >= MerkleLength)
        /\ step # MerkleLength - 1
    BY <1>1, <1>3
  <2> DEFINE merkle == UpdateRow(step, tx, row.merkle)
  <2>2. RowIs(merkle, values, m, step + 1)
    <3>1. RowIs(row.merkle, values, m, step)
      BY <2>1 DEF TxRowIs
    <3> QED BY <3>1, RowUpdated
  <2> HIDE DEF merkle
  <2>3. next = [row EXCEPT !.merkle = merkle]
    BY <1>3, <2>1 DEF UpdateTxRow, merkle
  <2>4. next = [merkle |-> merkle, copies |-> row.copies, sig |-> row.sig]
    <3> HIDE DEF next
    <3> QED BY <1>2, <2>3
  <2> HIDE DEF next
  <2>5. TxRowIs(next, t, values, m, step + 1)
    BY <1>2, <2>1, <2>2, <2>4 DEF TxRowIs
  <2> QED BY <2>5 DEF next
<1>4. CASE step = MerkleLength - 1
  <2>1. ~(step < MerkleLength - 1) /\ step + 1 = MerkleLength
    BY <1>1, <1>4
  <2>2. next = StartSignature(t, row)
    BY <1>4, <2>1 DEF UpdateTxRow
  <2>3. TxRowIs(StartSignature(t, row), t, values, m, MerkleLength)
    BY <1>4, SignatureStarts
  <2> QED BY <2>1, <2>2, <2>3
<1>5. CASE step >= MerkleLength
  <2>1. /\ ~(step < MerkleLength) /\ ~(step < MerkleLength - 1)
        /\ step # MerkleLength - 1 /\ ~(step + 1 < MerkleLength)
        /\ step + 1 >= MerkleLength /\ s \in Nat
        /\ (step + 1) - MerkleLength = s + 1
    BY <1>1, <1>5
  <2>2. row.merkle.root = Root(Committed(Move(values, m)))
        /\ row.sig = SigAt(t, tx, s)
    BY <1>5 DEF TxRowIs
  <2> DEFINE hash == HashStep(s, Message(tx), row.sig.hash)
             delta == RangeStep(s, tx.delta, row.sig.delta)
             sigma == RangeStep(s, SigmaOf(tx), row.sig.sigma)
             sig == [hash |-> hash, delta |-> delta, sigma |-> sigma]
  <2>3. sig = SigAt(t, tx, s + 1)
    <3>1. /\ row.sig.hash = HashOf(t, Message(tx), s)
          /\ row.sig.delta = RangeOf(tx.delta, s)
          /\ row.sig.sigma = RangeOf(SigmaOf(tx), s)
      BY <2>2 DEF SigAt
    <3> HIDE DEF s
    <3>2. hash = HashOf(t, Message(tx), s + 1)
      BY <2>1, <3>1, HashUpdated
    <3>3. tx.delta \in Field /\ SigmaOf(tx) \in Field
      BY RecordFields
    <3> HIDE DEF tx
    <3>4. delta = RangeOf(tx.delta, s + 1) /\ sigma = RangeOf(SigmaOf(tx), s + 1)
      BY <2>1, <3>1, <3>3, RangeUpdated
    <3> HIDE DEF hash, delta, sigma
    <3> QED BY <3>2, <3>4 DEF SigAt
  <2>4. next = [row EXCEPT !.sig = sig]
    BY <1>5, <2>1 DEF UpdateTxRow, SigmaOf
  <2> HIDE DEF sig
  <2>5. next = [merkle |-> row.merkle, copies |-> row.copies, sig |-> sig]
    <3> HIDE DEF next
    <3> QED BY <1>2, <2>4
  <2> HIDE DEF next, s
  <2>6. TxRowIs(next, t, values, m, step + 1)
    BY <1>2, <2>1, <2>2, <2>3, <2>5 DEF TxRowIs
  <2> QED BY <2>6 DEF next
<1> QED BY <1>1, <1>3, <1>4, <1>5
-----------------------------------------------------------------------------
(* Past the hashes the Merkle constraints only ask that the root stays.    *)
LEMMA RestObeys ==
  ASSUME NEW g \in Nat, g % TxLength >= HashLength,
         NEW cur, NEW next, next.root = cur.root
  PROVE  TransitionHolds(g, cur, next)
<1>1. HashLength \in Nat /\ HashLength > 1 /\ g % TxLength \in Nat
  BY MaskSteps, PartLengths
<1>2. ~SetupMask(g) /\ ~HashingMask(g) /\ ~RoundMask(g) /\ ~FinishMask(g)
  BY <1>1 DEF SetupMask, HashingMask, RoundMask, FinishMask
<1> QED BY <1>2 DEF TransitionHolds, LaneHolds, RootHolds

(* The setup row reads the copies from the leaves.                         *)
LEMMA SetupCopies ==
  ASSUME NEW values, Accounts(values), NEW m \in Moves,
         NEW merkle, RowIs(merkle, values, m, 0)
  PROVE  LET s == merkle.s  r == merkle.r
         IN Copies(Record(values, m)) =
              [sKey |-> s.old.fst.lowKey, rKey |-> r.old.fst.lowKey,
               delta |-> (s.old.snd.balance - s.new.snd.balance) % P,
               sigma |-> s.new.snd.balance,
               nonce |-> s.old.snd.nonce]
<1> DEFINE tx == Record(values, m)
           x == values[m.s]
           y == values[m.r]
<1>1. /\ tx.delta = m.delta /\ tx.sOld = x /\ tx.rOld = y
      /\ (x.balance - SigmaOf(tx)) % P = tx.delta
  BY RecordFields
<1>2. IsValue(x) /\ IsValue(y) /\ m.delta \in Field
  BY MoveSteps
<1>3. Hashed(0) = 0
  BY LengthSteps DEF Hashed
<1>4. /\ merkle.s.old = Load(x) /\ merkle.s.new = Load(Debit(x, m.delta))
      /\ merkle.r.old = Load(y)
  <2> DEFINE a == Load(x)
             b == Load(Debit(x, m.delta))
             c == Load(y)
             d == Load(Credit(y, m.delta))
  <2>1. SenderIs(merkle.s, values, m, 0) /\ ReceiverIs(merkle.r, values, m, 0)
    BY <1>3 DEF RowIs
  <2>2. merkle.s = [old |-> a, bit |-> merkle.s.bit, new |-> b]
    BY <2>1, LaneStart DEF SenderIs, LaneIs
  <2>3. merkle.r = [old |-> c, bit |-> merkle.r.bit, new |-> d]
    BY <2>1, LaneStart DEF ReceiverIs, LaneIs
  <2> HIDE DEF a, b, c, d
  <2>4. merkle.s.old = a /\ merkle.s.new = b /\ merkle.r.old = c
    BY <2>2, <2>3
  <2> QED BY <2>4 DEF a, b, c
<1>5. /\ merkle.s.old.fst.lowKey = x.pkey /\ merkle.r.old.fst.lowKey = y.pkey
      /\ merkle.s.old.snd.balance = x.balance /\ merkle.s.old.snd.nonce = x.nonce
      /\ merkle.s.new.snd.balance = SigmaOf(tx)
  <2>1. \A v : /\ Load(v).fst.lowKey = v.pkey /\ Load(v).snd.balance = v.balance
               /\ Load(v).snd.nonce = v.nonce
    BY DEF Load, Fresh
  <2>2. Debit(x, m.delta).balance = SigmaOf(tx)
    BY <1>1, <1>2, DebitIsValue DEF SigmaOf
  <2> QED BY <1>4, <2>1, <2>2
<1> HIDE DEF x, y, tx
<1>6. Copies(tx) = [sKey |-> x.pkey, rKey |-> y.pkey, delta |-> tx.delta,
                    sigma |-> SigmaOf(tx), nonce |-> x.nonce]
  BY <1>1 DEF Copies, SigmaOf
<1> QED BY <1>1, <1>5, <1>6 DEF tx

(* Two rows of a signature that follow each other obey the constraints of  *)
(* the range proofs.                                                       *)
LEMMA RangesObey ==
  ASSUME NEW t, NEW values, Accounts(values), NEW m \in Moves,
         NEW g \in Nat, SigRow(g) \in 0 .. (MerkleLength - 2),
         NEW cur, cur.sig = SigAt(t, Record(values, m), SigRow(g)),
         NEW next, next.sig = SigAt(t, Record(values, m), SigRow(g) + 1),
         next.copies = Copies(Record(values, m))
  PROVE  RangesHold(g, cur, next)
<1> DEFINE tx == Record(values, m)
           s == SigRow(g)
<1>1. MerkleLength \in Nat /\ RangeLog \in Nat /\ RangeLog > 0 /\ s \in Nat
  BY PartLengths
<1>2. tx.delta \in Field /\ SigmaOf(tx) \in Field
  BY RecordFields
<1> HIDE DEF tx
<1>3. /\ cur.sig.delta = RangeOf(tx.delta, s)
      /\ cur.sig.sigma = RangeOf(SigmaOf(tx), s)
      /\ next.sig.delta = RangeOf(tx.delta, s + 1)
      /\ next.sig.sigma = RangeOf(SigmaOf(tx), s + 1)
      /\ next.copies.delta = tx.delta
  BY DEF SigAt, Copies, tx
<1> HIDE DEF s
<1>4. ASSUME RangeMask(g)
      PROVE  /\ RangeLaneHolds(cur.sig.delta, next.sig.delta)
             /\ RangeLaneHolds(cur.sig.sigma, next.sig.sigma)
  <2>1. s < RangeLog
    BY <1>1, <1>4 DEF RangeMask, s
  <2> QED BY <1>1, <1>2, <1>3, <2>1, RangeUpdated
<1>5. ASSUME RangeFinishMask(g) PROVE next.sig.delta.acc = next.copies.delta
  <2>1. s + 1 \in Nat /\ s + 1 >= RangeLog
    BY <1>1, <1>5 DEF RangeFinishMask, s
  <2> QED BY <1>2, <1>3, <2>1, RangeEnds
<1> QED BY <1>4, <1>5 DEF RangesHold

(* Before the signature, and on the last row, its masks are off.           *)
LEMMA SignatureOff ==
  ASSUME NEW g \in Nat, g % TxLength < MerkleLength \/ g % TxLength = TxLength - 1,
         NEW cur, NEW next
  PROVE  HashHolds(g, cur, next) /\ RangesHold(g, cur, next)
<1>1. /\ MerkleLength \in Nat /\ TxLength = 2 * MerkleLength
      /\ Cycle \in Nat \ {0} /\ NumHashIter * Cycle = 5 * Cycle
      /\ 5 * Cycle <= MerkleLength - 2 /\ ScalarMulLength = MerkleLength - 2
      /\ RangeLog \in Nat /\ RangeLog > 0 /\ RangeLog < MerkleLength
  BY PartLengths DEF ScalarMulLength
<1>2. /\ SigRow(g) \in Int
      /\ SigRow(g) < 0 \/ SigRow(g) = MerkleLength - 1
  <2>1. SigRow(g) = (g % TxLength) - MerkleLength /\ g % TxLength \in 0 .. (TxLength - 1)
    BY MaskSteps DEF SigRow
  <2> QED BY <1>1, <2>1
<1>3. ~SigHashMask(g) /\ ~SignatureMask(g) /\ ~RangeMask(g) /\ ~RangeFinishMask(g)
  BY <1>1, <1>2 DEF SigHashMask, SignatureMask, RangeMask, RangeFinishMask
<1> QED BY <1>3 DEF HashHolds, RangesHold

(* Two rows of a transaction that follow each other obey the constraints.  *)
LEMMA TxRowObeys ==
  ASSUME NEW t, NEW values, Accounts(values), NEW m \in Moves,
         NEW g \in Nat, g % TxLength # TxLength - 1,
         NEW cur, TxRowIs(cur, t, values, m, g % TxLength),
         NEW next, TxRowIs(next, t, values, m, (g % TxLength) + 1)
  PROVE  TxTransitionHolds(g, cur, next)
<1> DEFINE step == g % TxLength
           tx == Record(values, m)
<1>1. /\ MerkleLength \in Nat /\ MerkleLength > 2 /\ TxLength = 2 * MerkleLength
      /\ HashLength \in Nat /\ HashLength > 1 /\ HashLength < MerkleLength
      /\ step \in 0 .. (TxLength - 1) /\ SigRow(g) = step - MerkleLength
  <2>1. step \in 0 .. (TxLength - 1) /\ SigRow(g) = step - MerkleLength
    BY MaskSteps DEF SigRow
  <2> HIDE DEF step
  <2>2. MerkleLength > 2
    BY PartLengths
  <2> QED BY <2>1, <2>2, PartLengths
<1>2. cur.copies = Copies(tx) /\ next.copies = Copies(tx)
  BY DEF TxRowIs
<1>3. CopiesHold(g, cur, next)
  <2>1. ASSUME SetupMask(g)
        PROVE  LET s == cur.merkle.s  r == cur.merkle.r
               IN next.copies = [sKey |-> s.old.fst.lowKey, rKey |-> r.old.fst.lowKey,
                                 delta |-> (s.old.snd.balance - s.new.snd.balance) % P,
                                 sigma |-> s.new.snd.balance,
                                 nonce |-> s.old.snd.nonce]
    <3>1. RowIs(cur.merkle, values, m, 0)
      <4>1. step = 0 /\ 0 < MerkleLength
        BY <1>1, <2>1 DEF SetupMask
      <4> QED BY <4>1 DEF TxRowIs
    <3> QED BY <1>2, <3>1, SetupCopies
  <2> QED BY <1>2, <2>1 DEF CopiesHold
<1>4. CASE step < MerkleLength - 1
  <2>1. step < MerkleLength /\ step + 1 < MerkleLength
    BY <1>1, <1>4
  <2>2. RowIs(cur.merkle, values, m, step) /\ RowIs(next.merkle, values, m, step + 1)
    BY <2>1 DEF TxRowIs
  <2>3. TransitionHolds(g, cur.merkle, next.merkle)
    BY <2>2, RowObeys
  <2> QED BY <1>3, <2>1, <2>3, SignatureOff DEF TxTransitionHolds
<1>5. CASE step >= MerkleLength - 1
  <2>1. next.merkle.root = Root(Committed(Move(values, m)))
    <3>1. step + 1 >= MerkleLength
      BY <1>1, <1>5
    <3> QED BY <3>1 DEF TxRowIs
  <2>2. cur.merkle.root = Root(Committed(Move(values, m)))
    <3>1. CASE step < MerkleLength
      <4>1. ~(step < HashLength) /\ RowIs(cur.merkle, values, m, step)
        BY <1>1, <1>5, <3>1 DEF TxRowIs
      <4> QED BY <4>1 DEF RowIs
    <3>2. CASE step >= MerkleLength
      BY <3>2 DEF TxRowIs
    <3> QED BY <1>1, <3>1, <3>2
  <2>3. TransitionHolds(g, cur.merkle, next.merkle)
    <3>1. step >= HashLength
      BY <1>1, <1>5
    <3> QED BY <2>1, <2>2, <3>1, RestObeys
  <2>4. HashHolds(g, cur, next) /\ RangesHold(g, cur, next)
    <3>1. CASE step < MerkleLength
      BY <3>1, SignatureOff
    <3>2. CASE step >= MerkleLength
      <4>1. /\ SigRow(g) \in 0 .. (MerkleLength - 2)
            /\ step + 1 >= MerkleLength
            /\ (step + 1) - MerkleLength = SigRow(g) + 1
        BY <1>1, <3>2
      <4>2. /\ cur.sig = SigAt(t, tx, SigRow(g))
            /\ next.sig = SigAt(t, tx, SigRow(g) + 1)
        BY <1>1, <3>2, <4>1 DEF TxRowIs
      <4>3. RangesHold(g, cur, next)
        BY <1>2, <4>1, <4>2, RangesObey
      <4> HIDE DEF tx
      <4>4. /\ cur.sig.hash = HashOf(t, Message(tx), SigRow(g))
            /\ next.sig.hash = HashOf(t, Message(tx), SigRow(g) + 1)
        BY <4>2 DEF SigAt
      <4>5. HashHolds(g, cur, next)
        BY <1>2, <4>1, <4>4, HashObeys
      <4> QED BY <4>3, <4>5
    <3> QED BY <1>1, <3>1, <3>2
  <2> QED BY <1>3, <2>3, <2>4 DEF TxTransitionHolds
<1> QED BY <1>1, <1>4, <1>5

(* So do the last row of a transaction and a first row under its root: the *)
(* copies are free to change, and no mask is on.                           *)
LEMMA TxBorderObeys ==
  ASSUME NEW g \in Nat, g % TxLength = TxLength - 1,
         NEW cur, NEW next, next.merkle.root = cur.merkle.root
  PROVE  TxTransitionHolds(g, cur, next)
<1>1. /\ MerkleLength \in Nat /\ MerkleLength > 2 /\ TxLength = 2 * MerkleLength
      /\ Cycle \in Nat \ {0} /\ 5 * Cycle <= MerkleLength - 2
      /\ RangeLog \in Nat /\ RangeLog < MerkleLength
  BY PartLengths
<1>2. SigRow(g) = MerkleLength - 1
  <2>1. SigRow(g) = (g % TxLength) - MerkleLength
    BY DEF SigRow
  <2> QED BY <1>1, <2>1
<1>3. ~CopyMask(g) /\ ~SetupMask(g)
  BY <1>1, <1>2 DEF CopyMask, SetupMask, Larger
<1>4. CopiesHold(g, cur, next)
  BY <1>3 DEF CopiesHold
<1>5. TransitionHolds(g, cur.merkle, next.merkle)
  BY BorderObeys
<1> QED BY <1>4, <1>5, SignatureOff DEF TxTransitionHolds
-----------------------------------------------------------------------------
(* The inductive invariant: every row filled of every fragment is the row  *)
(* of its transaction at its step.                                         *)
FragmentIs(rows, t, values, m) ==
  /\ IsSequence(rows) /\ Len(rows) <= TxLength
  /\ \A k \in 1 .. Len(rows) : TxRowIs(rows[k], t, values, m, k - 1)

FragmentOk(t) ==
  \E values, m : /\ RecordIs(batch.txs[t], NextRoot(batch, t), values, m)
                 /\ FragmentIs(fragments[t], t, values, m)

Inv == /\ batch \in Batches
       /\ fragments = [t \in Txs |-> fragments[t]]
       /\ \A t \in Txs : FragmentOk(t)

(* All fragments are empty at first.                                       *)
LEMMA InvInit == Init => Inv
<1> SUFFICES ASSUME Init PROVE Inv
  OBVIOUS
<1>1. \A t \in Txs : fragments[t] = <<>>
  BY DEF Init
<1>2. \A t, values, m : FragmentIs(<<>>, t, values, m)
  <2>1. TxLength \in Nat
    BY LengthSteps
  <2> QED BY <2>1, EmptySequence DEF FragmentIs
<1>3. \A t \in Txs : FragmentOk(t)
  BY <1>1, <1>2, BatchRecords DEF Init, FragmentOk
<1> QED BY <1>3 DEF Init, Inv

(* A row appended to the fragment of a worker.                             *)
LEMMA FillKeeps ==
  ASSUME Inv, NEW t \in Txs, NEW row, Fill(t, row),
         UNCHANGED batch, Len(fragments[t]) < TxLength,
         \A values, m : RecordIs(batch.txs[t], NextRoot(batch, t), values, m)
                        /\ FragmentIs(fragments[t], t, values, m)
                        => TxRowIs(row, t, values, m, Len(fragments[t]))
  PROVE  Inv'
<1> DEFINE rows == Append(fragments[t], row)
<1>1. /\ fragments' = [u \in Txs |-> fragments'[u]]
      /\ fragments'[t] = rows
      /\ \A u \in Txs \ {t} : fragments'[u] = fragments[u]
  BY DEF Inv, Fill
<1>2. ASSUME NEW u \in Txs, u # t PROVE FragmentOk(u)'
  BY <1>1, <1>2 DEF Inv, FragmentOk
<1>3. FragmentOk(t)'
  <2>1. PICK values, m : /\ RecordIs(batch.txs[t], NextRoot(batch, t), values, m)
                         /\ FragmentIs(fragments[t], t, values, m)
    BY DEF Inv, FragmentOk
  <2>2. TxRowIs(row, t, values, m, Len(fragments[t]))
    BY <2>1
  <2>3. IsSequence(fragments[t])
    BY <2>1 DEF FragmentIs
  <2>4. /\ IsSequence(rows) /\ Len(rows) = Len(fragments[t]) + 1
        /\ \A k \in 1 .. Len(fragments[t]) : rows[k] = fragments[t][k]
        /\ rows[Len(fragments[t]) + 1] = row
    BY <2>3, AppendSequence
  <2>5. Len(fragments[t]) \in Nat /\ TxLength \in Nat
    BY <2>3, LengthSteps DEF IsSequence
  <2> HIDE DEF rows
  <2>6. ASSUME NEW k \in 1 .. Len(rows) PROVE TxRowIs(rows[k], t, values, m, k - 1)
    <3>1. CASE k = Len(fragments[t]) + 1
      <4>1. k - 1 = Len(fragments[t])
        BY <2>5, <3>1
      <4> QED BY <2>2, <2>4, <3>1, <4>1
    <3>2. CASE k # Len(fragments[t]) + 1
      <4>1. k \in 1 .. Len(fragments[t])
        BY <2>4, <2>5, <3>2
      <4> QED BY <2>1, <2>4, <4>1 DEF FragmentIs
    <3> QED BY <3>1, <3>2
  <2>7. FragmentIs(rows, t, values, m)
    BY <2>4, <2>5, <2>6 DEF FragmentIs
  <2> QED BY <1>1, <2>1, <2>7 DEF FragmentOk
<1> QED BY <1>1, <1>2, <1>3 DEF Inv

(* Every step of every worker keeps the invariant.                         *)
LEMMA InvNext == Inv /\ [Next]_vars => Inv'
<1> SUFFICES ASSUME Inv, [Next]_vars PROVE Inv'
  OBVIOUS
<1> USE DEF Inv
<1>1. ASSUME NEW t \in Txs, InitFragment(t) PROVE Inv'
  <2>1. fragments[t] = <<>> /\ Len(fragments[t]) = 0 /\ 0 < TxLength
    BY <1>1, EmptySequence, LengthSteps DEF InitFragment
  <2>2. \A values, m : RecordIs(batch.txs[t], NextRoot(batch, t), values, m)
          => TxRowIs(TxFirstRow(batch.txs[t]), t, values, m, Len(fragments[t]))
    BY <2>1, TxRowBegins DEF RecordIs
  <2> QED BY <1>1, <2>1, <2>2, FillKeeps DEF InitFragment
<1>2. ASSUME NEW t \in Txs, UpdateFragment(t) PROVE Inv'
  <2> DEFINE step == Len(fragments[t]) - 1
             row == UpdateTxRow(step, t, fragments[t][step + 1])
  <2>1. Fill(t, row) /\ UNCHANGED batch
    BY <1>2 DEF UpdateFragment
  <2>2. /\ Len(fragments[t]) \in Nat /\ Len(fragments[t]) < TxLength
        /\ step \in Nat /\ step + 1 = Len(fragments[t])
        /\ step + 1 \in 1 .. Len(fragments[t])
    <3>1. IsSequence(fragments[t]) /\ Len(fragments[t]) <= TxLength
      BY DEF FragmentOk, FragmentIs
    <3>2. fragments[t] # <<>> /\ Len(fragments[t]) # TxLength
      BY <1>2 DEF UpdateFragment, Filled
    <3>3. Len(fragments[t]) # 0
      BY <3>1, <3>2, AppendSequence
    <3> QED BY <3>1, <3>2, <3>3, LengthSteps DEF IsSequence
  <2>3. ASSUME NEW values, NEW m,
               RecordIs(batch.txs[t], NextRoot(batch, t), values, m),
               FragmentIs(fragments[t], t, values, m)
        PROVE  TxRowIs(row, t, values, m, Len(fragments[t]))
    <3>1. TxRowIs(fragments[t][step + 1], t, values, m, (step + 1) - 1)
      BY <2>2, <2>3 DEF FragmentIs
    <3>2. (step + 1) - 1 = step
      BY <2>2
    <3>3. Accounts(values) /\ m \in Moves /\ batch.txs[t] = Record(values, m)
      BY <2>3 DEF RecordIs
    <3>4. TxRowIs(row, t, values, m, step + 1)
      <4>1. TxRowIs(fragments[t][step + 1], t, values, m, step)
        BY <3>1, <3>2
      <4> HIDE DEF step
      <4> QED BY <2>2, <3>3, <4>1, TxRowUpdated
    <3> QED BY <2>2, <3>4
  <2> HIDE DEF row, step
  <2> QED BY <2>1, <2>2, <2>3, FillKeeps
<1>3. CASE Built
  BY <1>3 DEF Built, vars, FragmentOk
<1>4. CASE UNCHANGED vars
  BY <1>4 DEF vars, FragmentOk
<1> QED BY <1>1, <1>2, <1>3, <1>4 DEF Next

(* The invariant holds in every order of filling the fragments.            *)
LEMMA InvAlways == Spec => []Inv
BY InvInit, InvNext, PTL DEF Spec

-----------------------------------------------------------------------------
(* The row a fragment was last filled with, in the second half.            *)
LEMMA CurrentIs ==
  ASSUME Inv, NEW t \in Txs, CurrentSigRow(t) >= 0
  PROVE  /\ CurrentSigRow(t) \in Nat
         /\ \E values, m : LET tx == batch.txs[t]
              IN /\ Accounts(values) /\ m \in Moves /\ tx = Record(values, m)
                 /\ Current(t).copies = Copies(tx)
                 /\ Current(t).sig = SigAt(t, tx, CurrentSigRow(t))
<1> DEFINE n == Len(fragments[t])
<1>1. PICK values, m : /\ RecordIs(batch.txs[t], NextRoot(batch, t), values, m)
                       /\ FragmentIs(fragments[t], t, values, m)
  BY DEF Inv, FragmentOk
<1>2. n \in Nat /\ MerkleLength \in Nat /\ CurrentSigRow(t) = (n - 1) - MerkleLength
  BY <1>1, PartLengths DEF FragmentIs, IsSequence, CurrentSigRow
<1>3. /\ CurrentSigRow(t) \in Nat /\ n \in 1 .. Len(fragments[t])
      /\ n - 1 >= MerkleLength
  <2> HIDE DEF n
  <2>1. n \in 1 .. n
    BY <1>2
  <2> QED BY <1>2, <2>1 DEF n
<1>4. TxRowIs(Current(t), t, values, m, n - 1)
  BY <1>1, <1>3 DEF FragmentIs, Current
<1>5. Accounts(values) /\ m \in Moves /\ batch.txs[t] = Record(values, m)
  BY <1>1 DEF RecordIs
<1>6. /\ Current(t).copies = Copies(batch.txs[t])
      /\ Current(t).sig = SigAt(t, batch.txs[t], CurrentSigRow(t))
  BY <1>2, <1>3, <1>4, <1>5 DEF TxRowIs
<1> QED BY <1>3, <1>5, <1>6

(* Both accumulators meet the copies in every complete row.                *)
LEMMA InvMeets == Inv => RangesMeetCopies
<1> SUFFICES ASSUME Inv, NEW t \in Txs, CurrentSigRow(t) >= RangeLog
             PROVE  /\ Current(t).sig.delta.acc = Current(t).copies.delta
                    /\ Current(t).sig.sigma.acc = Current(t).copies.sigma
  BY DEF RangesMeetCopies
<1> DEFINE tx == batch.txs[t]
           s == CurrentSigRow(t)
<1>1. s >= 0
  <2>1. s \in Int /\ RangeLog \in Nat
    <3>1. PICK values, m : FragmentIs(fragments[t], t, values, m)
      BY DEF Inv, FragmentOk
    <3> QED BY <3>1, PartLengths DEF FragmentIs, IsSequence, CurrentSigRow
  <2> QED BY <2>1
<1>2. PICK values, m : /\ Accounts(values) /\ m \in Moves /\ tx = Record(values, m)
                       /\ Current(t).copies = Copies(tx)
                       /\ Current(t).sig = SigAt(t, tx, s)
  BY <1>1, CurrentIs
<1>3. s \in Nat
  BY <1>1, CurrentIs
<1>4. tx.delta \in Field /\ SigmaOf(tx) \in Field
  BY <1>2, RecordFields
<1> HIDE DEF tx, s
<1>5. /\ Current(t).copies.delta = tx.delta /\ Current(t).copies.sigma = SigmaOf(tx)
      /\ Current(t).sig.delta = RangeOf(tx.delta, s)
      /\ Current(t).sig.sigma = RangeOf(SigmaOf(tx), s)
  BY <1>2 DEF Copies, SigmaOf, SigAt
<1>6. s >= RangeLog
  BY DEF s
<1> QED BY <1>3, <1>4, <1>5, <1>6, RangeEnds

(* Both accumulators meet the copies that the bits were taken from, and    *)
(* stay with them to the last row (trace.rs 133-142).                      *)
THEOREM RangesAlwaysMeetCopies == Spec => []RangesMeetCopies
BY InvAlways, InvMeets, PTL

(* The hash state holds the digest of the message once it is complete.     *)
LEMMA InvHashed == Inv => MessageHashed
<1> SUFFICES ASSUME Inv, NEW t \in Txs, CurrentSigRow(t) >= NumHashIter * Cycle - 1
             PROVE  First(Current(t).sig.hash) = HashMessage(t, Message(batch.txs[t]))
  BY DEF MessageHashed
<1> DEFINE tx == batch.txs[t]
           s == CurrentSigRow(t)
           message == Message(tx)
<1>1. /\ Cycle \in Nat \ {0} /\ Rounds = Cycle - 1
      /\ NumHashIter * Cycle = 5 * Cycle
  BY PartLengths
<1>2. s >= 0
  <2>1. s \in Int
    <3>1. PICK values, m : FragmentIs(fragments[t], t, values, m)
      BY DEF Inv, FragmentOk
    <3> QED BY <3>1, PartLengths DEF FragmentIs, IsSequence, CurrentSigRow
  <2> QED BY <1>1, <2>1
<1>3. s \in Nat /\ Current(t).sig = SigAt(t, tx, s)
  BY <1>2, CurrentIs
<1>4. s \in Nat /\ s >= 5 * Cycle - 1
  BY <1>1, <1>3
<1> HIDE DEF tx, s, message
<1>5. Current(t).sig.hash = HashOf(t, message, s)
  BY <1>3 DEF SigAt, message
<1>6. First(HashOf(t, message, s)) = Digests(t, message)[4]
  <2>1. CASE s >= 5 * Cycle
    <3>1. HashOf(t, message, s) = Fresh(Digests(t, message)[4], Zeroes)
      BY <1>4, <2>1, HashRests
    <3> QED BY <3>1 DEF First, Fresh
  <2>2. CASE s = 5 * Cycle - 1
    <3>1. s = Cycle * 4 + (Cycle - 1)
      BY <1>1, <2>2
    <3>2. s \div Cycle = 4 /\ s % Cycle = Cycle - 1
      <4> DEFINE q == 4
                 r == Cycle - 1
      <4>1. s = Cycle * q + r /\ q \in Int /\ r \in 0 .. (Cycle - 1)
        BY <1>1, <3>1
      <4>2. s \div Cycle = q /\ s % Cycle = r
        <5> HIDE DEF q, r
        <5> QED BY <1>1, <4>1
      <4> QED BY <4>2
    <3>3. s < 5 * Cycle
      BY <1>1, <2>2
    <3>4. HashOf(t, message, s) = HashAt(t, message, s)
      BY <1>1, <3>3 DEF HashOf
    <3> QED BY <1>1, <1>4, <3>2, <3>3, <3>4, HashDigest
  <2> QED BY <1>1, <1>4, <2>1, <2>2
<1>7. HashMessage(t, message) = Digests(t, message)[4]
  BY DigestSteps
<1> QED BY <1>5, <1>6, <1>7 DEF message, tx

(* From the row where it is complete to the last, the trace holds the hash *)
(* of the message that was signed (schnorr/mod.rs 247-288, schnorr/trace.rs*)
(* 50-70).                                                                 *)
THEOREM MessageAlwaysHashed == Spec => []MessageHashed
BY InvAlways, InvHashed, PTL
-----------------------------------------------------------------------------
(* The rows of a filled fragment, and the roots of its first and last.     *)
LEMMA FilledFragment ==
  ASSUME Inv, NEW t \in Txs, Filled(t)
  PROVE  /\ \E values, m :
              /\ Accounts(values) /\ m \in Moves
              /\ \A k \in 0 .. (TxLength - 1) :
                   TxRowIs(fragments[t][k + 1], t, values, m, k)
         /\ fragments[t][1].merkle.root = batch.txs[t].root
         /\ fragments[t][TxLength].merkle.root = NextRoot(batch, t)
<1>1. PICK values, m : /\ RecordIs(batch.txs[t], NextRoot(batch, t), values, m)
                       /\ FragmentIs(fragments[t], t, values, m)
  BY DEF Inv, FragmentOk
<1>2. TxLength \in Nat /\ MerkleLength \in Nat /\ MerkleLength > 2
      /\ TxLength = 2 * MerkleLength /\ HashLength > 1 /\ HashLength \in Nat
  BY PartLengths
<1>3. ASSUME NEW k \in 0 .. (TxLength - 1)
      PROVE  TxRowIs(fragments[t][k + 1], t, values, m, k)
  <2>1. k + 1 \in 1 .. Len(fragments[t]) /\ (k + 1) - 1 = k
    BY <1>2 DEF Filled
  <2>2. TxRowIs(fragments[t][k + 1], t, values, m, (k + 1) - 1)
    BY <1>1, <2>1 DEF FragmentIs
  <2> QED BY <2>1, <2>2
<1>4. fragments[t][1].merkle.root = batch.txs[t].root
  <2>1. 0 \in 0 .. (TxLength - 1) /\ 0 + 1 = 1 /\ 0 < MerkleLength /\ 0 < HashLength
    BY <1>2
  <2>2. TxRowIs(fragments[t][0 + 1], t, values, m, 0)
    BY <1>3, <2>1
  <2>3. RowIs(fragments[t][1].merkle, values, m, 0)
    BY <2>1, <2>2 DEF TxRowIs
  <2>4. fragments[t][1].merkle.root = Root(Committed(values))
    BY <2>1, <2>3 DEF RowIs
  <2> QED BY <1>1, <2>4 DEF RecordIs, Record
<1>5. fragments[t][TxLength].merkle.root = NextRoot(batch, t)
  <2> DEFINE k == TxLength - 1
  <2>1. k \in 0 .. (TxLength - 1) /\ k + 1 = TxLength /\ k >= MerkleLength
    BY <1>2
  <2> HIDE DEF k
  <2>2. TxRowIs(fragments[t][k + 1], t, values, m, k)
    BY <1>3, <2>1
  <2>3. fragments[t][TxLength].merkle.root = Root(Committed(Move(values, m)))
    BY <2>1, <2>2 DEF TxRowIs
  <2> QED BY <1>1, <2>3 DEF RecordIs
<1>6. Accounts(values) /\ m \in Moves
  BY <1>1 DEF RecordIs
<1> QED BY <1>3, <1>4, <1>5, <1>6

(* A complete trace obeys the constraints on every row but the last.       *)
LEMMA InvObeys ==
  ASSUME Inv, \A t \in Txs : Filled(t), NEW g \in 0 .. (LastRow - 1)
  PROVE  TxTransitionHolds(g, Row(g), Row(g + 1))
<1> DEFINE step == g % TxLength
           q == g \div TxLength
<1>1. TxLength \in Nat \ {0} /\ NumTx \in Nat \ {0} /\ g \in Nat
  BY LengthSteps, BatchAssumption
<1>2. step \in 0 .. (TxLength - 1) /\ q \in Int
  BY <1>1, Division
<1>3. q + 1 \in Txs /\ (step = TxLength - 1 => q + 2 \in Txs)
  <2>1. g \in 0 .. (NumTx * TxLength - 2)
    BY <1>1 DEF LastRow
  <2> QED BY <2>1, Places
<1>4. Row(g) = fragments[q + 1][step + 1]
  BY DEF Row
<1>5. CASE step = TxLength - 1
  <2>1. (g + 1) % TxLength = 0 /\ (g + 1) \div TxLength = q + 1
    BY <1>1, <1>5, CycleSteps
  <2>2. Row(g + 1) = fragments[q + 2][1]
    <3> HIDE DEF q
    <3>1. (q + 1) + 1 = q + 2 /\ 0 + 1 = 1
      BY <1>2
    <3> QED BY <2>1, <3>1 DEF Row
  <2>3. Row(g) = fragments[q + 1][TxLength]
    <3>1. step + 1 = TxLength
      BY <1>1, <1>5
    <3> QED BY <1>4, <3>1
  <2>4. Row(g).merkle.root = NextRoot(batch, q + 1)
    BY <1>3, <2>3, FilledFragment
  <2>5. Row(g + 1).merkle.root = batch.txs[q + 2].root
    BY <1>3, <1>5, <2>2, FilledFragment
  <2>6. NextRoot(batch, q + 1) = batch.txs[q + 2].root
    <3> HIDE DEF q
    <3>1. q + 1 < NumTx /\ (q + 1) + 1 = q + 2
      BY <1>1, <1>2, <1>3, <1>5 DEF Txs
    <3> QED BY <3>1 DEF NextRoot
  <2>7. Row(g + 1).merkle.root = Row(g).merkle.root
    BY <2>4, <2>5, <2>6
  <2> QED BY <1>1, <1>5, <2>7, TxBorderObeys
<1>6. CASE step # TxLength - 1
  <2>1. (g + 1) % TxLength = step + 1 /\ (g + 1) \div TxLength = q
    BY <1>1, <1>6, CycleSteps
  <2> DEFINE t == q + 1
  <2>2. PICK values, m :
          /\ Accounts(values) /\ m \in Moves
          /\ \A k \in 0 .. (TxLength - 1) :
               TxRowIs(fragments[t][k + 1], t, values, m, k)
    BY <1>3, FilledFragment
  <2>3. Row(g) = fragments[t][step + 1] /\ Row(g + 1) = fragments[t][(step + 1) + 1]
    BY <1>4, <2>1 DEF Row
  <2> HIDE DEF step, t
  <2>4. step \in 0 .. (TxLength - 1) /\ step + 1 \in 0 .. (TxLength - 1)
    BY <1>1, <1>2, <1>6
  <2>5. TxRowIs(Row(g), t, values, m, step) /\ TxRowIs(Row(g + 1), t, values, m, step + 1)
    BY <2>2, <2>3, <2>4
  <2>6. g % TxLength = step
    BY DEF step
  <2> QED BY <1>1, <1>6, <2>2, <2>5, <2>6, TxRowObeys
<1> QED BY <1>5, <1>6

(* The first and the last row hold the roots of the batch.                 *)
LEMMA InvPublic ==
  ASSUME Inv, \A t \in Txs : Filled(t)
  PROVE  PublicInputs = [initial |-> batch.txs[1].root, final |-> batch.finalRoot]
<1>1. TxLength \in Nat \ {0} /\ NumTx \in Nat \ {0} /\ 1 \in Txs /\ NumTx \in Txs
  BY LengthSteps, BatchAssumption DEF Txs
<1>2. Row(0) = fragments[1][1]
  <2>1. 0 \div TxLength = 0 /\ 0 % TxLength = 0
    BY <1>1
  <2> QED BY <2>1 DEF Row
<1>3. Row(LastRow) = fragments[NumTx][TxLength]
  <2>1. /\ LastRow \div TxLength = NumTx - 1 /\ LastRow % TxLength = TxLength - 1
    BY LastPlace DEF LastRow
  <2>2. (NumTx - 1) + 1 = NumTx /\ (TxLength - 1) + 1 = TxLength
    BY <1>1
  <2> QED BY <2>1, <2>2 DEF Row
<1>4. NextRoot(batch, NumTx) = batch.finalRoot
  BY <1>1 DEF NextRoot
<1>5. /\ Row(0).merkle.root = batch.txs[1].root
      /\ Row(LastRow).merkle.root = batch.finalRoot
  BY <1>1, <1>2, <1>3, <1>4, FilledFragment
<1> QED BY <1>5 DEF PublicInputs

(* A complete trace is accepted with the roots of its metadata, whatever   *)
(* order its fragments were filled in: the constraints of the composed     *)
(* program are complete (prover.rs 34-126, air.rs 175-184, 383-610, lib.rs *)
(* 116-150).                                                               *)
THEOREM ExampleAlwaysVerifies == Spec => []ExampleVerifies
<1>1. Inv => ExampleVerifies
  BY InvObeys, InvPublic DEF ExampleVerifies, Accepted
<1> QED BY <1>1, InvAlways, PTL
=============================================================================
