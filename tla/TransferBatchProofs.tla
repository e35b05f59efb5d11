------------------------ MODULE TransferBatchProofs ------------------------
(***************************************************************************)
(* Lemmas about the Merkle tree and the rows that climb it, for every      *)
(* depth, number of rounds and content of the leaves; then the rows of one *)
(* transaction in closed form: where each lane of the Merkle update stands *)
(* at a step, that the builder's update leads from one such row to the     *)
(* next, and that two such rows obey the constraints.                      *)
(***************************************************************************)
EXTENDS TransferBatch, NaturalLemmas

-----------------------------------------------------------------------------
(* Hash states.                                                            *)

(* The rounds applied after m steps of a cycle.                            *)
Applied(m) == [j \in 1 .. m |-> j - 1]

(* The list of rounds applied grows by the next round.                     *)
LEMMA AppliedSteps ==
  /\ Applied(0) = <<>>
  /\ \A m \in Nat : /\ Append(Applied(m), m) = Applied(m + 1)
                    /\ m > 0 => Applied(m) # <<>>
<1>1. Applied(0) = <<>>
  BY DEF Applied
<1>2. ASSUME NEW m \in Nat
      PROVE  /\ Append(Applied(m), m) = Applied(m + 1)
             /\ m > 0 => Applied(m) # <<>>
  <2>1. Applied(m) \in Seq(Nat) /\ Len(Applied(m)) = m
    BY DEF Applied
  <2>2. Applied(m + 1) \in Seq(Nat) /\ Len(Applied(m + 1)) = m + 1
    BY DEF Applied
  <2>3. \A j \in 1 .. (m + 1) :
          Append(Applied(m), m)[j] = Applied(m + 1)[j]
    BY <2>1 DEF Applied
  <2>4. Append(Applied(m), m) = Applied(m + 1)
    <3>1. Append(Applied(m), m) \in Seq(Nat)
          /\ Len(Append(Applied(m), m)) = m + 1
      BY <2>1
    <3> QED BY <2>2, <2>3, <3>1
  <2>5. m > 0 => Applied(m) # <<>>
    BY <2>1
  <2> QED BY <2>4, <2>5
<1> QED BY <1>1, <1>2

(* A digest names the two inputs it was made of.                           *)
LEMMA MergeTerm ==
  ASSUME NEW a, NEW b
  PROVE  Merge(a, b) =
           [half |-> [fst |-> a, snd |-> b, applied |-> Applied(Rounds)]]
<1>1. Applied(Rounds) # <<>>
  BY AppliedSteps, CycleAssumption
<1> QED BY <1>1 DEF Merge, Permuted, First, Applied

(* The idealised hash has no collisions.                                   *)
LEMMA MergeInjective ==
  ASSUME NEW a, NEW b, NEW c, NEW d, Merge(a, b) = Merge(c, d)
  PROVE  a = c /\ b = d
<1> DEFINE x == [fst |-> a, snd |-> b, applied |-> Applied(Rounds)]
           y == [fst |-> c, snd |-> d, applied |-> Applied(Rounds)]
<1>1. [half |-> x] = [half |-> y]
  BY MergeTerm
<1>2. x = y
  <2> HIDE DEF x, y
  <2>1. [half |-> x].half = [half |-> y].half
    BY <1>1
  <2> QED BY <2>1
<1>3. x.fst = y.fst /\ x.snd = y.snd
  BY <1>2
<1> QED BY <1>3

-----------------------------------------------------------------------------
(* The levels of a tree.                                                   *)
LEMMA NodesSteps ==
  ASSUME NEW leaves
  PROVE  /\ Nodes(leaves)[0] = leaves
         /\ \A l \in 0 .. (Depth - 1) :
              Nodes(leaves)[l + 1] =
                [p \in 0 .. (Pow2[Depth - (l + 1)] - 1) |->
                  Merge(Nodes(leaves)[l][2 * p], Nodes(leaves)[l][2 * p + 1])]
<1> DEFINE Up(l, below) == [p \in 0 .. (Pow2[Depth - l] - 1) |->
                             Merge(below[2 * p], below[2 * p + 1])]
           Is(n, g) == g = [l \in 0 .. n |-> IF l = 0 THEN leaves
                                             ELSE Up(l, g[l - 1])]
           T == {n \in Nat : \E g : Is(n, g)}
<1>1. 0 \in T
  <2>1. Is(0, [l \in 0 .. 0 |-> leaves])
    <3> HIDE DEF Up
    <3> QED OBVIOUS
  <2> HIDE DEF Is
  <2> QED BY <2>1
<1>2. ASSUME NEW n \in Nat, n \in T PROVE n + 1 \in T
  <2>1. PICK g : Is(n, g)
    BY <1>2
  <2> DEFINE h == [l \in 0 .. (n + 1) |->
                     IF l = n + 1 THEN Up(n + 1, g[n]) ELSE g[l]]
  <2>2. Is(n + 1, h)
    <3> HIDE DEF Up
    <3> SUFFICES ASSUME NEW l \in 0 .. (n + 1)
                 PROVE  h[l] = IF l = 0 THEN leaves ELSE Up(l, h[l - 1])
      OBVIOUS
    <3>1. CASE l = n + 1
      BY <3>1
    <3>2. CASE l # n + 1
      <4>1. l \in 0 .. n /\ h[l] = g[l] /\ (l # 0 => h[l - 1] = g[l - 1])
        BY <3>2
      <4>2. g[l] = IF l = 0 THEN leaves ELSE Up(l, g[l - 1])
        BY <2>1, <4>1
      <4> QED BY <4>1, <4>2
    <3> QED BY <3>1, <3>2
  <2> HIDE DEF Is
  <2> QED BY <2>2
<1>3. \E g : Is(Depth, g)
  <2>1. Nat \subseteq T
    <3> HIDE DEF T
    <3> QED BY <1>1, <1>2, SetInduction
  <2> HIDE DEF Is
  <2> QED BY <2>1, DepthAssumption
<1>4. Nodes(leaves) = CHOOSE g : Is(Depth, g)
  BY DEF Nodes
<1>5. Is(Depth, Nodes(leaves))
  <2> HIDE DEF Is
  <2> QED BY <1>3, <1>4
<1>6. Nodes(leaves)[0] = leaves
  <2> HIDE DEF Up
  <2> QED BY <1>5, DepthAssumption
<1>7. ASSUME NEW l \in 0 .. (Depth - 1)
      PROVE  Nodes(leaves)[l + 1] = Up(l + 1, Nodes(leaves)[l])
  <2> HIDE DEF Up
  <2>1. l + 1 \in 0 .. Depth /\ l + 1 # 0 /\ (l + 1) - 1 = l
    BY DepthAssumption
  <2> QED BY <1>5, <2>1
<1> QED BY <1>6, <1>7

-----------------------------------------------------------------------------
(* The nodes above a leaf.                                                 *)
Above(i, k) == i \div Pow2[k]
Level(k) == 0 .. (Pow2[Depth - k] - 1)

(* The nodes above leaf i, one on each level, and the bits that tell which *)
(* child of the next each one is (merkle/update/trace.rs 117).             *)
LEMMA Ancestry ==
  ASSUME NEW i \in Index
  PROVE  /\ Above(i, 0) = i /\ Above(i, Depth) = 0
         /\ \A k \in 0 .. Depth : Above(i, k) \in Level(k) /\ Above(i, k) \in Nat
         /\ \A k \in 0 .. (Depth - 1) :
              /\ IndexBit(i, k) \in {0, 1}
              /\ Above(i, k) = 2 * Above(i, k + 1) + IndexBit(i, k)
<1>1. i \in Nat /\ Pow2[Depth] \in Nat
  BY Pow2Positive, DepthAssumption DEF Index
<1>2. Above(i, 0) = i
  BY <1>1, Pow2Steps DEF Above
<1>3. \A k \in 0 .. Depth : Above(i, k) \in Level(k) /\ Level(k) \subseteq Nat
  BY Ancestors, DepthAssumption DEF Index, Above, Level
<1>4. Above(i, Depth) = 0
  <2>1. Depth \in 0 .. Depth /\ Depth - Depth = 0
    BY DepthAssumption
  <2>2. Level(Depth) = 0 .. (1 - 1)
    BY <2>1, Pow2Steps DEF Level
  <2> QED BY <1>3, <2>1, <2>2
<1>5. ASSUME NEW k \in 0 .. (Depth - 1)
      PROVE  /\ IndexBit(i, k) \in {0, 1}
             /\ Above(i, k) = 2 * Above(i, k + 1) + IndexBit(i, k)
  <2>1. k \in Nat /\ k \in 0 .. Depth
    BY DepthAssumption
  <2>2. Above(i, k) \in Nat
    BY <1>3, <2>1
  <2>3. Above(i, k + 1) = Above(i, k) \div 2
    BY <1>1, <2>1, HalfQuotient DEF Above
  <2>4. IndexBit(i, k) = Above(i, k) % 2
    BY DEF IndexBit, Above
  <2> QED BY <2>2, <2>3, <2>4
<1> QED BY <1>2, <1>3, <1>4, <1>5

(* The two children of a node are nodes.                                   *)
LEMMA Pairs ==
  ASSUME NEW k \in 0 .. (Depth - 1), NEW p \in Level(k + 1)
  PROVE  2 * p \in Level(k) /\ 2 * p + 1 \in Level(k)
<1>1. Depth - (k + 1) \in Nat /\ (Depth - (k + 1)) + 1 = Depth - k
  BY DepthAssumption
<1>2. Pow2[Depth - k] = 2 * Pow2[Depth - (k + 1)]
      /\ Pow2[Depth - (k + 1)] \in Nat
  BY <1>1, Pow2Steps
<1> QED BY <1>2 DEF Level

(* A node is the hash of its two children.                                 *)
LEMMA NodeAbove ==
  ASSUME NEW leaves, NEW k \in 0 .. (Depth - 1), NEW p \in Level(k + 1)
  PROVE  Nodes(leaves)[k + 1][p] =
           Merge(Nodes(leaves)[k][2 * p], Nodes(leaves)[k][2 * p + 1])
<1>1. p \in 0 .. (Pow2[Depth - (k + 1)] - 1)
  BY DEF Level
<1>2. Nodes(leaves)[k + 1] =
        [q \in 0 .. (Pow2[Depth - (k + 1)] - 1) |->
          Merge(Nodes(leaves)[k][2 * q], Nodes(leaves)[k][2 * q + 1])]
  BY NodesSteps
<1> QED BY <1>1, <1>2

(* The sibling of a node, and where the pair of them starts.               *)
LEMMA SiblingSide ==
  ASSUME NEW i \in Index, NEW k \in 0 .. (Depth - 1)
  PROVE  /\ Beside(Above(i, k)) \in Level(k)
         /\ Beside(Above(i, k)) # Above(i, k)
         /\ IF IndexBit(i, k) = 0
            THEN /\ Above(i, k) = 2 * Above(i, k + 1)
                 /\ Beside(Above(i, k)) = 2 * Above(i, k + 1) + 1
            ELSE /\ Above(i, k) = 2 * Above(i, k + 1) + 1
                 /\ Beside(Above(i, k)) = 2 * Above(i, k + 1)
<1>1. k + 1 \in 0 .. Depth /\ k \in 0 .. Depth
  BY DepthAssumption
<1> DEFINE p == Above(i, k + 1)
           b == IndexBit(i, k)
<1>2. Above(i, k) = 2 * p + b /\ p \in Nat /\ p \in Level(k + 1)
      /\ b \in {0, 1}
  BY <1>1, Ancestry
<1>3. 2 * p \in Level(k) /\ 2 * p + 1 \in Level(k)
  BY <1>2, Pairs
<1> HIDE DEF p, b
<1>4. IF b = 0 THEN Beside(2 * p + b) = 2 * p + 1 ELSE Beside(2 * p + b) = 2 * p
  BY <1>2 DEF Beside
<1> QED BY <1>2, <1>3, <1>4 DEF p, b

(* Trees that agree on all leaves but one agree on all nodes but those     *)
(* above it.                                                               *)
LEMMA NodesAgree ==
  ASSUME NEW a, NEW b, NEW i \in Index, \A j \in Index \ {i} : a[j] = b[j]
  PROVE  \A k \in 0 .. Depth : \A p \in Level(k) \ {Above(i, k)} :
           Nodes(a)[k][p] = Nodes(b)[k][p]
<1> DEFINE S == {k \in 0 .. Depth : \A p \in Level(k) \ {Above(i, k)} :
                                     Nodes(a)[k][p] = Nodes(b)[k][p]}
<1>1. 0 \in S
  <2>1. Level(0) = Index /\ 0 \in 0 .. Depth
    BY DepthAssumption DEF Level, Index
  <2> QED BY <2>1, NodesSteps, Ancestry
<1>2. ASSUME NEW k \in 0 .. (Depth - 1), k \in S PROVE k + 1 \in S
  <2>1. k + 1 \in 0 .. Depth
    BY DepthAssumption
  <2> SUFFICES ASSUME NEW p \in Level(k + 1), p # Above(i, k + 1)
               PROVE  Nodes(a)[k + 1][p] = Nodes(b)[k + 1][p]
    BY <2>1
  <2>2. 2 * p \in Level(k) /\ 2 * p + 1 \in Level(k)
    BY Pairs
  <2>3. 2 * p # Above(i, k) /\ 2 * p + 1 # Above(i, k)
    <3>1. p \in Int
      BY DEF Level
    <3> QED BY <2>1, <3>1, Ancestry
  <2>4. /\ Nodes(a)[k][2 * p] = Nodes(b)[k][2 * p]
        /\ Nodes(a)[k][2 * p + 1] = Nodes(b)[k][2 * p + 1]
    BY <1>2, <2>2, <2>3
  <2>5. Nodes(a)[k + 1][p] = Merge(Nodes(a)[k][2 * p], Nodes(a)[k][2 * p + 1])
    BY NodeAbove
  <2>6. Nodes(b)[k + 1][p] = Merge(Nodes(b)[k][2 * p], Nodes(b)[k][2 * p + 1])
    BY NodeAbove
  <2> QED BY <2>4, <2>5, <2>6
<1>3. 0 .. Depth \subseteq S
  <2>1. Depth \in Nat
    BY DepthAssumption
  <2> HIDE DEF S
  <2> QED BY <1>1, <1>2, <2>1, IntervalInduction
<1> QED BY <1>3

-----------------------------------------------------------------------------
(* A lane that climbs from a value below leaf i to the root: at a step it  *)
(* holds the pair of nodes it hashes, after the rounds of its cycle.       *)
LaneAt(leaves, i, value, step) ==
  LET l == step \div Cycle
  IN [fst |-> IF l = 0 THEN Load(value).fst
                       ELSE Nodes(leaves)[l - 1][2 * Above(i, l)],
      snd |-> IF l = 0 THEN Load(value).snd
                       ELSE Nodes(leaves)[l - 1][2 * Above(i, l) + 1],
      applied |-> Applied(step % Cycle)]

(* Where the steps of a transaction's hashes lie.                          *)
LEMMA HashSteps ==
  /\ Cycle \in Nat \ {0} /\ Rounds = Cycle - 1 /\ HashLength \in Nat
  /\ HashLength \div Cycle = Depth /\ HashLength % Cycle = Rounds
  /\ \A step \in 0 .. (HashLength - 1) :
       /\ step \div Cycle \in 0 .. Depth /\ step % Cycle \in 0 .. Rounds
       /\ step % Cycle = Rounds => step \div Cycle \in 0 .. (Depth - 1)
<1>1. /\ Cycle \in Nat \ {0} /\ Rounds = Cycle - 1 /\ Rounds \in 0 .. (Cycle - 1)
      /\ Depth \in Nat \ {0}
  BY CycleAssumption, DepthAssumption
<1> DEFINE h == Cycle * Depth + Rounds
<1>2. h \in Nat /\ h = Cycle * Depth + Rounds
  BY <1>1
<1>3. h \div Cycle = Depth /\ h % Cycle = Rounds
  <2> HIDE DEF h
  <2> QED BY <1>1, <1>2
<1>4. ASSUME NEW step \in 0 .. (h - 1)
      PROVE  /\ step \div Cycle \in 0 .. Depth /\ step % Cycle \in 0 .. Rounds
             /\ step % Cycle = Rounds => step \div Cycle \in 0 .. (Depth - 1)
  <2> DEFINE q == step \div Cycle
             r == step % Cycle
  <2>1. step = Cycle * q + r /\ q \in Int /\ r \in 0 .. (Cycle - 1)
    BY <1>1, <1>2
  <2> HIDE DEF q, r
  <2>2. Cycle * q + r < Cycle * Depth + Rounds /\ Cycle * q + r >= 0
    BY <1>2, <2>1
  <2>3. q >= 0
    <3> SUFFICES ASSUME q <= -1 PROVE FALSE
      BY <2>1
    <3>1. Cycle * q <= -Cycle
      <4>1. Cycle * q = Cycle * (q + 1) - Cycle /\ Cycle * (q + 1) <= 0
        BY <1>1, <2>1
      <4> QED BY <1>1, <2>1, <4>1
    <3> QED BY <1>1, <2>1, <2>2, <3>1
  <2>4. ASSUME q >= Depth PROVE q = Depth /\ r < Rounds
    <3>1. Cycle * q = Cycle * Depth + Cycle * (q - Depth)
      BY <1>1, <2>1
    <3>2. CASE q = Depth
      BY <1>1, <2>1, <2>2, <3>2
    <3>3. CASE q >= Depth + 1
      <4>1. Cycle * (q - Depth) >= Cycle
        <5>1. Cycle * (q - Depth) = Cycle * (q - Depth - 1) + Cycle
              /\ Cycle * (q - Depth - 1) >= 0
          BY <1>1, <2>1, <3>3
        <5> QED BY <1>1, <2>1, <5>1
      <4> QED BY <1>1, <2>1, <2>2, <3>1, <4>1
    <3> QED BY <1>1, <2>1, <2>4, <3>2, <3>3
  <2> QED BY <1>1, <2>1, <2>3, <2>4 DEF q, r
<1> QED BY <1>1, <1>2, <1>3, <1>4 DEF HashLength

(* A lane starts as the row that loads the value.                          *)
LEMMA LaneStart ==
  ASSUME NEW leaves, NEW i, NEW value
  PROVE  LaneAt(leaves, i, value, 0) = Load(value)
<1>1. 0 \div Cycle = 0 /\ 0 % Cycle = 0
  BY HashSteps
<1>2. Load(value) = [fst |-> Load(value).fst, snd |-> Load(value).snd,
                     applied |-> <<>>]
  BY DEF Load, Fresh
<1> QED BY <1>1, <1>2, AppliedSteps DEF LaneAt

(* A round of the builder leads from one row of a lane to the next.        *)
LEMMA LaneRound ==
  ASSUME NEW leaves, NEW i, NEW value, NEW step \in Nat, step % Cycle < Rounds
  PROVE  ApplyRound(LaneAt(leaves, i, value, step), step) =
           LaneAt(leaves, i, value, step + 1)
<1>1. /\ (step + 1) \div Cycle = step \div Cycle
      /\ (step + 1) % Cycle = (step % Cycle) + 1
  <2>1. step % Cycle # Cycle - 1
    BY HashSteps
  <2> QED BY <2>1, HashSteps, CycleSteps
<1>2. step % Cycle \in Nat
  BY HashSteps
<1>3. Append(Applied(step % Cycle), step % Cycle) = Applied((step + 1) % Cycle)
  BY <1>1, <1>2, AppliedSteps
<1> DEFINE c == LaneAt(leaves, i, value, step)
           x == c.fst
           y == c.snd
           k == step % Cycle
<1>4. c = [fst |-> x, snd |-> y, applied |-> Applied(k)]
  BY DEF LaneAt
<1>5. LaneAt(leaves, i, value, step + 1) =
        [fst |-> x, snd |-> y, applied |-> Applied((step + 1) % Cycle)]
  BY <1>1 DEF LaneAt
<1>6. ApplyRound(c, step) = [c EXCEPT !.applied = Append(c.applied, k)]
  BY DEF ApplyRound
<1> HIDE DEF c, x, y, k
<1>7. c.applied = Applied(k)
  BY <1>4
<1>8. ApplyRound(c, step) = [fst |-> x, snd |-> y, applied |-> Append(Applied(k), k)]
  BY <1>4, <1>6, <1>7
<1> QED BY <1>3, <1>5, <1>8 DEF c, k

(* At the end of a cycle the digest is the node above the leaf.            *)
LEMMA LaneDigest ==
  ASSUME NEW leaves, NEW i \in Index, NEW value, leaves[i] = Leaf(value),
         NEW step \in 0 .. HashLength, step % Cycle = Rounds
  PROVE  /\ step \div Cycle \in 0 .. Depth
         /\ First(LaneAt(leaves, i, value, step)) =
              Nodes(leaves)[step \div Cycle][Above(i, step \div Cycle)]
<1> DEFINE l == step \div Cycle
           c == LaneAt(leaves, i, value, step)
<1>1. l \in 0 .. Depth
  <2>1. CASE step \in 0 .. (HashLength - 1)
    BY <2>1, HashSteps
  <2>2. CASE step = HashLength
    <3>1. HashLength \div Cycle = Depth
      BY HashSteps
    <3> QED BY <2>2, <3>1, DepthAssumption
  <2>3. step \in 0 .. (HashLength - 1) \/ step = HashLength
    BY HashSteps
  <2> QED BY <2>1, <2>2, <2>3
<1>2. c.applied = Applied(Rounds) /\ c = [fst |-> c.fst, snd |-> c.snd, applied |-> Applied(Rounds)]
  BY DEF LaneAt
<1>3. First(c) = Merge(c.fst, c.snd)
  <2> HIDE DEF c
  <2>1. Applied(Rounds) # <<>>
    BY AppliedSteps, CycleAssumption
  <2> QED BY <1>2, <2>1, MergeTerm DEF First
<1>4. CASE l = 0
  <2>1. c.fst = Load(value).fst /\ c.snd = Load(value).snd
    BY <1>4 DEF LaneAt
  <2>2. First(c) = leaves[i]
    BY <1>3, <2>1 DEF Leaf
  <2>3. Nodes(leaves)[0][Above(i, 0)] = leaves[i]
    BY NodesSteps, Ancestry
  <2> QED BY <1>1, <1>4, <2>2, <2>3
<1>5. CASE l # 0
  <2>1. l - 1 \in 0 .. (Depth - 1) /\ (l - 1) + 1 = l
    <3> HIDE DEF l
    <3> QED BY <1>1, <1>5, DepthAssumption
  <2>2. Above(i, l) \in Level(l)
    BY <1>1, Ancestry
  <2>3. /\ c.fst = Nodes(leaves)[l - 1][2 * Above(i, l)]
        /\ c.snd = Nodes(leaves)[l - 1][2 * Above(i, l) + 1]
    BY <1>5 DEF LaneAt
  <2> HIDE DEF l, c
  <2>4. Nodes(leaves)[(l - 1) + 1][Above(i, l)] =
          Merge(Nodes(leaves)[l - 1][2 * Above(i, l)],
                Nodes(leaves)[l - 1][2 * Above(i, l) + 1])
    BY <2>1, <2>2, NodeAbove
  <2>5. First(c) = Nodes(leaves)[l][Above(i, l)]
    BY <1>3, <2>1, <2>3, <2>4
  <2> QED BY <1>1, <2>5 DEF l, c
<1> QED BY <1>4, <1>5

(* At the end of the hashes the digest of a lane is the root.              *)
LEMMA LaneRoot ==
  ASSUME NEW leaves, NEW i \in Index, NEW value, leaves[i] = Leaf(value)
  PROVE  First(LaneAt(leaves, i, value, HashLength)) = Root(leaves)
<1>1. HashLength \in 0 .. HashLength
  BY HashSteps
<1> QED BY <1>1, LaneDigest, HashSteps, Ancestry DEF Root

(* The sibling a path names takes the lane one level up, also when the     *)
(* path is that of a tree that differs below the same leaf.                *)
LEMMA LaneInsert ==
  ASSUME NEW leaves, NEW i \in Index, NEW value, leaves[i] = Leaf(value),
         NEW other, \A j \in Index \ {i} : other[j] = leaves[j],
         NEW step \in 0 .. (HashLength - 1), step % Cycle = Rounds
  PROVE  Insert(LaneAt(leaves, i, value, step), IndexBit(i, step \div Cycle),
                Prove(other, i)[step \div Cycle + 1]) =
           LaneAt(leaves, i, value, step + 1)
<1> DEFINE l == step \div Cycle
           c == LaneAt(leaves, i, value, step)
           p == Above(i, l)
           q == Above(i, l + 1)
<1>1. l \in 0 .. (Depth - 1) /\ l + 1 \in 0 .. Depth /\ l \in 0 .. Depth
      /\ l + 1 # 0 /\ (l + 1) - 1 = l
  <2>1. l \in 0 .. (Depth - 1)
    BY HashSteps
  <2> HIDE DEF l
  <2> QED BY <2>1, DepthAssumption
<1>2. (step + 1) \div Cycle = l + 1 /\ (step + 1) % Cycle = 0
  <2>1. step % Cycle = Cycle - 1 /\ step \in Nat /\ Cycle \in Nat \ {0}
    BY HashSteps
  <2> QED BY <2>1, CycleSteps
<1>3. First(c) = Nodes(leaves)[l][p]
  <2>1. step \in 0 .. HashLength
    BY HashSteps
  <2> QED BY <2>1, LaneDigest
<1>4. Prove(other, i)[l + 1] = Nodes(other)[l][Beside(p)]
  <2> HIDE DEF l
  <2> QED BY <1>1 DEF Prove, Above, p
<1>5. Nodes(other)[l][Beside(p)] = Nodes(leaves)[l][Beside(p)]
  <2>1. Beside(p) \in Level(l) \ {p}
    BY <1>1, SiblingSide
  <2> HIDE DEF l
  <2> QED BY <1>1, <2>1, NodesAgree DEF p
<1>6. LaneAt(leaves, i, value, step + 1) =
        Fresh(Nodes(leaves)[l][2 * q], Nodes(leaves)[l][2 * q + 1])
  <2> HIDE DEF l
  <2> QED BY <1>1, <1>2, AppliedSteps DEF LaneAt, Fresh
<1>7. IF IndexBit(i, l) = 0 THEN p = 2 * q /\ Beside(p) = 2 * q + 1
                            ELSE p = 2 * q + 1 /\ Beside(p) = 2 * q
  BY <1>1, SiblingSide
<1> HIDE DEF l, c, p, q
<1>8. Insert(c, IndexBit(i, l), Prove(other, i)[l + 1]) =
        Fresh(Nodes(leaves)[l][2 * q], Nodes(leaves)[l][2 * q + 1])
  BY <1>3, <1>4, <1>5, <1>7 DEF Insert
<1> QED BY <1>6, <1>8 DEF l, c

-----------------------------------------------------------------------------
(* The hashes end before the transaction does.                             *)
LEMMA LengthSteps ==
  TxLength \in Nat /\ HashLength \in Nat /\ HashLength > 1 /\ TxLength > HashLength
<1>1. Cycle * Depth \in Nat
  BY HashSteps, DepthAssumption
<1> QED BY <1>1, LengthAssumption, CycleAssumption DEF HashLength

(* Where a row of a step lies among the masks of the whole trace.          *)
LEMMA MaskSteps ==
  ASSUME NEW g \in Nat
  PROVE  /\ g % TxLength \in 0 .. (TxLength - 1)
         /\ g % Cycle = (g % TxLength) % Cycle
<1>1. /\ TxLength \in Nat /\ TxLength > HashLength /\ TxLength % Cycle = 0
      /\ HashLength \in Nat /\ Cycle \in Nat \ {0}
  BY LengthAssumption, HashSteps
<1> DEFINE q == g \div TxLength
           r == g % TxLength
           k == TxLength \div Cycle
           l == r \div Cycle
           m == r % Cycle
<1>3. g = TxLength * q + r /\ q \in Int /\ r \in 0 .. (TxLength - 1)
  BY <1>1
<1>4. TxLength = Cycle * k /\ k \in Int
  <2> DEFINE z == TxLength % Cycle
  <2>1. TxLength = Cycle * k + z /\ k \in Int
    BY <1>1
  <2>2. z = 0
    BY <1>1
  <2> HIDE DEF z, k
  <2> QED BY <1>1, <2>1, <2>2
<1> HIDE DEF q, r, k
<1>5. r = Cycle * l + m /\ l \in Int /\ m \in 0 .. (Cycle - 1)
  BY <1>1, <1>3
<1> HIDE DEF l, m
<1> DEFINE h == k * q + l
<1>6. g = Cycle * h + m /\ h \in Int
  <2>1. g = (Cycle * k) * q + (Cycle * l + m)
    BY <1>3, <1>4, <1>5
  <2>2. (Cycle * k) * q = Cycle * (k * q) /\ k * q \in Int
    BY <1>1, <1>3, <1>4
  <2>3. Cycle * (k * q) + Cycle * l = Cycle * (k * q + l)
    BY <1>1, <1>5, <2>2
  <2> QED BY <1>1, <1>5, <2>1, <2>2, <2>3
<1> HIDE DEF h
<1>7. g % Cycle = m
  BY <1>1, <1>5, <1>6
<1> QED BY <1>1, <1>3, <1>7 DEF m, r

-----------------------------------------------------------------------------
(* The two sides of a transfer.                                            *)
LEMMA Reduced == \A x \in Int : x % P \in Field
BY FieldAssumption DEF Field

(* A debit within the field (lib.rs 375-376).                              *)
LEMMA DebitIsValue ==
  ASSUME NEW v, IsValue(v), NEW d \in Field
  PROVE  /\ IsValue(Debit(v, d)) /\ Debit(v, d).pkey = v.pkey
         /\ Debit(v, d).balance = (v.balance - d) % P
         /\ Debit(v, d).nonce = (v.nonce + 1) % P
<1>1. v \in [pkey : {v.pkey}, balance : Field, nonce : Field]
  BY DEF IsValue
<1>2. v.balance \in Int /\ v.nonce \in Int /\ d \in Int
  BY <1>1, FieldAssumption DEF Field
<1>3. (v.balance - d) % P \in Field /\ (v.nonce + 1) % P \in Field
  BY <1>2, Reduced
<1>4. Debit(v, d) = [pkey |-> v.pkey, balance |-> (v.balance - d) % P,
                     nonce |-> (v.nonce + 1) % P]
  <2>1. v = [pkey |-> v.pkey, balance |-> v.balance, nonce |-> v.nonce]
    BY <1>1
  <2> DEFINE x == (v.balance - d) % P
             y == (v.nonce + 1) % P
  <2>2. Debit(v, d) = [v EXCEPT !.balance = x, !.nonce = y]
    BY DEF Debit
  <2> HIDE DEF x, y, Debit
  <2>3. Debit(v, d) = [pkey |-> v.pkey, balance |-> x, nonce |-> y]
    BY <2>1, <2>2
  <2> QED BY <2>3 DEF x, y
<1> HIDE DEF Debit
<1> QED BY <1>3, <1>4 DEF IsValue

(* A credit within the field (lib.rs 377).                                 *)
LEMMA CreditIsValue ==
  ASSUME NEW v, IsValue(v), NEW d \in Field
  PROVE  /\ IsValue(Credit(v, d)) /\ Credit(v, d).pkey = v.pkey
         /\ Credit(v, d).balance = (v.balance + d) % P
         /\ Credit(v, d).nonce = v.nonce
<1>1. v \in [pkey : {v.pkey}, balance : Field, nonce : Field]
  BY DEF IsValue
<1>2. v.balance \in Int /\ d \in Int
  BY <1>1, FieldAssumption DEF Field
<1>3. (v.balance + d) % P \in Field
  BY <1>2, Reduced
<1>4. Credit(v, d) = [pkey |-> v.pkey, balance |-> (v.balance + d) % P,
                      nonce |-> v.nonce]
  BY <1>1 DEF Credit
<1>5. v.nonce \in Field
  BY <1>1
<1> HIDE DEF Credit
<1> QED BY <1>3, <1>4, <1>5 DEF IsValue

(* What leaves one balance reaches the other.                              *)
LEMMA AmountsAgree ==
  ASSUME NEW x \in Field, NEW y \in Field, NEW d \in Field
  PROVE  (x - ((x - d) % P)) % P = (((y + d) % P) - y) % P
<1>1. P \in Nat /\ P > 1 /\ x \in 0 .. (P - 1) /\ y \in 0 .. (P - 1)
      /\ d \in 0 .. (P - 1)
  BY FieldAssumption DEF Field
<1>2. d % P = d /\ (d - P) % P = d
  <2>1. d = P * 0 + d /\ d - P = P * (-1) + d
    BY <1>1
  <2> DEFINE j == d - P
             q == -1
  <2>2. d % P = d
    BY <1>1
  <2>3. j % P = d
    <3>1. j = P * q + d /\ q \in Int
      BY <2>1
    <3> HIDE DEF j, q
    <3> QED BY <1>1, <3>1
  <2> QED BY <2>2, <2>3
<1>3. x - ((x - d) % P) \in {d, d - P}
  <2>1. CASE x >= d
    BY <1>1, <2>1
  <2>2. CASE x < d
    <3>1. (x - d) % P = x - d + P
      <4> DEFINE j == x - d
                 q == -1
                 r == x - d + P
      <4>1. j = P * q + r /\ q \in Int /\ r \in 0 .. (P - 1)
        BY <1>1, <2>2
      <4>2. j % P = r
        <5> HIDE DEF j, q, r
        <5> QED BY <1>1, <4>1
      <4> QED BY <4>2
    <3> QED BY <1>1, <3>1
  <2> QED BY <1>1, <2>1, <2>2
<1>4. ((y + d) % P) - y \in {d, d - P}
  <2>1. CASE y + d < P
    BY <1>1, <2>1
  <2>2. CASE y + d >= P
    <3>1. (y + d) % P = y + d - P
      <4> DEFINE j == y + d
                 q == 1
                 r == y + d - P
      <4>1. j = P * q + r /\ q \in Int /\ r \in 0 .. (P - 1)
        BY <1>1, <2>2
      <4>2. j % P = r
        <5> HIDE DEF j, q, r
        <5> QED BY <1>1, <4>1
      <4> QED BY <4>2
    <3> QED BY <1>1, <3>1
  <2> QED BY <1>1, <2>1, <2>2
<1> DEFINE e == x - ((x - d) % P)
           f == ((y + d) % P) - y
<1> HIDE DEF e, f
<1>5. e % P = d /\ f % P = d
  <2>1. e \in {d, d - P} /\ f \in {d, d - P}
    BY <1>3, <1>4 DEF e, f
  <2> QED BY <1>2, <2>1
<1> QED BY <1>5 DEF e, f

-----------------------------------------------------------------------------
(* A lane that climbs under leaf i from old in tree a and from new in tree *)
(* b, with the index bit that was inserted last.                           *)
BitAt(i, k, bit) ==
  /\ bit \in {0, 1}
  /\ k > 0 /\ k % Cycle = 0 => bit = IndexBit(i, k \div Cycle - 1)

LaneIs(lane, a, b, i, old, new, k) ==
  /\ lane = [old |-> LaneAt(a, i, old, k), bit |-> lane.bit,
             new |-> LaneAt(b, i, new, k)]
  /\ BitAt(i, k, lane.bit)

(* Two trees that differ below leaf i only.                                *)
Beneath(a, b, i, old, new) ==
  a[i] = Leaf(old) /\ b[i] = Leaf(new) /\ \A j \in Index \ {i} : a[j] = b[j]

(* The builder's first row of a lane.                                      *)
LEMMA LaneBegins ==
  ASSUME NEW a, NEW b, NEW i, NEW old, NEW new
  PROVE  LaneIs([old |-> Load(old), bit |-> 0, new |-> Load(new)],
                a, b, i, old, new, 0)
BY LaneStart DEF LaneIs, BitAt

(* A round on both halves of a lane.                                       *)
LEMMA LaneRounds ==
  ASSUME NEW i \in Index, NEW old, NEW new, NEW a, NEW b,
         NEW step \in Nat, step % Cycle < Rounds,
         NEW lane, LaneIs(lane, a, b, i, old, new, step)
  PROVE  /\ ApplyRound(lane.old, step) = LaneAt(a, i, old, step + 1)
         /\ ApplyRound(lane.new, step) = LaneAt(b, i, new, step + 1)
         /\ \A bit \in {0, 1} : BitAt(i, step + 1, bit)
<1>1. lane.old = LaneAt(a, i, old, step) /\ lane.new = LaneAt(b, i, new, step)
  <2> DEFINE x == LaneAt(a, i, old, step)
             y == LaneAt(b, i, new, step)
  <2>1. lane = [old |-> x, bit |-> lane.bit, new |-> y]
    BY DEF LaneIs
  <2> HIDE DEF x, y
  <2>2. lane.old = x /\ lane.new = y
    BY <2>1
  <2> QED BY <2>2 DEF x, y
<1>2. (step + 1) % Cycle # 0
  <2>1. step % Cycle # Cycle - 1 /\ step % Cycle \in Nat
    BY HashSteps
  <2>2. Cycle \in Nat \ {0}
    BY HashSteps
  <2>3. (step + 1) % Cycle = (step % Cycle) + 1
    BY <2>1, <2>2, CycleSteps
  <2> QED BY <2>1, <2>3
<1>3. \A bit \in {0, 1} : BitAt(i, step + 1, bit)
  BY <1>2 DEF BitAt
<1> QED BY <1>1, <1>3, LaneRound

(* An insertion on both halves of a lane.                                  *)
LEMMA LaneInserts ==
  ASSUME NEW i \in Index, NEW old, NEW new, NEW a, NEW b,
         Beneath(a, b, i, old, new),
         NEW other, other = a \/ other = b,
         NEW step \in 0 .. (HashLength - 1), step % Cycle = Rounds,
         NEW lane, LaneIs(lane, a, b, i, old, new, step)
  PROVE  LET bit == IndexBit(i, step \div Cycle)
             node == Prove(other, i)[step \div Cycle + 1]
         IN /\ Insert(lane.old, bit, node) = LaneAt(a, i, old, step + 1)
            /\ Insert(lane.new, bit, node) = LaneAt(b, i, new, step + 1)
            /\ BitAt(i, step + 1, bit)
<1>1. lane.old = LaneAt(a, i, old, step) /\ lane.new = LaneAt(b, i, new, step)
  <2> DEFINE x == LaneAt(a, i, old, step)
             y == LaneAt(b, i, new, step)
  <2>1. lane = [old |-> x, bit |-> lane.bit, new |-> y]
    BY DEF LaneIs
  <2> HIDE DEF x, y
  <2>2. lane.old = x /\ lane.new = y
    BY <2>1
  <2> QED BY <2>2 DEF x, y
<1>2. /\ \A j \in Index \ {i} : other[j] = a[j]
      /\ \A j \in Index \ {i} : other[j] = b[j]
  BY DEF Beneath
<1>3. a[i] = Leaf(old) /\ b[i] = Leaf(new)
  BY DEF Beneath
<1>4. BitAt(i, step + 1, IndexBit(i, step \div Cycle))
  <2>1. (step + 1) % Cycle = 0 /\ (step + 1) \div Cycle = step \div Cycle + 1
        /\ step \div Cycle \in 0 .. (Depth - 1)
    <3>1. step \in Nat /\ step % Cycle = Cycle - 1
      BY HashSteps
    <3> QED BY <3>1, HashSteps, CycleSteps
  <2>2. IndexBit(i, step \div Cycle) \in {0, 1}
    BY <2>1, Ancestry
  <2>3. (step + 1) \div Cycle - 1 = step \div Cycle
    <3> DEFINE l == step \div Cycle
    <3>1. (step + 1) \div Cycle = l + 1 /\ l \in Int
      BY <2>1
    <3> HIDE DEF l
    <3>2. (step + 1) \div Cycle - 1 = l
      BY <3>1
    <3> QED BY <3>2 DEF l
  <2> QED BY <2>2, <2>3 DEF BitAt
<1> QED BY <1>1, <1>2, <1>3, <1>4, LaneInsert

(* The builder's update of a lane.                                         *)
LEMMA LaneUpdated ==
  ASSUME NEW i \in Index, NEW old, NEW new, NEW a, NEW b,
         Beneath(a, b, i, old, new),
         NEW other, other = a \/ other = b,
         NEW step \in 0 .. (HashLength - 1),
         NEW lane, LaneIs(lane, a, b, i, old, new, step)
  PROVE  LaneIs(UpdateLane(step, i, Prove(other, i), lane),
                a, b, i, old, new, step + 1)
<1>1. lane.bit \in {0, 1}
  BY DEF LaneIs, BitAt
<1> DEFINE x == LaneAt(a, i, old, step + 1)
           y == LaneAt(b, i, new, step + 1)
<1>2. CASE step % Cycle < Rounds
  <2>1. ApplyRound(lane.old, step) = x /\ ApplyRound(lane.new, step) = y
        /\ BitAt(i, step + 1, lane.bit)
    <3>1. step \in Nat
      OBVIOUS
    <3>2. /\ ApplyRound(lane.old, step) = LaneAt(a, i, old, step + 1)
          /\ ApplyRound(lane.new, step) = LaneAt(b, i, new, step + 1)
          /\ \A bit \in {0, 1} : BitAt(i, step + 1, bit)
      BY ONLY <1>2, <3>1, i \in Index, LaneIs(lane, a, b, i, old, new, step),
              LaneRounds
    <3>3. ApplyRound(lane.old, step) = x /\ ApplyRound(lane.new, step) = y
      BY <3>2
    <3> HIDE DEF x, y
    <3> QED BY <1>1, <3>2, <3>3
  <2>2. lane = [old |-> lane.old, bit |-> lane.bit, new |-> lane.new]
    <3> DEFINE u == LaneAt(a, i, old, step)
               w == LaneAt(b, i, new, step)
    <3>1. lane = [old |-> u, bit |-> lane.bit, new |-> w]
      BY DEF LaneIs
    <3> HIDE DEF u, w
    <3> QED BY <3>1
  <2>3. UpdateLane(step, i, Prove(other, i), lane) =
          [lane EXCEPT !.old = ApplyRound(@, step), !.new = ApplyRound(@, step)]
    BY <1>2 DEF UpdateLane
  <2> HIDE DEF x, y
  <2>4. UpdateLane(step, i, Prove(other, i), lane) =
          [old |-> x, bit |-> lane.bit, new |-> y]
    BY <2>1, <2>2, <2>3
  <2> QED BY <2>1, <2>4 DEF LaneIs, x, y
<1>3. CASE ~(step % Cycle < Rounds)
  <2> DEFINE bit == IndexBit(i, step \div Cycle)
             node == Prove(other, i)[step \div Cycle + 1]
  <2>1. step % Cycle = Rounds
    BY <1>3, HashSteps
  <2>2. /\ Insert(lane.old, bit, node) = x /\ Insert(lane.new, bit, node) = y
        /\ BitAt(i, step + 1, bit)
    BY <2>1, LaneInserts
  <2>3. UpdateLane(step, i, Prove(other, i), lane) =
          [old |-> x, bit |-> bit, new |-> y]
    BY <1>3, <2>2 DEF UpdateLane
  <2> HIDE DEF x, y, bit, node
  <2> QED BY <2>2, <2>3 DEF LaneIs, x, y
<1> QED BY <1>2, <1>3

(* Two such rows of a lane obey the constraints on it.                     *)
LEMMA LaneObeys ==
  ASSUME NEW i \in Index, NEW old, NEW new, NEW a, NEW b,
         Beneath(a, b, i, old, new),
         NEW step \in 0 .. (HashLength - 1),
         NEW g, g % TxLength = step, g % Cycle = step % Cycle,
         NEW cur, LaneIs(cur, a, b, i, old, new, step),
         NEW next, LaneIs(next, a, b, i, old, new, step + 1)
  PROVE  LaneHolds(g, cur, next)
<1> DEFINE x == LaneAt(a, i, old, step + 1)
           y == LaneAt(b, i, new, step + 1)
<1>1. next.bit \in {0, 1} /\ next.old = x /\ next.new = y
  <2>1. next = [old |-> x, bit |-> next.bit, new |-> y]
    BY DEF LaneIs
  <2> HIDE DEF x, y
  <2> QED BY <2>1 DEF LaneIs, BitAt
<1>2. step \in Nat
  OBVIOUS
<1>3. CASE step % Cycle < Rounds
  <2>1. ApplyRound(cur.old, step) = x /\ ApplyRound(cur.new, step) = y
    <3>1. ASSUME NEW lane, LaneIs(lane, a, b, i, old, new, step)
          PROVE  ApplyRound(lane.old, step) = x /\ ApplyRound(lane.new, step) = y
      BY <1>2, <1>3, <3>1, LaneRounds, CycleAssumption
    <3> HIDE DEF x, y
    <3> QED BY <3>1
  <2>2. ~InputMask(g)
    BY <1>3, HashSteps DEF InputMask
  <2>3. next.old = ApplyRound(cur.old, g) /\ next.new = ApplyRound(cur.new, g)
    BY <1>1, <2>1 DEF ApplyRound
  <2>4. RoundMask(g)
    BY <1>3, HashSteps DEF RoundMask, HashingMask
  <2> HIDE DEF x, y
  <2>5. \A c \in {"old", "new"} : next[c] = ApplyRound(cur[c], g)
    BY <2>3
  <2> QED BY <1>1, <2>2, <2>4, <2>5 DEF LaneHolds, IsBinary, RoundHolds
<1>4. CASE ~(step % Cycle < Rounds)
  <2> DEFINE bit == IndexBit(i, step \div Cycle)
             node == Prove(a, i)[step \div Cycle + 1]
  <2>1. step % Cycle = Rounds
    BY <1>4, HashSteps
  <2>2. next.old = Insert(cur.old, bit, node)
        /\ next.new = Insert(cur.new, bit, node)
    BY <1>1, <2>1, LaneInserts
  <2>3. next.bit = bit
    <3>1. (step + 1) % Cycle = 0 /\ (step + 1) \div Cycle = step \div Cycle + 1
      <4>1. step % Cycle = Cycle - 1
        BY <2>1, HashSteps
      <4> QED BY <1>2, <4>1, HashSteps, CycleSteps
    <3>2. (step + 1) \div Cycle - 1 = step \div Cycle
      BY <3>1, HashSteps
    <3> QED BY <3>1, <3>2 DEF LaneIs, BitAt
  <2>4. InputMask(g) /\ HashingMask(g) /\ ~RoundMask(g)
    BY <2>1, HashSteps DEF InputMask, HashingMask, RoundMask
  <2> HIDE DEF x, y, bit, node
  <2>5. /\ InsertHolds(bit, cur.old, next.old) /\ InsertHolds(bit, cur.new, next.new)
        /\ SameSibling(next)
    BY <2>2, <2>3 DEF InsertHolds, SameSibling, Insert, Fresh, First, Second
  <2>6. \A c \in {"old", "new"} : InsertHolds(next.bit, cur[c], next[c])
    BY <2>3, <2>5
  <2> QED BY <1>1, <2>4, <2>5, <2>6 DEF LaneHolds, IsBinary
<1> QED BY <1>3, <1>4

-----------------------------------------------------------------------------
(* One transfer, and the tree between its two updates.                     *)
Debited(values, m) == [values EXCEPT ![m.s] = Debit(@, m.delta)]

(* A transfer debits one value and credits another.                        *)
LEMMA MoveSteps ==
  ASSUME NEW values, Accounts(values), NEW m \in Moves
  PROVE  /\ m.s \in Index /\ m.r \in Index /\ m.s # m.r /\ m.delta \in Field
         /\ IsValue(values[m.s]) /\ IsValue(values[m.r])
         /\ Move(values, m) =
              [i \in Index |-> IF i = m.s THEN Debit(values[i], m.delta)
                               ELSE IF i = m.r THEN Credit(values[i], m.delta)
                               ELSE values[i]]
         /\ Debited(values, m) =
              [i \in Index |-> IF i = m.s THEN Debit(values[i], m.delta)
                                          ELSE values[i]]
         /\ Accounts(Move(values, m))
<1>1. m.s \in Index /\ m.r \in Index /\ m.s # m.r /\ m.delta \in Field
  BY DeltasAssumption DEF Moves
<1>2. values = [i \in Index |-> values[i]] /\ \A i \in Index : IsValue(values[i])
  BY DEF Accounts
<1>3. Debited(values, m) =
        [i \in Index |-> IF i = m.s THEN Debit(values[i], m.delta) ELSE values[i]]
  BY <1>1, <1>2 DEF Debited
<1>4. Move(values, m) =
        [i \in Index |-> IF i = m.s THEN Debit(values[i], m.delta)
                         ELSE IF i = m.r THEN Credit(values[i], m.delta)
                         ELSE values[i]]
  BY <1>1, <1>2 DEF Move
<1>5. Accounts(Move(values, m))
  <2>1. \A i \in Index : IsValue(Debit(values[i], m.delta))
    BY <1>1, <1>2, DebitIsValue
  <2>2. \A i \in Index : IsValue(Credit(values[i], m.delta))
    BY <1>1, <1>2, CreditIsValue
  <2> QED BY <1>2, <1>4, <2>1, <2>2 DEF Accounts
<1> QED BY <1>1, <1>2, <1>3, <1>4, <1>5

(* The trees before and after the debit differ in the sender's leaf only.  *)
LEMMA SenderBeneath ==
  ASSUME NEW values, Accounts(values), NEW m \in Moves
  PROVE  Beneath(Committed(values), Committed(Debited(values, m)), m.s,
                 values[m.s], Debit(values[m.s], m.delta))
BY MoveSteps DEF Beneath, Committed

(* The trees before and after the credit differ in the receiver's leaf     *)
(* only.                                                                   *)
LEMMA ReceiverBeneath ==
  ASSUME NEW values, Accounts(values), NEW m \in Moves
  PROVE  Beneath(Committed(Debited(values, m)), Committed(Move(values, m)), m.r,
                 values[m.r], Credit(values[m.r], m.delta))
BY MoveSteps DEF Beneath, Committed

(* The values after each transfer of a batch.                              *)
LEMMA TransferSteps ==
  ASSUME NEW values, NEW moves
  PROVE  /\ Transfers(values, moves)[0] = values
         /\ \A k \in 0 .. (NumTx - 1) :
              Transfers(values, moves)[k + 1] =
                Move(Transfers(values, moves)[k], moves[k + 1])
<1> DEFINE Up(k, before) == Move(before, moves[k])
           Is(n, g) == g = [k \in 0 .. n |-> IF k = 0 THEN values
                                             ELSE Up(k, g[k - 1])]
           T == {n \in Nat : \E g : Is(n, g)}
<1>1. 0 \in T
  <2>1. Is(0, [k \in 0 .. 0 |-> values])
    <3> HIDE DEF Up
    <3> QED OBVIOUS
  <2> HIDE DEF Is
  <2> QED BY <2>1
<1>2. ASSUME NEW n \in Nat, n \in T PROVE n + 1 \in T
  <2>1. PICK g : Is(n, g)
    BY <1>2
  <2> DEFINE h == [k \in 0 .. (n + 1) |->
                     IF k = n + 1 THEN Up(n + 1, g[n]) ELSE g[k]]
  <2>2. Is(n + 1, h)
    <3> HIDE DEF Up
    <3> SUFFICES ASSUME NEW k \in 0 .. (n + 1)
                 PROVE  h[k] = IF k = 0 THEN values ELSE Up(k, h[k - 1])
      OBVIOUS
    <3>1. CASE k = n + 1
      BY <3>1
    <3>2. CASE k # n + 1
      <4>1. k \in 0 .. n /\ h[k] = g[k] /\ (k # 0 => h[k - 1] = g[k - 1])
        BY <3>2
      <4>2. g[k] = IF k = 0 THEN values ELSE Up(k, g[k - 1])
        BY <2>1, <4>1
      <4> QED BY <4>1, <4>2
    <3> QED BY <3>1, <3>2
  <2> HIDE DEF Is
  <2> QED BY <2>2
<1>3. \E g : Is(NumTx, g)
  <2>1. Nat \subseteq T
    <3> HIDE DEF T
    <3> QED BY <1>1, <1>2, SetInduction
  <2> HIDE DEF Is
  <2> QED BY <2>1, BatchAssumption
<1>4. Transfers(values, moves) = CHOOSE g : Is(NumTx, g)
  BY DEF Transfers
<1>5. Is(NumTx, Transfers(values, moves))
  <2> HIDE DEF Is
  <2> QED BY <1>3, <1>4
<1>6. Transfers(values, moves)[0] = values
  <2> HIDE DEF Up
  <2> QED BY <1>5, BatchAssumption
<1>7. ASSUME NEW k \in 0 .. (NumTx - 1)
      PROVE  Transfers(values, moves)[k + 1] = Up(k + 1, Transfers(values, moves)[k])
  <2> HIDE DEF Up
  <2>1. k + 1 \in 0 .. NumTx /\ k + 1 # 0 /\ (k + 1) - 1 = k
    BY BatchAssumption
  <2> QED BY <1>5, <2>1
<1> QED BY <1>6, <1>7

(* What a batch records of transaction t: a transfer between the accounts  *)
(* that the transfers before it left.                                      *)
RecordIs(tx, after, values, m) ==
  /\ Accounts(values) /\ m \in Moves
  /\ tx = Record(values, m) /\ after = Root(Committed(Move(values, m)))

NextRoot(b, t) == IF t < NumTx THEN b.txs[t + 1].root ELSE b.finalRoot

(* Every transaction of a batch is the record of a transfer of a tree, and *)
(* ends at the root of the next one.                                       *)
LEMMA BatchRecords ==
  ASSUME NEW b \in Batches
  PROVE  \A t \in Txs : \E values, m : RecordIs(b.txs[t], NextRoot(b, t), values, m)
<1>1. PICK genesis \in Genesis, moves \in [Txs -> Moves] :
        b = Metadata(genesis, moves)
  BY DEF Batches
<1> DEFINE after == Transfers(genesis, moves)
           S == {k \in 0 .. NumTx : Accounts(after[k])}
<1>2. 0 \in S
  BY TransferSteps, GenesisAssumption, BatchAssumption
<1>3. ASSUME NEW k \in 0 .. (NumTx - 1), k \in S PROVE k + 1 \in S
  <2>1. k + 1 \in 0 .. NumTx /\ moves[k + 1] \in Moves
    BY BatchAssumption DEF Txs
  <2>2. after[k + 1] = Move(after[k], moves[k + 1])
    BY TransferSteps
  <2> QED BY <1>3, <2>1, <2>2, MoveSteps
<1>4. \A k \in 0 .. NumTx : Accounts(after[k])
  <2>1. NumTx \in Nat
    BY BatchAssumption
  <2>2. 0 .. NumTx \subseteq S
    <3> HIDE DEF S
    <3> QED BY <1>2, <1>3, <2>1, IntervalInduction
  <2> QED BY <2>2
<1>5. /\ \A t \in Txs : b.txs[t] = Record(after[t - 1], moves[t])
      /\ b.finalRoot = Root(Committed(after[NumTx]))
  <2> HIDE DEF after
  <2> QED BY <1>1 DEF Metadata, after
<1>6. ASSUME NEW t \in Txs
      PROVE  RecordIs(b.txs[t], NextRoot(b, t), after[t - 1], moves[t])
  <2>1. t - 1 \in 0 .. (NumTx - 1) /\ t - 1 \in 0 .. NumTx /\ (t - 1) + 1 = t
    BY BatchAssumption DEF Txs
  <2>2. after[t] = Move(after[t - 1], moves[t])
    <3> DEFINE k == t - 1
    <3>1. after[k + 1] = Move(after[k], moves[k + 1])
      BY <2>1, TransferSteps
    <3> HIDE DEF after
    <3> QED BY <2>1, <3>1
  <2>3. NextRoot(b, t) = Root(Committed(after[t]))
    <3>1. CASE t < NumTx
      <4>1. t + 1 \in Txs /\ (t + 1) - 1 = t
        BY <3>1, BatchAssumption DEF Txs
      <4>2. b.txs[t + 1] = Record(after[t], moves[t + 1])
        <5> HIDE DEF after
        <5> QED BY <1>5, <4>1
      <4>3. b.txs[t + 1].root = Root(Committed(after[t]))
        BY <4>2 DEF Record
      <4> QED BY <3>1, <4>3 DEF NextRoot
    <3>2. CASE ~(t < NumTx)
      <4>1. t = NumTx
        BY <3>2, BatchAssumption DEF Txs
      <4> QED BY <1>5, <3>2, <4>1 DEF NextRoot
    <3> QED BY <3>1, <3>2
  <2> HIDE DEF after
  <2> QED BY <1>4, <1>5, <2>1, <2>2, <2>3 DEF RecordIs
<1> QED BY <1>6

-----------------------------------------------------------------------------
(* The row of a transfer at a step.  Past the hashes the lanes rest.       *)
Hashed(step) == IF step < HashLength THEN step ELSE HashLength

SenderIs(lane, values, m, k) ==
  LaneIs(lane, Committed(values), Committed(Debited(values, m)), m.s,
         values[m.s], Debit(values[m.s], m.delta), k)
ReceiverIs(lane, values, m, k) ==
  LaneIs(lane, Committed(Debited(values, m)), Committed(Move(values, m)), m.r,
         values[m.r], Credit(values[m.r], m.delta), k)

RowIs(row, values, m, step) ==
  /\ row = [s |-> row.s, r |-> row.r, root |-> row.root]
  /\ SenderIs(row.s, values, m, Hashed(step))
  /\ ReceiverIs(row.r, values, m, Hashed(step))
  /\ row.root = IF step < HashLength THEN Root(Committed(values))
                                     ELSE Root(Committed(Move(values, m)))

(* The builder's first row of a transaction is row 0 in closed form.       *)
LEMMA RowBegins ==
  ASSUME NEW values, NEW m
  PROVE  RowIs(FirstRow(Record(values, m)), values, m, 0)
<1> DEFINE row == FirstRow(Record(values, m))
<1>1. /\ row.s = [old |-> Load(values[m.s]), bit |-> 0,
                  new |-> Load(Debit(values[m.s], m.delta))]
      /\ row.r = [old |-> Load(values[m.r]), bit |-> 0,
                  new |-> Load(Credit(values[m.r], m.delta))]
      /\ row.root = Root(Committed(values))
      /\ row = [s |-> row.s, r |-> row.r, root |-> row.root]
  BY DEF FirstRow, Record
<1>2. 0 < HashLength
  BY LengthSteps
<1>3. SenderIs(row.s, values, m, 0) /\ ReceiverIs(row.r, values, m, 0)
  <2> HIDE DEF row
  <2> QED BY <1>1, LaneBegins DEF SenderIs, ReceiverIs
<1> HIDE DEF row
<1>4. Hashed(0) = 0
  BY <1>2 DEF Hashed
<1>5. RowIs(row, values, m, 0)
  BY <1>1, <1>2, <1>3, <1>4 DEF RowIs
<1> QED BY <1>5 DEF row

(* At the end of the hashes a transaction holds the root before it and the *)
(* root after it.                                                          *)
LEMMA HashEnd ==
  ASSUME NEW values, Accounts(values), NEW m \in Moves
  PROVE  /\ \A s : SenderIs(s, values, m, HashLength) =>
                   First(s.old) = Root(Committed(values))
         /\ \A r : ReceiverIs(r, values, m, HashLength) =>
                   First(r.new) = Root(Committed(Move(values, m)))
         /\ \A s, r : /\ SenderIs(s, values, m, HashLength)
                      /\ ReceiverIs(r, values, m, HashLength)
                      => First(s.new) = First(r.old)
<1> DEFINE a == Committed(values)
           b == Committed(Debited(values, m))
           c == Committed(Move(values, m))
<1>1. m.s \in Index /\ m.r \in Index
  BY MoveSteps
<1>2. /\ a[m.s] = Leaf(values[m.s]) /\ b[m.s] = Leaf(Debit(values[m.s], m.delta))
      /\ b[m.r] = Leaf(values[m.r]) /\ c[m.r] = Leaf(Credit(values[m.r], m.delta))
  BY SenderBeneath, ReceiverBeneath DEF Beneath
<1>3. /\ First(LaneAt(a, m.s, values[m.s], HashLength)) = Root(a)
      /\ First(LaneAt(b, m.s, Debit(values[m.s], m.delta), HashLength)) = Root(b)
      /\ First(LaneAt(b, m.r, values[m.r], HashLength)) = Root(b)
      /\ First(LaneAt(c, m.r, Credit(values[m.r], m.delta), HashLength)) = Root(c)
  BY <1>1, <1>2, LaneRoot
<1>4. ASSUME NEW s, SenderIs(s, values, m, HashLength)
      PROVE  /\ s.old = LaneAt(a, m.s, values[m.s], HashLength)
             /\ s.new = LaneAt(b, m.s, Debit(values[m.s], m.delta), HashLength)
  <2> DEFINE x == LaneAt(a, m.s, values[m.s], HashLength)
             y == LaneAt(b, m.s, Debit(values[m.s], m.delta), HashLength)
  <2>1. s = [old |-> x, bit |-> s.bit, new |-> y]
    BY <1>4 DEF SenderIs, LaneIs
  <2> HIDE DEF x, y
  <2>2. s.old = x /\ s.new = y
    BY <2>1
  <2> QED BY <2>2 DEF x, y
<1>5. ASSUME NEW r, ReceiverIs(r, values, m, HashLength)
      PROVE  /\ r.old = LaneAt(b, m.r, values[m.r], HashLength)
             /\ r.new = LaneAt(c, m.r, Credit(values[m.r], m.delta), HashLength)
  <2> DEFINE x == LaneAt(b, m.r, values[m.r], HashLength)
             y == LaneAt(c, m.r, Credit(values[m.r], m.delta), HashLength)
  <2>1. r = [old |-> x, bit |-> r.bit, new |-> y]
    BY <1>5 DEF ReceiverIs, LaneIs
  <2> HIDE DEF x, y
  <2>2. r.old = x /\ r.new = y
    BY <2>1
  <2> QED BY <2>2 DEF x, y
<1> HIDE DEF a, b, c
<1>6. /\ \A s : SenderIs(s, values, m, HashLength) => First(s.old) = Root(a)
      /\ \A r : ReceiverIs(r, values, m, HashLength) => First(r.new) = Root(c)
      /\ \A s, r : /\ SenderIs(s, values, m, HashLength)
                   /\ ReceiverIs(r, values, m, HashLength)
                   => First(s.new) = First(r.old)
  BY <1>3, <1>4, <1>5
<1> QED BY <1>6 DEF a, c

(* The builder's update leads from the row of a step to that of the next.  *)
LEMMA RowUpdated ==
  ASSUME NEW values, Accounts(values), NEW m \in Moves,
         NEW step \in Nat, NEW row, RowIs(row, values, m, step)
  PROVE  RowIs(UpdateRow(step, Record(values, m), row), values, m, step + 1)
<1> DEFINE tx == Record(values, m)
<1>1. CASE step < HashLength
  <2> DEFINE s == UpdateLane(step, tx.sIndex, tx.sPath, row.s)
             r == UpdateLane(step, tx.rIndex, tx.rPath, row.r)
             next == UpdateRow(step, tx, row)
  <2>1. step \in 0 .. (HashLength - 1) /\ Hashed(step) = step
        /\ Hashed(step + 1) = step + 1
    BY <1>1, HashSteps DEF Hashed
  <2>2. /\ tx.sIndex = m.s /\ tx.rIndex = m.r
        /\ tx.sPath = Prove(Committed(values), m.s)
        /\ tx.rPath = Prove(Committed(Move(values, m)), m.r)
    BY DEF Record
  <2>3. m.s \in Index /\ m.r \in Index
    BY MoveSteps
  <2>4. SenderIs(s, values, m, step + 1)
    <3>1. SenderIs(row.s, values, m, step)
      BY <2>1 DEF RowIs
    <3>2. LaneIs(UpdateLane(step, m.s, Prove(Committed(values), m.s), row.s),
                 Committed(values), Committed(Debited(values, m)), m.s,
                 values[m.s], Debit(values[m.s], m.delta), step + 1)
      BY <2>1, <2>3, <3>1, SenderBeneath, LaneUpdated DEF SenderIs
    <3> QED BY <2>2, <3>2 DEF SenderIs
  <2>5. ReceiverIs(r, values, m, step + 1)
    <3>1. ReceiverIs(row.r, values, m, step)
      BY <2>1 DEF RowIs
    <3>2. LaneIs(UpdateLane(step, m.r, Prove(Committed(Move(values, m)), m.r), row.r),
                 Committed(Debited(values, m)), Committed(Move(values, m)), m.r,
                 values[m.r], Credit(values[m.r], m.delta), step + 1)
      BY <2>1, <2>3, <3>1, ReceiverBeneath, LaneUpdated DEF ReceiverIs
    <3> QED BY <2>2, <3>2 DEF ReceiverIs
  <2>6. /\ next = [s |-> next.s, r |-> next.r, root |-> next.root]
        /\ next.s = s /\ next.r = r
        /\ next.root = IF step = HashLength - 1 THEN First(r.new) ELSE row.root
    <3> HIDE DEF s, r, tx
    <3> QED BY <1>1 DEF UpdateRow, s, r
  <2>7. row.root = Root(Committed(values))
    BY <1>1 DEF RowIs
  <2> HIDE DEF s, r, next
  <2>8. CASE step = HashLength - 1
    <3>1. step + 1 = HashLength /\ ~(step + 1 < HashLength)
      BY <2>8, HashSteps
    <3>2. First(r.new) = Root(Committed(Move(values, m)))
      <4>1. ReceiverIs(r, values, m, HashLength)
        BY <2>5, <3>1
      <4> QED BY <4>1, HashEnd
    <3>3. RowIs(next, values, m, step + 1)
      BY <2>1, <2>4, <2>5, <2>6, <2>8, <3>1, <3>2 DEF RowIs
    <3> QED BY <3>3 DEF next
  <2>9. CASE step # HashLength - 1
    <3>1. step + 1 < HashLength
      BY <1>1, <2>9, HashSteps
    <3>2. RowIs(next, values, m, step + 1)
      BY <2>1, <2>4, <2>5, <2>6, <2>7, <2>9, <3>1 DEF RowIs
    <3> QED BY <3>2 DEF next
  <2> QED BY <2>8, <2>9
<1>2. CASE ~(step < HashLength)
  <2>1. UpdateRow(step, tx, row) = row
    BY <1>2 DEF UpdateRow
  <2>2. ~(step + 1 < HashLength)
    BY <1>2, HashSteps
  <2>3. Hashed(step) = Hashed(step + 1)
    BY <1>2, <2>2 DEF Hashed
  <2> QED BY <1>2, <2>1, <2>2, <2>3 DEF RowIs
<1> QED BY <1>1, <1>2

-----------------------------------------------------------------------------
(* The first row of a transaction obeys the setup constraints.             *)
LEMMA SetupObeyed ==
  ASSUME NEW values, Accounts(values), NEW m \in Moves,
         NEW row, RowIs(row, values, m, 0)
  PROVE  SetupHolds(row)
<1> DEFINE x == values[m.s]
           y == values[m.r]
           d == m.delta
<1>1. IsValue(x) /\ IsValue(y) /\ d \in Field
  BY MoveSteps
<1>2. Hashed(0) = 0
  BY LengthSteps DEF Hashed
<1>3. /\ row.s = [old |-> Load(x), bit |-> row.s.bit, new |-> Load(Debit(x, d))]
      /\ row.r = [old |-> Load(y), bit |-> row.r.bit, new |-> Load(Credit(y, d))]
  BY <1>2, LaneStart DEF RowIs, SenderIs, ReceiverIs, LaneIs
<1>4. row.s.old = Load(x) /\ row.s.new = Load(Debit(x, d))
      /\ row.r.old = Load(y) /\ row.r.new = Load(Credit(y, d))
  <2> DEFINE a == Load(x)
             b == Load(Debit(x, d))
             c == Load(y)
             e == Load(Credit(y, d))
  <2>1. /\ row.s = [old |-> a, bit |-> row.s.bit, new |-> b]
        /\ row.r = [old |-> c, bit |-> row.r.bit, new |-> e]
    BY <1>3
  <2> HIDE DEF a, b, c, e
  <2>2. row.s.old = a /\ row.s.new = b /\ row.r.old = c /\ row.r.new = e
    BY <2>1
  <2> QED BY <2>2 DEF a, b, c, e
<1>5. /\ Debit(x, d).pkey = x.pkey /\ Debit(x, d).balance = (x.balance - d) % P
      /\ Debit(x, d).nonce = (x.nonce + 1) % P
      /\ Credit(y, d).pkey = y.pkey /\ Credit(y, d).balance = (y.balance + d) % P
      /\ Credit(y, d).nonce = y.nonce
  BY <1>1, DebitIsValue, CreditIsValue
<1>6. (x.balance - ((x.balance - d) % P)) % P =
        (((y.balance + d) % P) - y.balance) % P
  <2>1. x.balance \in Field /\ y.balance \in Field
    BY <1>1 DEF IsValue
  <2> QED BY <1>1, <2>1, AmountsAgree
<1> DEFINE sNew == Debit(x, d)
           rNew == Credit(y, d)
<1> HIDE DEF x, y, d, sNew, rNew
<1>7. /\ \A v : /\ Load(v).fst = [lowKey |-> v.pkey]
                /\ Load(v).snd.highKey = v.pkey
                /\ Load(v).snd.balance = v.balance
                /\ Load(v).snd.nonce = v.nonce
  BY DEF Load, Fresh
<1>8. /\ sNew.pkey = x.pkey /\ sNew.balance = (x.balance - d) % P
      /\ sNew.nonce = (x.nonce + 1) % P
      /\ rNew.pkey = y.pkey /\ rNew.balance = (y.balance + d) % P
      /\ rNew.nonce = y.nonce
  BY <1>5 DEF sNew, rNew
<1>9. row.s.old = Load(x) /\ row.s.new = Load(sNew)
      /\ row.r.old = Load(y) /\ row.r.new = Load(rNew)
  BY <1>4 DEF sNew, rNew
<1>10. /\ row.s.old.fst = row.s.new.fst
       /\ row.s.old.snd.highKey = row.s.new.snd.highKey
       /\ row.r.old.fst = row.r.new.fst
       /\ row.r.old.snd.highKey = row.r.new.snd.highKey
       /\ row.r.old.snd.nonce = row.r.new.snd.nonce
  <2>1. Load(x).fst = Load(sNew).fst /\ Load(x).snd.highKey = Load(sNew).snd.highKey
    BY <1>7, <1>8
  <2>2. Load(y).fst = Load(rNew).fst /\ Load(y).snd.highKey = Load(rNew).snd.highKey
        /\ Load(y).snd.nonce = Load(rNew).snd.nonce
    BY <1>7, <1>8
  <2> QED BY <1>9, <2>1, <2>2
<1>11. /\ row.s.old.snd.balance = x.balance
       /\ row.s.new.snd.balance = (x.balance - d) % P
       /\ row.r.old.snd.balance = y.balance
       /\ row.r.new.snd.balance = (y.balance + d) % P
       /\ row.s.new.snd.nonce = (row.s.old.snd.nonce + 1) % P
  BY <1>7, <1>8, <1>9
<1>12. (row.s.old.snd.balance - row.s.new.snd.balance) % P
         = (row.r.new.snd.balance - row.r.old.snd.balance) % P
  <2> DEFINE e == x.balance - ((x.balance - d) % P)
             f == ((y.balance + d) % P) - y.balance
  <2>1. /\ row.s.old.snd.balance - row.s.new.snd.balance = e
        /\ row.r.new.snd.balance - row.r.old.snd.balance = f
    BY <1>11
  <2>2. e % P = f % P
    BY <1>6
  <2> HIDE DEF e, f
  <2> QED BY <2>1, <2>2
<1> QED BY <1>10, <1>11, <1>12 DEF SetupHolds

(* The row before the digests: the two lanes already meet.                 *)
LEMMA LanesMeet ==
  ASSUME NEW values, Accounts(values), NEW m \in Moves,
         NEW s, SenderIs(s, values, m, HashLength - 1),
         NEW r, ReceiverIs(r, values, m, HashLength - 1)
  PROVE  First(s.new) = First(r.old)
<1> DEFINE b == Committed(Debited(values, m))
           k == HashLength - 1
           x == LaneAt(b, m.s, Debit(values[m.s], m.delta), k)
           y == LaneAt(b, m.r, values[m.r], k)
<1>1. s.new = x
  <2> DEFINE u == LaneAt(Committed(values), m.s, values[m.s], k)
  <2>1. s = [old |-> u, bit |-> s.bit, new |-> x]
    BY DEF SenderIs, LaneIs
  <2> HIDE DEF u, x
  <2> QED BY <2>1
<1>2. r.old = y
  <2> DEFINE u == LaneAt(Committed(Move(values, m)), m.r,
                         Credit(values[m.r], m.delta), k)
  <2>1. r = [old |-> y, bit |-> r.bit, new |-> u]
    BY DEF ReceiverIs, LaneIs
  <2> HIDE DEF u, y
  <2> QED BY <2>1
<1>3. k \div Cycle = Depth
  <2>1. /\ k = Cycle * Depth + (Rounds - 1) /\ Rounds - 1 \in 0 .. (Cycle - 1)
        /\ Cycle \in Nat \ {0} /\ Depth \in Int
    <3>1. Cycle * Depth \in Nat
      BY HashSteps, DepthAssumption
    <3> QED BY <3>1, HashSteps, CycleAssumption, DepthAssumption DEF HashLength
  <2> DEFINE e == Rounds - 1
  <2> HIDE DEF k, e
  <2>2. k = Cycle * Depth + e /\ e \in 0 .. (Cycle - 1)
    BY <2>1 DEF e
  <2> QED BY <2>1, <2>2
<1>4. Above(m.s, Depth) = 0 /\ Above(m.r, Depth) = 0 /\ Depth # 0
  BY MoveSteps, Ancestry, DepthAssumption
<1>5. x = y
  <2> HIDE DEF b, k
  <2> QED BY <1>3, <1>4 DEF LaneAt
<1> HIDE DEF x, y
<1> QED BY <1>1, <1>2, <1>5

(* Two rows of a transfer that follow each other obey the constraints.     *)
LEMMA RowObeys ==
  ASSUME NEW values, Accounts(values), NEW m \in Moves,
         NEW g \in Nat, NEW cur, RowIs(cur, values, m, g % TxLength),
         NEW next, RowIs(next, values, m, (g % TxLength) + 1)
  PROVE  TransitionHolds(g, cur, next)
<1> DEFINE step == g % TxLength
<1>1. /\ step \in Nat /\ g % Cycle = step % Cycle
      /\ HashLength \in Nat /\ HashLength > 1
  BY MaskSteps, LengthSteps
<1>2. SetupMask(g) => SetupHolds(cur)
  BY SetupObeyed DEF SetupMask
<1>3. CASE step < HashLength
  <2>1. step \in 0 .. (HashLength - 1) /\ Hashed(step) = step
        /\ Hashed(step + 1) = step + 1
    BY <1>1, <1>3 DEF Hashed
  <2>2. m.s \in Index /\ m.r \in Index
    BY MoveSteps
  <2>3. /\ SenderIs(cur.s, values, m, step) /\ SenderIs(next.s, values, m, step + 1)
        /\ ReceiverIs(cur.r, values, m, step)
        /\ ReceiverIs(next.r, values, m, step + 1)
    BY <2>1 DEF RowIs
  <2>4. LaneHolds(g, cur.s, next.s)
    <3> DEFINE a == Committed(values)
               b == Committed(Debited(values, m))
               old == values[m.s]
               new == Debit(values[m.s], m.delta)
    <3>1. /\ Beneath(a, b, m.s, old, new)
          /\ LaneIs(cur.s, a, b, m.s, old, new, step)
          /\ LaneIs(next.s, a, b, m.s, old, new, step + 1)
      BY <2>3, SenderBeneath DEF SenderIs
    <3> HIDE DEF a, b, old, new
    <3>2. g % TxLength = step
      OBVIOUS
    <3> HIDE DEF step
    <3> QED BY <1>1, <2>1, <2>2, <3>1, <3>2, LaneObeys
  <2>5. LaneHolds(g, cur.r, next.r)
    <3> DEFINE a == Committed(Debited(values, m))
               b == Committed(Move(values, m))
               old == values[m.r]
               new == Credit(values[m.r], m.delta)
    <3>1. /\ Beneath(a, b, m.r, old, new)
          /\ LaneIs(cur.r, a, b, m.r, old, new, step)
          /\ LaneIs(next.r, a, b, m.r, old, new, step + 1)
      BY <2>3, ReceiverBeneath DEF ReceiverIs
    <3> HIDE DEF a, b, old, new
    <3>2. g % TxLength = step
      OBVIOUS
    <3> HIDE DEF step
    <3> QED BY <1>1, <2>1, <2>2, <3>1, <3>2, LaneObeys
  <2>6. RootHolds(g, cur, next)
    <3>1. CASE step = HashLength - 1
      <4>1. SenderIs(next.s, values, m, HashLength)
            /\ ReceiverIs(next.r, values, m, HashLength)
            /\ SenderIs(cur.s, values, m, HashLength - 1)
            /\ ReceiverIs(cur.r, values, m, HashLength - 1)
        <5>1. step + 1 = HashLength
          BY <1>1, <3>1
        <5> QED BY <2>3, <3>1, <5>1
      <4>2. /\ First(next.s.old) = Root(Committed(values))
            /\ First(next.r.new) = Root(Committed(Move(values, m)))
            /\ First(cur.s.new) = First(cur.r.old)
        BY <4>1, HashEnd, LanesMeet
      <4>3. cur.root = Root(Committed(values))
        BY <1>3 DEF RowIs
      <4>4. next.root = Root(Committed(Move(values, m)))
        <5>1. ~(step + 1 < HashLength)
          BY <1>1, <3>1
        <5> QED BY <5>1 DEF RowIs
      <4> QED BY <3>1, <4>2, <4>3, <4>4 DEF RootHolds, FinishMask
    <3>2. CASE step # HashLength - 1
      <4>1. step + 1 < HashLength
        BY <1>1, <1>3, <3>2
      <4>2. cur.root = next.root
        BY <1>3, <4>1 DEF RowIs
      <4> QED BY <3>2, <4>2 DEF RootHolds, FinishMask
    <3> QED BY <3>1, <3>2
  <2> QED BY <1>2, <2>4, <2>5, <2>6 DEF TransitionHolds
<1>4. CASE ~(step < HashLength)
  <2>1. ~HashingMask(g) /\ ~RoundMask(g)
    BY <1>4 DEF HashingMask, RoundMask
  <2>2. LaneHolds(g, cur.s, next.s) /\ LaneHolds(g, cur.r, next.r)
    BY <2>1 DEF LaneHolds
  <2>3. ~(step + 1 < HashLength) /\ step # HashLength - 1
    BY <1>1, <1>4
  <2>4. cur.root = next.root
    BY <1>4, <2>3 DEF RowIs
  <2>5. RootHolds(g, cur, next)
    BY <2>3, <2>4 DEF RootHolds, FinishMask
  <2> QED BY <1>2, <2>2, <2>5 DEF TransitionHolds
<1> QED BY <1>3, <1>4

(* So do the last row of a transfer and a first row with the root it left. *)
LEMMA BorderObeys ==
  ASSUME NEW g \in Nat, g % TxLength = TxLength - 1,
         NEW cur, NEW next, next.root = cur.root
  PROVE  TransitionHolds(g, cur, next)
<1>1. TxLength \in Nat /\ HashLength \in Nat /\ TxLength > HashLength
      /\ HashLength > 1
  BY MaskSteps, LengthSteps
<1>2. ~SetupMask(g) /\ ~HashingMask(g) /\ ~RoundMask(g) /\ ~FinishMask(g)
  BY <1>1 DEF SetupMask, HashingMask, RoundMask, FinishMask
<1> QED BY <1>2 DEF TransitionHolds, LaneHolds, RootHolds

-----------------------------------------------------------------------------
(* Where row g of the whole trace lies.                                    *)
LEMMA Places ==
  ASSUME NEW g \in 0 .. (NumTx * TxLength - 2)
  PROVE  /\ g \div TxLength + 1 \in Txs
         /\ g % TxLength = TxLength - 1 => g \div TxLength + 2 \in Txs
<1> DEFINE step == g % TxLength
           q == g \div TxLength
<1>1. TxLength \in Nat \ {0} /\ NumTx \in Nat \ {0} /\ g \in Nat
  BY LengthSteps, BatchAssumption
<1>2. step \in 0 .. (TxLength - 1) /\ q \in Int
  BY <1>1, Division
<1>3. g = TxLength * q + step /\ g < TxLength * NumTx - 1
  <2>1. NumTx * TxLength = TxLength * NumTx
    BY <1>1
  <2> QED BY <1>1, <2>1, Division
<1> HIDE DEF q, step
<1>4. q >= 0
  <2> SUFFICES ASSUME q <= -1 PROVE FALSE
    BY <1>2
  <2>1. TxLength * q = TxLength * (q + 1) - TxLength /\ TxLength * (q + 1) <= 0
    BY <1>1, <1>2
  <2> QED BY <1>1, <1>2, <1>3, <2>1
<1>5. ASSUME NEW n \in Int, q >= n PROVE TxLength * q >= TxLength * n
  <2>1. TxLength * q = TxLength * n + TxLength * (q - n) /\ TxLength * (q - n) >= 0
    BY <1>1, <1>2, <1>5
  <2> QED BY <1>1, <1>2, <2>1
<1>6. q < NumTx
  BY <1>1, <1>2, <1>3, <1>5
<1>7. step = TxLength - 1 => q + 1 < NumTx
  <2> SUFFICES ASSUME step = TxLength - 1, q >= NumTx - 1 PROVE FALSE
    BY <1>1, <1>2
  <2>1. TxLength * q >= TxLength * (NumTx - 1)
    BY <1>1, <1>5
  <2>2. TxLength * (NumTx - 1) = TxLength * NumTx - TxLength
    BY <1>1
  <2> QED BY <1>1, <1>2, <1>3, <2>1, <2>2
<1>8. q + 1 \in Txs /\ (step = TxLength - 1 => q + 2 \in Txs)
  BY <1>1, <1>2, <1>4, <1>6, <1>7 DEF Txs
<1> QED BY <1>8 DEF q, step

(* The last row is the last of the last fragment.                          *)
LEMMA LastPlace ==
  LET g == NumTx * TxLength - 1
  IN g \div TxLength = NumTx - 1 /\ g % TxLength = TxLength - 1
<1> DEFINE g == NumTx * TxLength - 1
           q == NumTx - 1
           r == TxLength - 1
<1>1. TxLength \in Nat \ {0} /\ NumTx \in Nat \ {0}
  BY LengthSteps, BatchAssumption
<1>2. g = TxLength * q + r /\ q \in Int /\ r \in 0 .. (TxLength - 1)
  BY <1>1
<1> HIDE DEF g, q, r
<1>3. g \div TxLength = q /\ g % TxLength = r
  BY <1>1, <1>2
<1> QED BY <1>3 DEF g, q, r

-----------------------------------------------------------------------------
(* Sequences of rows, of any rows.                                         *)
IsSequence(q) == Len(q) \in Nat /\ q = [k \in 1 .. Len(q) |-> q[k]]

(* The empty trace of a fragment is a sequence.                            *)
LEMMA EmptySequence == IsSequence(<<>>) /\ Len(<<>>) = 0
BY DEF IsSequence

(* A sequence with one element more.                                       *)
LEMMA AppendSequence ==
  ASSUME NEW q, IsSequence(q), NEW e
  PROVE  /\ IsSequence(Append(q, e)) /\ Len(Append(q, e)) = Len(q) + 1
         /\ \A k \in 1 .. Len(q) : Append(q, e)[k] = q[k]
         /\ Append(q, e)[Len(q) + 1] = e
         /\ q = <<>> <=> Len(q) = 0
<1> DEFINE S == {q[k] : k \in 1 .. Len(q)} \cup {e}
<1>1. q \in Seq(S) /\ e \in S
  BY DEF IsSequence
<1> HIDE DEF S
<1>2. Append(q, e) \in Seq(S) /\ Len(Append(q, e)) = Len(q) + 1
  BY <1>1
<1>3. IsSequence(Append(q, e))
  <2> DEFINE z == Append(q, e)
  <2>1. z \in Seq(S)
    BY <1>2
  <2> HIDE DEF z
  <2>2. IsSequence(z)
    BY <2>1 DEF IsSequence
  <2> QED BY <2>2 DEF z
<1>4. /\ \A k \in 1 .. Len(q) : Append(q, e)[k] = q[k]
      /\ Append(q, e)[Len(q) + 1] = e
  BY <1>1
<1>5. q = <<>> <=> Len(q) = 0
  BY <1>1
<1> QED BY <1>2, <1>3, <1>4, <1>5

Put(q, k, e) == [q EXCEPT ![k] = e]

(* A sequence with one element replaced.                                   *)
LEMMA PutSequence ==
  ASSUME NEW q, IsSequence(q), NEW k \in 1 .. Len(q), NEW e
  PROVE  /\ IsSequence(Put(q, k, e)) /\ Len(Put(q, k, e)) = Len(q)
         /\ \A j \in 1 .. Len(q) : Put(q, k, e)[j] = IF j = k THEN e ELSE q[j]
         /\ \A d : Put(Put(q, k, d), k, e) = Put(q, k, e)
<1> DEFINE S == {q[j] : j \in 1 .. Len(q)} \cup {e}
<1>1. q \in Seq(S) /\ e \in S
  BY DEF IsSequence
<1> HIDE DEF S
<1>2. Put(q, k, e) \in Seq(S) /\ Len(Put(q, k, e)) = Len(q)
  BY <1>1 DEF Put
<1>3. IsSequence(Put(q, k, e))
  BY <1>2 DEF IsSequence
<1>4. \A j \in 1 .. Len(q) : Put(q, k, e)[j] = IF j = k THEN e ELSE q[j]
  BY <1>1 DEF Put
<1>5. \A d : Put(Put(q, k, d), k, e) = Put(q, k, e)
  BY <1>1 DEF Put
<1> QED BY <1>2, <1>3, <1>4, <1>5
=============================================================================
