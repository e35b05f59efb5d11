------------------------- MODULE SchnorrTraceProofs -------------------------
(***************************************************************************)
(* Theorems about SchnorrTrace, for every field, curve, hash and length of *)
(* the words: the rows keep their types, the words of the hash reach their *)
(* registers bit by bit, what sign makes is verified, the rows obey their  *)
(* constraints, and the circuit decides what verify_signature does. On the *)
(* way, that the code's arithmetic of Fp6 is that of a field, and that its *)
(* complete formulas add the multiples of G.                               *)
(***************************************************************************)
EXTENDS SchnorrTrace, NaturalLemmas

-----------------------------------------------------------------------------
(* The fields.                                                             *)
LEMMA Residue == \A x \in Int : x % P \in Field
BY FieldAssumption DEF Field

LEMMA FieldNumbers ==
  /\ \A x \in Field : x \in Nat /\ x \in Int /\ x < P
  /\ 0 \in Field /\ 1 \in Field /\ P \in Nat
BY FieldAssumption DEF Field

LEMMA InvTyped == \A a \in Field : Inv(a) \in Field
<1> SUFFICES ASSUME NEW a \in Field, a # 0 PROVE Inv(a) \in Field
  BY FieldNumbers DEF Inv
<1>1. a \in 1 .. (P - 1)
  BY FieldAssumption DEF Field
<1>2. \E b \in Field : (a * b) % P = 1
  BY <1>1, FieldAssumption
<1> QED BY <1>2 DEF Inv

(* Functions of n elements.                                                *)
LEMMA VectorsTyped ==
  ASSUME NEW n \in Nat, NEW a \in [1 .. n -> Field], NEW b \in [1 .. n -> Field]
  PROVE  /\ Add(a, b) \in [1 .. n -> Field]
         /\ Sub(a, b) \in [1 .. n -> Field]
         /\ Neg(a) \in [1 .. n -> Field]
         /\ Double(a) \in [1 .. n -> Field]
<1>1. DOMAIN a = 1 .. n /\ \A i \in 1 .. n : a[i] \in Int /\ b[i] \in Int
  BY FieldNumbers
<1> QED BY <1>1, Residue DEF Add, Sub, Neg, Double

LEMMA PairTyped ==
  ASSUME NEW x \in Field, NEW y \in Field
  PROVE  <<x, y>> \in Fp2
BY DEF Fp2

LEMMA Fp2Typed ==
  ASSUME NEW a \in Fp2, NEW b \in Fp2
  PROVE  /\ MulFp2(a, b) \in Fp2
         /\ SquareFp2(a) \in Fp2
         /\ InvertFp2(a) \in Fp2
         /\ Add(a, b) \in Fp2 /\ Sub(a, b) \in Fp2
         /\ Neg(a) \in Fp2 /\ Double(a) \in Fp2
<1>1. a[1] \in Int /\ a[2] \in Int /\ b[1] \in Int /\ b[2] \in Int
  BY FieldNumbers DEF Fp2
<1>2. MulFp2(a, b) \in Fp2
  <2> DEFINE c0 == 2 * (a[2] * b[2]) + a[1] * b[1]
             c1 == a[2] * b[2] + c0 + (a[1] - a[2]) * (b[2] - b[1])
  <2>1. c0 \in Int /\ c1 \in Int
    BY <1>1
  <2>2. MulFp2(a, b) = <<c0 % P, c1 % P>>
    BY DEF MulFp2
  <2> HIDE DEF c0, c1
  <2> QED BY <2>1, <2>2, Residue, PairTyped
<1>3. SquareFp2(a) \in Fp2
  <2> DEFINE c0 == 2 * (a[2] * a[2]) + a[1] * a[1]
             c1 == a[2] * a[2] + c0 - (a[1] - a[2]) * (a[1] - a[2])
  <2>1. c0 \in Int /\ c1 \in Int
    BY <1>1
  <2>2. SquareFp2(a) = <<c0 % P, c1 % P>>
    BY DEF SquareFp2
  <2> HIDE DEF c0, c1
  <2> QED BY <2>1, <2>2, Residue, PairTyped
<1>4. InvertFp2(a) \in Fp2
  <2> DEFINE n == a[1] * a[1] + 2 * a[1] * a[2] - 2 * a[2] * a[2]
             t == Inv(n % P)
             c0 == (a[1] + 2 * a[2]) * t
             c1 == -a[2] * t
  <2>1. n \in Int
    BY <1>1
  <2>2. t \in Int
    <3> HIDE DEF n
    <3>1. Inv(n % P) \in Field
      BY <2>1, Residue, InvTyped
    <3> QED BY <3>1, FieldNumbers
  <2>3. InvertFp2(a) = <<c0 % P, c1 % P>>
    BY DEF InvertFp2, NormFp2
  <2> HIDE DEF t
  <2>4. c0 \in Int /\ c1 \in Int
    BY <1>1, <2>2
  <2> HIDE DEF c0, c1
  <2> QED BY <2>3, <2>4, Residue, PairTyped
<1>5. /\ Add(a, b) \in Fp2 /\ Sub(a, b) \in Fp2
      /\ Neg(a) \in Fp2 /\ Double(a) \in Fp2
  BY VectorsTyped DEF Fp2
<1> QED BY <1>2, <1>3, <1>4, <1>5

LEMMA PartsTyped ==
  ASSUME NEW a \in Fp6
  PROVE  C0(a) \in Fp2 /\ C1(a) \in Fp2 /\ C2(a) \in Fp2
<1>1. a \in [1 .. 6 -> Field]
  BY DEF Fp6
<1>2. ASSUME NEW k \in 0 .. 4 PROVE SubSeq(a, k + 1, k + 2) \in [1 .. 2 -> Field]
  <2>1. 6 \in Nat /\ k \in Nat /\ 2 \in Nat /\ k + 2 <= 6
    OBVIOUS
  <2> QED BY <1>1, <2>1, VectorSlice
<1>3. SubSeq(a, 0 + 1, 0 + 2) \in Fp2 /\ SubSeq(a, 2 + 1, 2 + 2) \in Fp2
        /\ SubSeq(a, 4 + 1, 4 + 2) \in Fp2
  BY <1>2 DEF Fp2
<1> QED BY <1>3 DEF C0, C1, C2

LEMMA JoinTyped ==
  ASSUME NEW a \in Fp2, NEW b \in Fp2, NEW c \in Fp2
  PROVE  a \o b \o c \in Fp6
<1>1. a \o b \in [1 .. (2 + 2) -> Field]
  BY VectorJoin DEF Fp2
<1>2. a \o b \in [1 .. 4 -> Field]
  BY <1>1
<1>3. (a \o b) \o c \in [1 .. (4 + 2) -> Field]
  BY <1>2, VectorJoin DEF Fp2
<1> QED BY <1>3 DEF Fp6

LEMMA CombineTyped ==
  ASSUME NEW aa \in Fp2, NEW bb \in Fp2, NEW cc \in Fp2,
         NEW ab \in Fp2, NEW ac \in Fp2, NEW bc \in Fp2
  PROVE  Combine(aa, bb, cc, ab, ac, bc) \in Fp6
BY Fp2Typed, JoinTyped DEF Combine

LEMMA Fp6Typed ==
  ASSUME NEW a \in Fp6, NEW b \in Fp6
  PROVE  /\ MulFp6(a, b) \in Fp6
         /\ SquareFp6(a) \in Fp6
         /\ InvertFp6(a) \in Fp6
         /\ Add(a, b) \in Fp6 /\ Sub(a, b) \in Fp6
         /\ Neg(a) \in Fp6 /\ Double(a) \in Fp6
<1> DEFINE a0 == C0(a)  a1 == C1(a)  a2 == C2(a)
           b0 == C0(b)  b1 == C1(b)  b2 == C2(b)
<1>1. a0 \in Fp2 /\ a1 \in Fp2 /\ a2 \in Fp2 /\ b0 \in Fp2 /\ b1 \in Fp2 /\ b2 \in Fp2
  BY PartsTyped
<1>2. MulFp6(a, b) = Combine(MulFp2(a0, b0), MulFp2(a1, b1), MulFp2(a2, b2),
                             MulFp2(Add(a0, a1), Add(b0, b1)),
                             MulFp2(Add(a0, a2), Add(b0, b2)),
                             MulFp2(Add(a1, a2), Add(b1, b2)))
  BY DEF MulFp6
<1>3. SquareFp6(a) = Combine(SquareFp2(a0), SquareFp2(a1), SquareFp2(a2),
                             SquareFp2(Add(a0, a1)), SquareFp2(Add(a0, a2)),
                             SquareFp2(Add(a1, a2)))
  BY DEF SquareFp6
<1>4. MulFp6(a, b) \in Fp6 /\ SquareFp6(a) \in Fp6
  <2> HIDE DEF a0, a1, a2, b0, b1, b2
  <2>1. /\ Add(a0, a1) \in Fp2 /\ Add(a0, a2) \in Fp2 /\ Add(a1, a2) \in Fp2
        /\ Add(b0, b1) \in Fp2 /\ Add(b0, b2) \in Fp2 /\ Add(b1, b2) \in Fp2
    BY <1>1, Fp2Typed
  <2>2. MulFp6(a, b) \in Fp6
    <3>1. /\ MulFp2(a0, b0) \in Fp2 /\ MulFp2(a1, b1) \in Fp2
          /\ MulFp2(a2, b2) \in Fp2
          /\ MulFp2(Add(a0, a1), Add(b0, b1)) \in Fp2
          /\ MulFp2(Add(a0, a2), Add(b0, b2)) \in Fp2
          /\ MulFp2(Add(a1, a2), Add(b1, b2)) \in Fp2
      BY <1>1, <2>1, Fp2Typed
    <3> QED BY <1>2, <3>1, CombineTyped
  <2>3. SquareFp6(a) \in Fp6
    <3>1. /\ SquareFp2(a0) \in Fp2 /\ SquareFp2(a1) \in Fp2 /\ SquareFp2(a2) \in Fp2
          /\ SquareFp2(Add(a0, a1)) \in Fp2 /\ SquareFp2(Add(a0, a2)) \in Fp2
          /\ SquareFp2(Add(a1, a2)) \in Fp2
      BY <1>1, <2>1, Fp2Typed
    <3> QED BY <1>3, <3>1, CombineTyped
  <2> QED BY <2>2, <2>3
<1>5. NormFp6(a) \in Fp2
  <2> DEFINE sq0 == SquareFp2(a0)
             sq1 == SquareFp2(a1)
             sq2 == SquareFp2(a2)
             t1 == Sub(MulFp2(a0, Add(sq0, sq1)), MulFp2(a1, sq1))
             t2 == Add(t1, MulFp2(Add(a0, Sub(a2, a1)), sq2))
             three == MulFp2(Add(Double(a0), a0), a1)
  <2>1. NormFp6(a) = Sub(t2, MulFp2(Sub(Double(sq0), three), a2))
    BY DEF NormFp6
  <2> HIDE DEF a0, a1, a2
  <2>2. sq0 \in Fp2 /\ sq1 \in Fp2 /\ sq2 \in Fp2
    BY <1>1, Fp2Typed
  <2> HIDE DEF sq0, sq1, sq2
  <2>3. t1 \in Fp2
    BY <1>1, <2>2, Fp2Typed
  <2>4. three \in Fp2
    BY <1>1, Fp2Typed
  <2> HIDE DEF t1, three
  <2>5. t2 \in Fp2
    BY <1>1, <2>2, <2>3, Fp2Typed
  <2>6. Sub(Double(sq0), three) \in Fp2
    BY <2>2, <2>4, Fp2Typed
  <2> HIDE DEF t2
  <2>7. Sub(t2, MulFp2(Sub(Double(sq0), three), a2)) \in Fp2
    BY <1>1, <2>5, <2>6, Fp2Typed
  <2> QED BY <2>1, <2>7
<1>6. InvertFp6(a) \in Fp6
  BY <1>5, PartsTyped, Fp2Typed, JoinTyped DEF InvertFp6
<1>7. /\ Add(a, b) \in Fp6 /\ Sub(a, b) \in Fp6
      /\ Neg(a) \in Fp6 /\ Double(a) \in Fp6
  BY VectorsTyped DEF Fp6
<1> QED BY <1>4, <1>6, <1>7

-----------------------------------------------------------------------------
(* The arithmetic of the tower as one of polynomials over the integers: an *)
(* element is lifted to integers of which it is the residues, and sums and *)
(* products to theirs.                                                     *)
Alike(x, y) == x % P = y % P

LEMMA AlikeMeans ==
  ASSUME NEW x \in Int, NEW y \in Int
  PROVE  /\ Alike(x, y) <=> \E q \in Int : x = y + P * q
         /\ Alike(x % P, x)
<1>1. P \in Nat \ {0}
  BY FieldAssumption
<1> QED BY ONLY <1>1, x \in Int, y \in Int, EqualRemainders DEF Alike

LEMMA AlikeOps ==
  ASSUME NEW x \in Int, NEW y \in Int, NEW z \in Int, NEW w \in Int,
         Alike(x, y), Alike(z, w)
  PROVE  Alike(x + z, y + w) /\ Alike(x - z, y - w) /\ Alike(x * z, y * w)
<1>1. PICK j \in Int : x = y + P * j
  BY AlikeMeans
<1>2. PICK k \in Int : z = w + P * k
  BY AlikeMeans
<1>3. P \in Int
  BY FieldAssumption
<1>4. x + z = (y + w) + P * (j + k) /\ x - z = (y - w) + P * (j - k)
        /\ x * z = y * w + P * (y * k + w * j + P * (j * k))
  BY <1>1, <1>2, <1>3
<1>5. j + k \in Int /\ j - k \in Int /\ y * k + w * j + P * (j * k) \in Int
        /\ x + z \in Int /\ x - z \in Int /\ x * z \in Int
        /\ y + w \in Int /\ y - w \in Int /\ y * w \in Int
  BY <1>3
<1> DEFINE a == j + k
           b == j - k
           c == y * k + w * j + P * (j * k)
           x1 == x + z  x2 == x - z  x3 == x * z
           y1 == y + w  y2 == y - w  y3 == y * w
<1>6. /\ x1 = y1 + P * a /\ x2 = y2 + P * b /\ x3 = y3 + P * c
      /\ a \in Int /\ b \in Int /\ c \in Int
      /\ x1 \in Int /\ x2 \in Int /\ x3 \in Int /\ y1 \in Int /\ y2 \in Int /\ y3 \in Int
  BY <1>4, <1>5
<1> HIDE DEF a, b, c, x1, x2, x3, y1, y2, y3
<1>7. Alike(x1, y1) /\ Alike(x2, y2) /\ Alike(x3, y3)
  BY ONLY <1>6, AlikeMeans
<1> QED BY <1>7 DEF x1, x2, x3, y1, y2, y3

(* A pair, the product of pairs, and an element of six, lifted.            *)
Lifts2(u, x, y) == u \in Fp2 /\ Alike(u[1], x) /\ Alike(u[2], y)

Re(x, y, z, w) == x * z + 2 * (y * w)
Im(x, y, z, w) == x * w + y * z + 2 * (y * w)

LEMMA ResidueAlike ==
  ASSUME NEW x \in Int, NEW y \in Int, Alike(x, y)
  PROVE  Alike(x % P, y)
BY AlikeMeans DEF Alike

LEMMA Lifts2Ops ==
  ASSUME NEW u, NEW x \in Int, NEW y \in Int, Lifts2(u, x, y),
         NEW v, NEW z \in Int, NEW w \in Int, Lifts2(v, z, w)
  PROVE  /\ Lifts2(Add(u, v), x + z, y + w)
         /\ Lifts2(Sub(u, v), x - z, y - w)
         /\ Lifts2(Neg(u), -x, -y)
         /\ Lifts2(Double(u), 2 * x, 2 * y)
         /\ Lifts2(MulFp2(u, v), Re(x, y, z, w), Im(x, y, z, w))
<1> DEFINE u1 == u[1]
           u2 == u[2]
           v1 == v[1]
           v2 == v[2]
<1>1. /\ u \in Fp2 /\ v \in Fp2
      /\ u1 \in Int /\ u2 \in Int /\ v1 \in Int /\ v2 \in Int
      /\ Alike(u1, x) /\ Alike(u2, y) /\ Alike(v1, z) /\ Alike(v2, w)
      /\ DOMAIN u = 1 .. 2
  BY FieldNumbers DEF Lifts2, Fp2
<1>2. Alike(u1 + v1, x + z) /\ Alike(u2 + v2, y + w)
  BY <1>1, AlikeOps
<1>3. Alike(u1 - v1, x - z) /\ Alike(u2 - v2, y - w)
  BY <1>1, AlikeOps
<1>4. Alike(-u1, -x) /\ Alike(-u2, -y)
  <2>1. Alike(0, 0) /\ 0 \in Int
    BY DEF Alike
  <2> DEFINE o == 0
  <2> HIDE DEF o, u1, u2
  <2>2. Alike(o - u1, o - x) /\ Alike(o - u2, o - y)
    BY <1>1, <2>1, AlikeOps DEF o
  <2>3. o - u1 = -u1 /\ o - u2 = -u2 /\ o - x = -x /\ o - y = -y
    BY <1>1 DEF o
  <2> QED BY <2>2, <2>3
<1>5. Alike(u1 + u1, 2 * x) /\ Alike(u2 + u2, 2 * y)
  <2>1. Alike(u1 + u1, x + x) /\ Alike(u2 + u2, y + y)
    BY <1>1, AlikeOps
  <2>2. x + x = 2 * x /\ y + y = 2 * y
    OBVIOUS
  <2> QED BY <2>1, <2>2
<1> DEFINE m1 == 2 * (u2 * v2) + u1 * v1
           m2 == u2 * v2 + m1 + (u1 - u2) * (v2 - v1)
<1>6. Alike(m1, Re(x, y, z, w)) /\ Alike(m2, Im(x, y, z, w))
  <2> DEFINE a == u1 * v1  b == u2 * v2  c == u1 * v2  d == u2 * v1
             e == x * z  f == y * w  g == x * w  i == y * z
  <2>1. Alike(a, e) /\ Alike(b, f) /\ Alike(c, g) /\ Alike(d, i)
    BY <1>1, AlikeOps
  <2>2. a \in Int /\ b \in Int /\ c \in Int /\ d \in Int
          /\ e \in Int /\ f \in Int /\ g \in Int /\ i \in Int
    <3> HIDE DEF u1, u2, v1, v2
    <3> QED BY <1>1
  <2>3. m1 = a + (b + b) /\ m2 = (c + d) + (b + b)
    <3> HIDE DEF u1, u2, v1, v2
    <3> QED BY <1>1
  <2>4. Re(x, y, z, w) = e + (f + f) /\ Im(x, y, z, w) = (g + i) + (f + f)
    BY DEF Re, Im
  <2> HIDE DEF a, b, c, d, e, f, g, i, m1, m2
  <2>5. Alike(b + b, f + f) /\ b + b \in Int /\ f + f \in Int
          /\ Alike(c + d, g + i) /\ c + d \in Int /\ g + i \in Int
    BY <2>1, <2>2, AlikeOps
  <2>6. Alike(a + (b + b), e + (f + f)) /\ Alike((c + d) + (b + b), (g + i) + (f + f))
    BY <2>1, <2>2, <2>5, AlikeOps
  <2> QED BY <2>3, <2>4, <2>6
<1>7. m1 \in Int /\ m2 \in Int
  <2> HIDE DEF u1, u2, v1, v2
  <2> QED BY <1>1
<1>8. MulFp2(u, v) = <<m1 % P, m2 % P>>
  BY DEF MulFp2
<1>9. /\ Add(u, v)[1] = (u1 + v1) % P /\ Add(u, v)[2] = (u2 + v2) % P
      /\ Sub(u, v)[1] = (u1 - v1) % P /\ Sub(u, v)[2] = (u2 - v2) % P
      /\ Neg(u)[1] = (-u1) % P /\ Neg(u)[2] = (-u2) % P
      /\ Double(u)[1] = (u1 + u1) % P /\ Double(u)[2] = (u2 + u2) % P
  BY <1>1 DEF Add, Sub, Neg, Double
<1>10. /\ Add(u, v) \in Fp2 /\ Sub(u, v) \in Fp2 /\ Neg(u) \in Fp2
       /\ Double(u) \in Fp2 /\ MulFp2(u, v) \in Fp2
  BY <1>1, Fp2Typed
<1>11. Re(x, y, z, w) \in Int /\ Im(x, y, z, w) \in Int
  BY DEF Re, Im
<1>12. /\ u1 + v1 \in Int /\ u2 + v2 \in Int /\ u1 - v1 \in Int /\ u2 - v2 \in Int
       /\ -u1 \in Int /\ -u2 \in Int /\ u1 + u1 \in Int /\ u2 + u2 \in Int
       /\ x + z \in Int /\ y + w \in Int /\ x - z \in Int /\ y - w \in Int
       /\ -x \in Int /\ -y \in Int /\ 2 * x \in Int /\ 2 * y \in Int
  <2> HIDE DEF u1, u2, v1, v2
  <2> QED BY <1>1
<1> HIDE DEF u1, u2, v1, v2, m1, m2
<1>13. Lifts2(Add(u, v), x + z, y + w)
  BY <1>2, <1>9, <1>10, <1>12, ResidueAlike DEF Lifts2
<1>14. Lifts2(Sub(u, v), x - z, y - w)
  BY <1>3, <1>9, <1>10, <1>12, ResidueAlike DEF Lifts2
<1>15. Lifts2(Neg(u), -x, -y)
  BY <1>4, <1>9, <1>10, <1>12, ResidueAlike DEF Lifts2
<1>16. Lifts2(Double(u), 2 * x, 2 * y)
  BY <1>5, <1>9, <1>10, <1>12, ResidueAlike DEF Lifts2
<1>17. Lifts2(MulFp2(u, v), Re(x, y, z, w), Im(x, y, z, w))
  BY <1>6, <1>7, <1>8, <1>10, <1>11, ResidueAlike DEF Lifts2
<1> QED BY <1>13, <1>14, <1>15, <1>16, <1>17

Ints6 == [1 .. 6 -> Int]
Lifts6(a, A) == a \in Fp6 /\ A \in Ints6 /\ \A i \in 1 .. 6 : Alike(a[i], A[i])

LEMMA PartsJoined ==
  ASSUME NEW u \in Fp2, NEW v \in Fp2, NEW w \in Fp2
  PROVE  LET a == u \o v \o w
         IN /\ a \in Fp6
            /\ a[1] = u[1] /\ a[2] = u[2] /\ a[3] = v[1]
            /\ a[4] = v[2] /\ a[5] = w[1] /\ a[6] = w[2]
<1> DEFINE c == u \o v
           a == c \o w
           n == 2
           m == 4
<1>1. n \in Nat /\ m \in Nat /\ m = n + n
        /\ u \in [1 .. n -> Field] /\ v \in [1 .. n -> Field] /\ w \in [1 .. n -> Field]
  BY DEF Fp2
<1>2. /\ c \in [1 .. m -> Field]
      /\ \A k \in 1 .. n : c[k] = u[k]
      /\ \A k \in 1 .. n : c[n + k] = v[k]
  <2> HIDE DEF n, m
  <2>1. c \in [1 .. (n + n) -> Field]
    BY ONLY <1>1, VectorJoin
  <2>2. \A k \in 1 .. n : c[k] = u[k]
    BY ONLY <1>1, VectorJoin
  <2>3. \A k \in 1 .. n : c[n + k] = v[k]
    BY ONLY <1>1, VectorJoin
  <2> QED BY <1>1, <2>1, <2>2, <2>3
<1>3. /\ \A k \in 1 .. m : a[k] = c[k]
      /\ \A k \in 1 .. n : a[m + k] = w[k]
  <2> HIDE DEF n, m, c
  <2>1. c \in [1 .. m -> Field]
    BY <1>2
  <2>2. \A k \in 1 .. m : a[k] = c[k]
    BY ONLY <1>1, <2>1, VectorJoin
  <2>3. \A k \in 1 .. n : a[m + k] = w[k]
    BY ONLY <1>1, <2>1, VectorJoin
  <2> QED BY <2>2, <2>3
<1>4. a \in Fp6
  BY JoinTyped
<1> HIDE DEF c, a
<1>5. /\ a[1] = c[1] /\ a[2] = c[2] /\ a[3] = c[3] /\ a[4] = c[4]
      /\ a[5] = w[1] /\ a[6] = w[2]
  <2>1. 4 + 1 = 5 /\ 4 + 2 = 6
    OBVIOUS
  <2> QED BY <1>3, <2>1
<1>6. c[1] = u[1] /\ c[2] = u[2] /\ c[3] = v[1] /\ c[4] = v[2]
  <2>1. 2 + 1 = 3 /\ 2 + 2 = 4
    OBVIOUS
  <2> QED BY <1>2, <2>1
<1> QED BY <1>4, <1>5, <1>6 DEF a, c

LEMMA PartsTaken ==
  ASSUME NEW a \in Fp6
  PROVE  /\ C0(a) \in Fp2 /\ C1(a) \in Fp2 /\ C2(a) \in Fp2
         /\ C0(a)[1] = a[1] /\ C0(a)[2] = a[2] /\ C1(a)[1] = a[3]
         /\ C1(a)[2] = a[4] /\ C2(a)[1] = a[5] /\ C2(a)[2] = a[6]
<1>1. \A k \in 0 .. 4 : \A j \in 1 .. 2 : SubSeq(a, k + 1, k + 2)[j] = a[k + j]
  <2> TAKE k \in 0 .. 4
  <2> DEFINE n == 6
             m == 2
  <2>1. n \in Nat /\ m \in Nat /\ k \in Nat /\ k + m <= n /\ a \in [1 .. n -> Field]
    BY DEF Fp6
  <2>2. \A j \in 1 .. m : SubSeq(a, k + 1, k + m)[j] = a[k + j]
    <3> HIDE DEF n, m
    <3> QED BY ONLY <2>1, VectorSlice
  <2> QED BY <2>2
<1>2. \A j \in 1 .. 2 : /\ SubSeq(a, 0 + 1, 0 + 2)[j] = a[0 + j]
                        /\ SubSeq(a, 2 + 1, 2 + 2)[j] = a[2 + j]
                        /\ SubSeq(a, 4 + 1, 4 + 2)[j] = a[4 + j]
  BY <1>1
<1> QED BY <1>2, PartsTyped DEF C0, C1, C2

LEMMA Lifts6Parts ==
  ASSUME NEW a, NEW A, Lifts6(a, A)
  PROVE  /\ Lifts2(C0(a), A[1], A[2]) /\ Lifts2(C1(a), A[3], A[4])
         /\ Lifts2(C2(a), A[5], A[6])
         /\ A[1] \in Int /\ A[2] \in Int /\ A[3] \in Int
         /\ A[4] \in Int /\ A[5] \in Int /\ A[6] \in Int
BY PartsTaken DEF Lifts6, Lifts2, Ints6

LEMMA Lifts6Join ==
  ASSUME NEW u, NEW x \in Int, NEW y \in Int, Lifts2(u, x, y),
         NEW v, NEW z \in Int, NEW w \in Int, Lifts2(v, z, w),
         NEW t, NEW r \in Int, NEW s \in Int, Lifts2(t, r, s)
  PROVE  Lifts6(u \o v \o t, <<x, y, z, w, r, s>>)
<1> DEFINE a == u \o v \o t
           A == <<x, y, z, w, r, s>>
<1>1. u \in Fp2 /\ v \in Fp2 /\ t \in Fp2
        /\ Alike(u[1], x) /\ Alike(u[2], y) /\ Alike(v[1], z)
        /\ Alike(v[2], w) /\ Alike(t[1], r) /\ Alike(t[2], s)
  BY DEF Lifts2
<1>2. /\ a \in Fp6
      /\ a[1] = u[1] /\ a[2] = u[2] /\ a[3] = v[1]
      /\ a[4] = v[2] /\ a[5] = t[1] /\ a[6] = t[2]
  BY <1>1, PartsJoined
<1>3. A \in Ints6 /\ A[1] = x /\ A[2] = y /\ A[3] = z /\ A[4] = w /\ A[5] = r /\ A[6] = s
  BY DEF Ints6
<1> HIDE DEF a, A
<1>4. ASSUME NEW i \in 1 .. 6 PROVE Alike(a[i], A[i])
  <2>1. i = 1 \/ i = 2 \/ i = 3 \/ i = 4 \/ i = 5 \/ i = 6
    OBVIOUS
  <2> QED BY <1>1, <1>2, <1>3, <2>1
<1>5. Lifts6(a, A)
  BY <1>2, <1>3, <1>4 DEF Lifts6
<1> QED BY <1>5 DEF a, A

LEMMA LiftsOwn == \A a \in Fp6 : Lifts6(a, a)
BY FieldNumbers DEF Lifts6, Ints6, Fp6, Alike

LEMMA LiftsSame ==
  ASSUME NEW a, NEW b, NEW A, Lifts6(a, A), Lifts6(b, A)
  PROVE  a = b
<1>1. \A x \in Field : x % P = x
  BY FieldAssumption DEF Field
<1>2. a \in [1 .. 6 -> Field] /\ b \in [1 .. 6 -> Field]
  BY DEF Lifts6, Fp6
<1>3. ASSUME NEW i \in 1 .. 6 PROVE a[i] = b[i]
  <2>1. a[i] % P = b[i] % P
    BY DEF Lifts6, Alike
  <2> QED BY <1>1, <1>2, <2>1
<1> QED BY <1>2, <1>3

(* The product of u^i.v^j, where v^3 = -v - 1.                             *)
Times6(A, B) ==
  LET re(i, j) == Re(A[i], A[i + 1], B[j], B[j + 1])
      im(i, j) == Im(A[i], A[i + 1], B[j], B[j + 1])
  IN <<re(1, 1) - re(3, 5) - re(5, 3),
       im(1, 1) - im(3, 5) - im(5, 3),
       re(1, 3) + re(3, 1) - re(3, 5) - re(5, 3) - re(5, 5),
       im(1, 3) + im(3, 1) - im(3, 5) - im(5, 3) - im(5, 5),
       re(1, 5) + re(3, 3) + re(5, 1) - re(5, 5),
       im(1, 5) + im(3, 3) + im(5, 1) - im(5, 5)>>

LEMMA TimesTyped ==
  ASSUME NEW A \in Ints6, NEW B \in Ints6
  PROVE  Times6(A, B) \in Ints6
<1>1. \A x, y, z, w \in Int : Re(x, y, z, w) \in Int /\ Im(x, y, z, w) \in Int
  BY DEF Re, Im
<1>2. \A i \in {1, 3, 5} : /\ A[i] \in Int /\ A[i + 1] \in Int
                           /\ B[i] \in Int /\ B[i + 1] \in Int
  BY DEF Ints6
<1> DEFINE re(i, j) == Re(A[i], A[i + 1], B[j], B[j + 1])
           im(i, j) == Im(A[i], A[i + 1], B[j], B[j + 1])
<1>3. \A i, j \in {1, 3, 5} : re(i, j) \in Int /\ im(i, j) \in Int
  BY <1>1, <1>2
<1>4. Times6(A, B) = <<re(1, 1) - re(3, 5) - re(5, 3),
       im(1, 1) - im(3, 5) - im(5, 3),
       re(1, 3) + re(3, 1) - re(3, 5) - re(5, 3) - re(5, 5),
       im(1, 3) + im(3, 1) - im(3, 5) - im(5, 3) - im(5, 5),
       re(1, 5) + re(3, 3) + re(5, 1) - re(5, 5),
       im(1, 5) + im(3, 3) + im(5, 1) - im(5, 5)>>
  BY DEF Times6
<1> HIDE DEF re, im
<1> QED BY <1>3, <1>4 DEF Ints6

LEMMA LiftsCombine ==
  ASSUME NEW aa, NEW p1 \in Int, NEW p2 \in Int, Lifts2(aa, p1, p2),
         NEW bb, NEW q1 \in Int, NEW q2 \in Int, Lifts2(bb, q1, q2),
         NEW cc, NEW r1 \in Int, NEW r2 \in Int, Lifts2(cc, r1, r2),
         NEW ab, NEW s1 \in Int, NEW s2 \in Int, Lifts2(ab, s1, s2),
         NEW ac, NEW t1 \in Int, NEW t2 \in Int, Lifts2(ac, t1, t2),
         NEW bc, NEW u1 \in Int, NEW u2 \in Int, Lifts2(bc, u1, u2)
  PROVE  Lifts6(Combine(aa, bb, cc, ab, ac, bc),
                <<p1 + q1 + r1 - u1, p2 + q2 + r2 - u2,
                  s1 - u1 - p1, s2 - u2 - p2,
                  t1 - (p1 + q1 + r1) - r1 + 2 * q1,
                  t2 - (p2 + q2 + r2) - r2 + 2 * q2>>)
<1> DEFINE sum == Add(Add(aa, bb), cc)
           d1 == p1 + q1 + r1
           d2 == p2 + q2 + r2
<1>1. Lifts2(sum, d1, d2) /\ d1 \in Int /\ d2 \in Int
  <2>1. Lifts2(Add(aa, bb), p1 + q1, p2 + q2)
    BY Lifts2Ops
  <2> DEFINE ab0 == Add(aa, bb)
             e1 == p1 + q1
             e2 == p2 + q2
  <2>2. Lifts2(ab0, e1, e2) /\ e1 \in Int /\ e2 \in Int /\ sum = Add(ab0, cc)
          /\ d1 = e1 + r1 /\ d2 = e2 + r2
    BY <2>1
  <2> HIDE DEF ab0, e1, e2, sum, d1, d2
  <2>3. Lifts2(Add(ab0, cc), e1 + r1, e2 + r2)
    BY <2>2, Lifts2Ops
  <2> QED BY <2>2, <2>3
<1>2. Combine(aa, bb, cc, ab, ac, bc)
        = Sub(sum, bc) \o Sub(Sub(ab, bc), aa)
            \o Add(Sub(Sub(ac, sum), cc), Double(bb))
  BY DEF Combine
<1> HIDE DEF sum, d1, d2
<1>3. Lifts2(Sub(sum, bc), d1 - u1, d2 - u2)
  BY <1>1, Lifts2Ops
<1>4. Lifts2(Sub(Sub(ab, bc), aa), s1 - u1 - p1, s2 - u2 - p2)
  <2> DEFINE v == Sub(ab, bc)
             e1 == s1 - u1
             e2 == s2 - u2
  <2>1. Lifts2(v, e1, e2) /\ e1 \in Int /\ e2 \in Int
    BY Lifts2Ops
  <2> HIDE DEF v, e1, e2
  <2>2. Lifts2(Sub(v, aa), e1 - p1, e2 - p2)
    BY <2>1, Lifts2Ops
  <2> QED BY <2>2 DEF v, e1, e2
<1>5. Lifts2(Add(Sub(Sub(ac, sum), cc), Double(bb)),
             t1 - d1 - r1 + 2 * q1, t2 - d2 - r2 + 2 * q2)
  <2> DEFINE v == Sub(ac, sum)
             e1 == t1 - d1
             e2 == t2 - d2
             w == Sub(v, cc)
             f1 == e1 - r1
             f2 == e2 - r2
             o == Double(bb)
             g1 == 2 * q1
             g2 == 2 * q2
  <2>1. Lifts2(v, e1, e2) /\ e1 \in Int /\ e2 \in Int
    BY <1>1, Lifts2Ops
  <2>2. Lifts2(w, f1, f2) /\ f1 \in Int /\ f2 \in Int
    <3> HIDE DEF v, e1, e2
    <3> QED BY <2>1, Lifts2Ops
  <2>3. Lifts2(o, g1, g2) /\ g1 \in Int /\ g2 \in Int
    BY Lifts2Ops
  <2> HIDE DEF w, f1, f2, o, g1, g2
  <2>4. Lifts2(Add(w, o), f1 + g1, f2 + g2)
    BY <2>2, <2>3, Lifts2Ops
  <2> QED BY <2>4 DEF v, e1, e2, w, f1, f2, o, g1, g2
<1> DEFINE z == Sub(sum, bc)
           z1 == d1 - u1
           z2 == d2 - u2
           y == Sub(Sub(ab, bc), aa)
           y1 == s1 - u1 - p1
           y2 == s2 - u2 - p2
           x == Add(Sub(Sub(ac, sum), cc), Double(bb))
           x1 == t1 - d1 - r1 + 2 * q1
           x2 == t2 - d2 - r2 + 2 * q2
<1>6. Lifts2(z, z1, z2) /\ Lifts2(y, y1, y2) /\ Lifts2(x, x1, x2)
        /\ z1 \in Int /\ z2 \in Int /\ y1 \in Int /\ y2 \in Int
        /\ x1 \in Int /\ x2 \in Int
  BY <1>1, <1>3, <1>4, <1>5
<1> HIDE DEF x, x1, x2, y, y1, y2, z, z1, z2
<1>7. Lifts6(z \o y \o x, <<z1, z2, y1, y2, x1, x2>>)
  BY ONLY <1>6, Lifts6Join
<1> QED BY <1>2, <1>7 DEF x, x1, x2, y, y1, y2, z, z1, z2, d1, d2

LEMMA LiftsMul ==
  ASSUME NEW a, NEW A, Lifts6(a, A), NEW b, NEW B, Lifts6(b, B)
  PROVE  Lifts6(MulFp6(a, b), Times6(A, B))
<1> DEFINE x1 == A[1]  x2 == A[2]  x3 == A[3]  x4 == A[4]  x5 == A[5]  x6 == A[6]
           y1 == B[1]  y2 == B[2]  y3 == B[3]  y4 == B[4]  y5 == B[5]  y6 == B[6]
           a0 == C0(a)  a1 == C1(a)  a2 == C2(a)
           b0 == C0(b)  b1 == C1(b)  b2 == C2(b)
<1>1. /\ Lifts2(a0, x1, x2) /\ Lifts2(a1, x3, x4) /\ Lifts2(a2, x5, x6)
      /\ Lifts2(b0, y1, y2) /\ Lifts2(b1, y3, y4) /\ Lifts2(b2, y5, y6)
      /\ x1 \in Int /\ x2 \in Int /\ x3 \in Int /\ x4 \in Int /\ x5 \in Int /\ x6 \in Int
      /\ y1 \in Int /\ y2 \in Int /\ y3 \in Int /\ y4 \in Int /\ y5 \in Int /\ y6 \in Int
  BY Lifts6Parts
<1> DEFINE aa == MulFp2(a0, b0)
           bb == MulFp2(a1, b1)
           cc == MulFp2(a2, b2)
           ab == MulFp2(Add(a0, a1), Add(b0, b1))
           ac == MulFp2(Add(a0, a2), Add(b0, b2))
           bc == MulFp2(Add(a1, a2), Add(b1, b2))
           p1 == Re(x1, x2, y1, y2)  p2 == Im(x1, x2, y1, y2)
           q1 == Re(x3, x4, y3, y4)  q2 == Im(x3, x4, y3, y4)
           r1 == Re(x5, x6, y5, y6)  r2 == Im(x5, x6, y5, y6)
           s1 == Re(x1 + x3, x2 + x4, y1 + y3, y2 + y4)
           s2 == Im(x1 + x3, x2 + x4, y1 + y3, y2 + y4)
           t1 == Re(x1 + x5, x2 + x6, y1 + y5, y2 + y6)
           t2 == Im(x1 + x5, x2 + x6, y1 + y5, y2 + y6)
           u1 == Re(x3 + x5, x4 + x6, y3 + y5, y4 + y6)
           u2 == Im(x3 + x5, x4 + x6, y3 + y5, y4 + y6)
           tuple == <<p1 + q1 + r1 - u1, p2 + q2 + r2 - u2,
                      s1 - u1 - p1, s2 - u2 - p2,
                      t1 - (p1 + q1 + r1) - r1 + 2 * q1,
                      t2 - (p2 + q2 + r2) - r2 + 2 * q2>>
<1>2. MulFp6(a, b) = Combine(aa, bb, cc, ab, ac, bc)
  BY DEF MulFp6
<1>3. Times6(A, B)
        = <<Re(x1, x2, y1, y2) - Re(x3, x4, y5, y6) - Re(x5, x6, y3, y4),
            Im(x1, x2, y1, y2) - Im(x3, x4, y5, y6) - Im(x5, x6, y3, y4),
            Re(x1, x2, y3, y4) + Re(x3, x4, y1, y2) - Re(x3, x4, y5, y6)
                     - Re(x5, x6, y3, y4) - Re(x5, x6, y5, y6),
            Im(x1, x2, y3, y4) + Im(x3, x4, y1, y2) - Im(x3, x4, y5, y6)
                     - Im(x5, x6, y3, y4) - Im(x5, x6, y5, y6),
            Re(x1, x2, y5, y6) + Re(x3, x4, y3, y4) + Re(x5, x6, y1, y2)
                     - Re(x5, x6, y5, y6),
            Im(x1, x2, y5, y6) + Im(x3, x4, y3, y4) + Im(x5, x6, y1, y2)
                     - Im(x5, x6, y5, y6)>>
  <2>1. 1 + 1 = 2 /\ 3 + 1 = 4 /\ 5 + 1 = 6
    OBVIOUS
  <2> QED BY <2>1 DEF Times6
<1> HIDE DEF x1, x2, x3, x4, x5, x6, y1, y2, y3, y4, y5, y6, a0, a1, a2, b0, b1, b2
<1>4. tuple = Times6(A, B)
  <2> DEFINE n1 == Re(x1, x2, y1, y2) - Re(x3, x4, y5, y6) - Re(x5, x6, y3, y4)
             n2 == Im(x1, x2, y1, y2) - Im(x3, x4, y5, y6) - Im(x5, x6, y3, y4)
             n3 == Re(x1, x2, y3, y4) + Re(x3, x4, y1, y2) - Re(x3, x4, y5, y6)
                     - Re(x5, x6, y3, y4) - Re(x5, x6, y5, y6)
             n4 == Im(x1, x2, y3, y4) + Im(x3, x4, y1, y2) - Im(x3, x4, y5, y6)
                     - Im(x5, x6, y3, y4) - Im(x5, x6, y5, y6)
             n5 == Re(x1, x2, y5, y6) + Re(x3, x4, y3, y4) + Re(x5, x6, y1, y2)
                     - Re(x5, x6, y5, y6)
             n6 == Im(x1, x2, y5, y6) + Im(x3, x4, y3, y4) + Im(x5, x6, y1, y2)
                     - Im(x5, x6, y5, y6)
  <2>1. /\ p1 + q1 + r1 - u1 = n1 /\ p2 + q2 + r2 - u2 = n2
        /\ s1 - u1 - p1 = n3 /\ s2 - u2 - p2 = n4
        /\ t1 - (p1 + q1 + r1) - r1 + 2 * q1 = n5
        /\ t2 - (p2 + q2 + r2) - r2 + 2 * q2 = n6
    BY <1>1 DEF Re, Im
  <2>2. Times6(A, B) = <<n1, n2, n3, n4, n5, n6>>
    BY <1>3
  <2> HIDE DEF n1, n2, n3, n4, n5, n6, p1, p2, q1, q2, r1, r2, s1, s2, t1, t2, u1, u2
  <2> QED BY <2>1, <2>2
<1>5. /\ Lifts2(aa, p1, p2) /\ Lifts2(bb, q1, q2) /\ Lifts2(cc, r1, r2)
  BY <1>1, Lifts2Ops
<1>6. \A u, v, w, t : \A c1, c2, d1, d2, e1, e2, f1, f2 \in Int :
        Lifts2(u, c1, c2) /\ Lifts2(v, d1, d2) /\ Lifts2(w, e1, e2) /\ Lifts2(t, f1, f2)
          => Lifts2(MulFp2(Add(u, v), Add(w, t)),
                    Re(c1 + d1, c2 + d2, e1 + f1, e2 + f2),
                    Im(c1 + d1, c2 + d2, e1 + f1, e2 + f2))
  <2> TAKE u, v, w, t
  <2> TAKE c1, c2, d1, d2, e1, e2, f1, f2 \in Int
  <2> SUFFICES ASSUME Lifts2(u, c1, c2), Lifts2(v, d1, d2),
                      Lifts2(w, e1, e2), Lifts2(t, f1, f2)
               PROVE  Lifts2(MulFp2(Add(u, v), Add(w, t)),
                             Re(c1 + d1, c2 + d2, e1 + f1, e2 + f2),
                             Im(c1 + d1, c2 + d2, e1 + f1, e2 + f2))
    OBVIOUS
  <2> DEFINE m == Add(u, v)  m1 == c1 + d1  m2 == c2 + d2
             n == Add(w, t)  n1 == e1 + f1  n2 == e2 + f2
  <2>1. Lifts2(m, m1, m2) /\ Lifts2(n, n1, n2)
    BY Lifts2Ops
  <2>2. m1 \in Int /\ m2 \in Int /\ n1 \in Int /\ n2 \in Int
    OBVIOUS
  <2> HIDE DEF m, m1, m2, n, n1, n2
  <2>3. Lifts2(MulFp2(m, n), Re(m1, m2, n1, n2), Im(m1, m2, n1, n2))
    BY <2>1, <2>2, Lifts2Ops
  <2> QED BY <2>3 DEF m, m1, m2, n, n1, n2
<1>7. Lifts2(ab, s1, s2) /\ Lifts2(ac, t1, t2) /\ Lifts2(bc, u1, u2)
  BY ONLY <1>1, <1>6
<1>8. /\ p1 \in Int /\ p2 \in Int /\ q1 \in Int /\ q2 \in Int /\ r1 \in Int /\ r2 \in Int
      /\ s1 \in Int /\ s2 \in Int /\ t1 \in Int /\ t2 \in Int /\ u1 \in Int /\ u2 \in Int
  BY <1>1 DEF Re, Im
<1> HIDE DEF aa, bb, cc, ab, ac, bc, p1, p2, q1, q2, r1, r2, s1, s2, t1, t2, u1, u2
<1>9. Lifts6(Combine(aa, bb, cc, ab, ac, bc), tuple)
  BY ONLY <1>5, <1>7, <1>8, LiftsCombine, ZenonT(60)
<1> HIDE DEF tuple
<1> QED BY <1>2, <1>4, <1>9

(* The same of the reference product, whose first products are not reduced. *)
Loose(u, x, y) == u \in [1 .. 2 -> Int] /\ Alike(u[1], x) /\ Alike(u[2], y)

LEMMA LooseOps ==
  ASSUME NEW u, NEW x \in Int, NEW y \in Int, Loose(u, x, y),
         NEW v, NEW z \in Int, NEW w \in Int, Loose(v, z, w)
  PROVE  /\ Loose(Add(u, v), x + z, y + w)
         /\ Loose(Sub(u, v), x - z, y - w)
         /\ Lifts2([i \in 1 .. 2 |-> u[i] % P], x, y)
<1> DEFINE u1 == u[1]
           u2 == u[2]
           v1 == v[1]
           v2 == v[2]
<1>1. /\ u1 \in Int /\ u2 \in Int /\ v1 \in Int /\ v2 \in Int
      /\ Alike(u1, x) /\ Alike(u2, y) /\ Alike(v1, z) /\ Alike(v2, w)
      /\ DOMAIN u = 1 .. 2
  BY DEF Loose
<1> DEFINE a == Add(u, v)
           s == Sub(u, v)
           m == [i \in 1 .. 2 |-> u[i] % P]
<1>2. /\ a = [i \in 1 .. 2 |-> (u[i] + v[i]) % P]
      /\ s = [i \in 1 .. 2 |-> (u[i] - v[i]) % P]
  BY <1>1 DEF Add, Sub
<1>3. /\ a[1] = (u1 + v1) % P /\ a[2] = (u2 + v2) % P
      /\ s[1] = (u1 - v1) % P /\ s[2] = (u2 - v2) % P
      /\ m[1] = u1 % P /\ m[2] = u2 % P
  BY <1>2
<1>4. /\ u1 + v1 \in Int /\ u2 + v2 \in Int /\ u1 - v1 \in Int /\ u2 - v2 \in Int
      /\ x + z \in Int /\ y + w \in Int /\ x - z \in Int /\ y - w \in Int
  <2> HIDE DEF u1, u2, v1, v2
  <2> QED BY <1>1
<1>5. a \in Fp2 /\ s \in Fp2 /\ m \in Fp2
  <2>1. \A i \in 1 .. 2 : u[i] \in Int /\ v[i] \in Int
    BY DEF Loose
  <2>2. \A i \in 1 .. 2 : /\ (u[i] + v[i]) % P \in Field /\ (u[i] - v[i]) % P \in Field
                          /\ u[i] % P \in Field
    BY <2>1, Residue
  <2> QED BY <1>2, <2>2 DEF Fp2
<1>6. \A p \in Fp2 : p \in [1 .. 2 -> Int]
  BY FieldNumbers DEF Fp2
<1> HIDE DEF u1, u2, v1, v2, a, s, m
<1>7. Alike(u1 + v1, x + z) /\ Alike(u2 + v2, y + w)
        /\ Alike(u1 - v1, x - z) /\ Alike(u2 - v2, y - w)
  BY <1>1, AlikeOps
<1>8. Alike(a[1], x + z) /\ Alike(a[2], y + w) /\ Alike(s[1], x - z)
        /\ Alike(s[2], y - w) /\ Alike(m[1], x) /\ Alike(m[2], y)
  BY <1>1, <1>3, <1>4, <1>7, ResidueAlike
<1>9. Loose(a, x + z, y + w) /\ Loose(s, x - z, y - w) /\ Lifts2(m, x, y)
  BY <1>5, <1>6, <1>8 DEF Loose, Lifts2
<1> QED BY <1>9 DEF a, s, m

LEMMA LooseSums ==
  ASSUME NEW u, NEW x \in Int, NEW y \in Int, Loose(u, x, y),
         NEW v, NEW z \in Int, NEW w \in Int, Loose(v, z, w)
  PROVE  Loose(Add(u, v), x + z, y + w) /\ Loose(Sub(u, v), x - z, y - w)
BY LooseOps

LEMMA LooseReduced ==
  ASSUME NEW u, NEW x \in Int, NEW y \in Int, Loose(u, x, y)
  PROVE  Lifts2([i \in 1 .. 2 |-> u[i] % P], x, y)
BY LooseOps

LEMMA LiftsProduct ==
  ASSUME NEW a \in Fp6, NEW b \in Fp6
  PROVE  Lifts6(Product(a, b), Times6(a, b))
<1> DEFINE u(i) == <<a[2 * i + 1], a[2 * i + 2]>>
           w(i) == <<b[2 * i + 1], b[2 * i + 2]>>
           times(s, t) == <<s[1] * t[1] + 2 * s[2] * t[2],
                            s[1] * t[2] + s[2] * t[1] + 2 * s[2] * t[2]>>
           mod(s) == [i \in 1 .. 2 |-> s[i] % P]
           x1 == a[1]  x2 == a[2]  x3 == a[3]  x4 == a[4]  x5 == a[5]  x6 == a[6]
           y1 == b[1]  y2 == b[2]  y3 == b[3]  y4 == b[4]  y5 == b[5]  y6 == b[6]
<1>1. /\ x1 \in Int /\ x2 \in Int /\ x3 \in Int /\ x4 \in Int /\ x5 \in Int /\ x6 \in Int
      /\ y1 \in Int /\ y2 \in Int /\ y3 \in Int /\ y4 \in Int /\ y5 \in Int /\ y6 \in Int
  BY FieldNumbers DEF Fp6
<1>2. /\ u(0) = <<x1, x2>> /\ u(1) = <<x3, x4>> /\ u(2) = <<x5, x6>>
      /\ w(0) = <<y1, y2>> /\ w(1) = <<y3, y4>> /\ w(2) = <<y5, y6>>
  <2>1. /\ 2 * 0 + 1 = 1 /\ 2 * 0 + 2 = 2 /\ 2 * 1 + 1 = 3 /\ 2 * 1 + 2 = 4
        /\ 2 * 2 + 1 = 5 /\ 2 * 2 + 2 = 6
    OBVIOUS
  <2> QED BY <2>1
<1> HIDE DEF u, w, x1, x2, x3, x4, x5, x6, y1, y2, y3, y4, y5, y6
<1>3. \A s1, s2, t1, t2 \in Int :
        /\ Loose(times(<<s1, s2>>, <<t1, t2>>), Re(s1, s2, t1, t2), Im(s1, s2, t1, t2))
        /\ Re(s1, s2, t1, t2) \in Int /\ Im(s1, s2, t1, t2) \in Int
  <2> TAKE s1, s2, t1, t2 \in Int
  <2>1. times(<<s1, s2>>, <<t1, t2>>) = <<Re(s1, s2, t1, t2), Im(s1, s2, t1, t2)>>
    BY DEF Re, Im
  <2>2. Re(s1, s2, t1, t2) \in Int /\ Im(s1, s2, t1, t2) \in Int
    BY DEF Re, Im
  <2> HIDE DEF times
  <2> QED BY <2>1, <2>2 DEF Loose, Alike
<1> DEFINE t(i, j) == times(u(i), w(j))
           p00 == Re(x1, x2, y1, y2)  q00 == Im(x1, x2, y1, y2)
           p01 == Re(x1, x2, y3, y4)  q01 == Im(x1, x2, y3, y4)
           p02 == Re(x1, x2, y5, y6)  q02 == Im(x1, x2, y5, y6)
           p10 == Re(x3, x4, y1, y2)  q10 == Im(x3, x4, y1, y2)
           p11 == Re(x3, x4, y3, y4)  q11 == Im(x3, x4, y3, y4)
           p12 == Re(x3, x4, y5, y6)  q12 == Im(x3, x4, y5, y6)
           p20 == Re(x5, x6, y1, y2)  q20 == Im(x5, x6, y1, y2)
           p21 == Re(x5, x6, y3, y4)  q21 == Im(x5, x6, y3, y4)
           p22 == Re(x5, x6, y5, y6)  q22 == Im(x5, x6, y5, y6)
           c0 == t(0, 0)
           c1 == Add(t(0, 1), t(1, 0))
           c2 == Add(t(0, 2), Add(t(1, 1), t(2, 0)))
           c3 == Add(t(1, 2), t(2, 1))
           c4 == t(2, 2)
<1>4. /\ Loose(t(0, 0), p00, q00) /\ Loose(t(0, 1), p01, q01) /\ Loose(t(0, 2), p02, q02)
      /\ Loose(t(1, 0), p10, q10) /\ Loose(t(1, 1), p11, q11) /\ Loose(t(1, 2), p12, q12)
      /\ Loose(t(2, 0), p20, q20) /\ Loose(t(2, 1), p21, q21) /\ Loose(t(2, 2), p22, q22)
      /\ p00 \in Int /\ q00 \in Int /\ p01 \in Int /\ q01 \in Int /\ p02 \in Int
      /\ q02 \in Int /\ p10 \in Int /\ q10 \in Int /\ p11 \in Int /\ q11 \in Int
      /\ p12 \in Int /\ q12 \in Int /\ p20 \in Int /\ q20 \in Int /\ p21 \in Int
      /\ q21 \in Int /\ p22 \in Int /\ q22 \in Int
  <2> HIDE DEF times
  <2> QED BY <1>1, <1>2, <1>3
<1>5. Product(a, b) = mod(Sub(c0, c3)) \o mod(Sub(Sub(c1, c3), c4)) \o mod(Sub(c2, c4))
  BY DEF Product, u, w
<1>6. Times6(a, b)
        = <<p00 - p12 - p21, q00 - q12 - q21,
            p01 + p10 - p12 - p21 - p22, q01 + q10 - q12 - q21 - q22,
            p02 + p11 + p20 - p22, q02 + q11 + q20 - q22>>
  <2>1. 1 + 1 = 2 /\ 3 + 1 = 4 /\ 5 + 1 = 6
    OBVIOUS
  <2> QED BY <2>1 DEF Times6, x1, x2, x3, x4, x5, x6, y1, y2, y3, y4, y5, y6
<1> HIDE DEF t, times, p00, q00, p01, q01, p02, q02, p10, q10, p11, q11, p12, q12,
             p20, q20, p21, q21, p22, q22
<1> DEFINE d11 == Add(t(1, 1), t(2, 0))
           e == Sub(c1, c3)
           k1 == p01 + p10  l1 == q01 + q10
           k2 == p02 + (p11 + p20)  l2 == q02 + (q11 + q20)
           k3 == p12 + p21  l3 == q12 + q21
           m2 == p11 + p20  n2 == q11 + q20
           m1 == k1 - k3  n1 == l1 - l3
           f0 == Sub(c0, c3)  f1 == Sub(e, c4)  f2 == Sub(c2, c4)
           g0 == p00 - k3  h0 == q00 - l3
           g1 == m1 - p22  h1 == n1 - q22
           g2 == k2 - p22  h2 == l2 - q22
<1>7. /\ Loose(c1, k1, l1) /\ Loose(c3, k3, l3) /\ Loose(d11, m2, n2)
      /\ k1 \in Int /\ l1 \in Int /\ k3 \in Int /\ l3 \in Int /\ m2 \in Int /\ n2 \in Int
  BY ONLY <1>4, LooseSums
<1>8. Loose(c2, k2, l2) /\ k2 \in Int /\ l2 \in Int
  <2>1. c2 = Add(t(0, 2), d11) /\ k2 = p02 + m2 /\ l2 = q02 + n2
    OBVIOUS
  <2> HIDE DEF c2, d11, k2, l2, m2, n2
  <2>2. Loose(Add(t(0, 2), d11), p02 + m2, q02 + n2)
    BY <1>4, <1>7, LooseSums
  <2>3. p02 + m2 \in Int /\ q02 + n2 \in Int
    BY <1>4, <1>7
  <2> QED BY <2>1, <2>2, <2>3
<1> HIDE DEF c1, c2, c3, d11, k1, l1, k2, l2, k3, l3, m2, n2
<1>9. Loose(e, m1, n1) /\ m1 \in Int /\ n1 \in Int
  BY ONLY <1>7, LooseSums
<1> HIDE DEF e, m1, n1
<1>10. /\ Loose(f0, g0, h0) /\ Loose(f1, g1, h1) /\ Loose(f2, g2, h2)
       /\ g0 \in Int /\ h0 \in Int /\ g1 \in Int /\ h1 \in Int /\ g2 \in Int /\ h2 \in Int
  BY ONLY <1>4, <1>7, <1>8, <1>9, LooseSums
<1> HIDE DEF f0, g0, h0, f1, g1, h1, f2, g2, h2
<1>11. Lifts2(mod(f0), g0, h0) /\ Lifts2(mod(f1), g1, h1) /\ Lifts2(mod(f2), g2, h2)
  BY <1>10, LooseReduced
<1> HIDE DEF mod
<1>12. Lifts6(mod(f0) \o mod(f1) \o mod(f2), <<g0, h0, g1, h1, g2, h2>>)
  BY ONLY <1>10, <1>11, Lifts6Join
<1>13. Times6(a, b) = <<g0, h0, g1, h1, g2, h2>>
  <2>1. /\ p00 - p12 - p21 = g0 /\ q00 - q12 - q21 = h0
        /\ p01 + p10 - p12 - p21 - p22 = g1 /\ q01 + q10 - q12 - q21 - q22 = h1
        /\ p02 + p11 + p20 - p22 = g2 /\ q02 + q11 + q20 - q22 = h2
    BY <1>4 DEF g0, h0, g1, h1, g2, h2, m1, n1, k1, l1, k2, l2, k3, l3
  <2> QED BY <1>6, <2>1
<1>14. Product(a, b) = mod(f0) \o mod(f1) \o mod(f2)
  BY <1>5 DEF f0, f1, f2, e, c1, c2, c3, t
<1> QED BY <1>12, <1>13, <1>14

LEMMA SquareIsMul == \A u \in Fp2 : SquareFp2(u) = MulFp2(u, u)
<1> TAKE u \in Fp2
<1> DEFINE x == u[1]
           y == u[2]
<1>1. x \in Int /\ y \in Int
  BY FieldNumbers DEF Fp2
<1> HIDE DEF x, y
<1>2. y * y + (2 * (y * y) + x * x) - (x - y) * (x - y)
        = y * y + (2 * (y * y) + x * x) + (x - y) * (y - x)
  BY <1>1
<1> QED BY <1>2 DEF SquareFp2, MulFp2, x, y

(* The code's multiplication, with six products of pairs for nine and      *)
(* three products of numbers for four in each, is the product modulo       *)
(* v^3 + v + 1 and u^2 - 2u - 2, and its square the product with itself,   *)
(* for every p (ecc.rs mul_fp6, square_fp6, mul_fp2, square_fp2).          *)
THEOREM MulFp6IsProduct ==
  \A a, b \in Fp6 : MulFp6(a, b) = Product(a, b) /\ SquareFp6(a) = Square(a)
<1>1. ASSUME NEW a \in Fp6, NEW b \in Fp6 PROVE MulFp6(a, b) = Product(a, b)
  <2>1. Lifts6(MulFp6(a, b), Times6(a, b))
    BY LiftsOwn, LiftsMul
  <2> QED BY <2>1, LiftsProduct, LiftsSame
<1>2. ASSUME NEW a \in Fp6 PROVE SquareFp6(a) = MulFp6(a, a)
  <2> DEFINE a0 == C0(a)  a1 == C1(a)  a2 == C2(a)
  <2>2. /\ a0 \in Fp2 /\ a1 \in Fp2 /\ a2 \in Fp2 /\ Add(a0, a1) \in Fp2
        /\ Add(a0, a2) \in Fp2 /\ Add(a1, a2) \in Fp2
    BY PartsTyped, Fp2Typed
  <2> HIDE DEF a0, a1, a2
  <2>3. /\ SquareFp2(a0) = MulFp2(a0, a0) /\ SquareFp2(a1) = MulFp2(a1, a1)
        /\ SquareFp2(a2) = MulFp2(a2, a2)
        /\ SquareFp2(Add(a0, a1)) = MulFp2(Add(a0, a1), Add(a0, a1))
        /\ SquareFp2(Add(a0, a2)) = MulFp2(Add(a0, a2), Add(a0, a2))
        /\ SquareFp2(Add(a1, a2)) = MulFp2(Add(a1, a2), Add(a1, a2))
    BY <2>2, SquareIsMul
  <2> QED BY <2>3 DEF SquareFp6, MulFp6, a0, a1, a2
<1> QED BY <1>1, <1>2 DEF Square

LEMMA TimesAssociates ==
  ASSUME NEW A \in Ints6, NEW B \in Ints6, NEW C \in Ints6
  PROVE  Times6(Times6(A, B), C) = Times6(A, Times6(B, C))
<1> DEFINE x1 == A[1]  x2 == A[2]  x3 == A[3]  x4 == A[4]  x5 == A[5]  x6 == A[6]
           y1 == B[1]  y2 == B[2]  y3 == B[3]  y4 == B[4]  y5 == B[5]  y6 == B[6]
           z1 == C[1]  z2 == C[2]  z3 == C[3]  z4 == C[4]  z5 == C[5]  z6 == C[6]
           D == Times6(A, B)
           E == Times6(B, C)
           p1 == D[1]  p2 == D[2]  p3 == D[3]  p4 == D[4]  p5 == D[5]  p6 == D[6]
           q1 == E[1]  q2 == E[2]  q3 == E[3]  q4 == E[4]  q5 == E[5]  q6 == E[6]
<1>1. /\ x1 \in Int /\ x2 \in Int /\ x3 \in Int /\ x4 \in Int /\ x5 \in Int /\ x6 \in Int
      /\ y1 \in Int /\ y2 \in Int /\ y3 \in Int /\ y4 \in Int /\ y5 \in Int /\ y6 \in Int
      /\ z1 \in Int /\ z2 \in Int /\ z3 \in Int /\ z4 \in Int /\ z5 \in Int /\ z6 \in Int
  BY DEF Ints6
<1>2. 1 + 1 = 2 /\ 3 + 1 = 4 /\ 5 + 1 = 6
  OBVIOUS
<1>3. /\ p1 = Re(x1, x2, y1, y2) - Re(x3, x4, y5, y6) - Re(x5, x6, y3, y4)
      /\ p2 = Im(x1, x2, y1, y2) - Im(x3, x4, y5, y6) - Im(x5, x6, y3, y4)
      /\ p3 = Re(x1, x2, y3, y4) + Re(x3, x4, y1, y2) - Re(x3, x4, y5, y6)
                - Re(x5, x6, y3, y4) - Re(x5, x6, y5, y6)
      /\ p4 = Im(x1, x2, y3, y4) + Im(x3, x4, y1, y2) - Im(x3, x4, y5, y6)
                - Im(x5, x6, y3, y4) - Im(x5, x6, y5, y6)
      /\ p5 = Re(x1, x2, y5, y6) + Re(x3, x4, y3, y4) + Re(x5, x6, y1, y2)
                - Re(x5, x6, y5, y6)
      /\ p6 = Im(x1, x2, y5, y6) + Im(x3, x4, y3, y4) + Im(x5, x6, y1, y2)
                - Im(x5, x6, y5, y6)
  BY <1>2 DEF Times6
<1>4. /\ q1 = Re(y1, y2, z1, z2) - Re(y3, y4, z5, z6) - Re(y5, y6, z3, z4)
      /\ q2 = Im(y1, y2, z1, z2) - Im(y3, y4, z5, z6) - Im(y5, y6, z3, z4)
      /\ q3 = Re(y1, y2, z3, z4) + Re(y3, y4, z1, z2) - Re(y3, y4, z5, z6)
                - Re(y5, y6, z3, z4) - Re(y5, y6, z5, z6)
      /\ q4 = Im(y1, y2, z3, z4) + Im(y3, y4, z1, z2) - Im(y3, y4, z5, z6)
                - Im(y5, y6, z3, z4) - Im(y5, y6, z5, z6)
      /\ q5 = Re(y1, y2, z5, z6) + Re(y3, y4, z3, z4) + Re(y5, y6, z1, z2)
                - Re(y5, y6, z5, z6)
      /\ q6 = Im(y1, y2, z5, z6) + Im(y3, y4, z3, z4) + Im(y5, y6, z1, z2)
                - Im(y5, y6, z5, z6)
  BY <1>2 DEF Times6
<1>5. Times6(D, C)
        = <<Re(p1, p2, z1, z2) - Re(p3, p4, z5, z6) - Re(p5, p6, z3, z4),
            Im(p1, p2, z1, z2) - Im(p3, p4, z5, z6) - Im(p5, p6, z3, z4),
            Re(p1, p2, z3, z4) + Re(p3, p4, z1, z2) - Re(p3, p4, z5, z6)
              - Re(p5, p6, z3, z4) - Re(p5, p6, z5, z6),
            Im(p1, p2, z3, z4) + Im(p3, p4, z1, z2) - Im(p3, p4, z5, z6)
              - Im(p5, p6, z3, z4) - Im(p5, p6, z5, z6),
            Re(p1, p2, z5, z6) + Re(p3, p4, z3, z4) + Re(p5, p6, z1, z2)
              - Re(p5, p6, z5, z6),
            Im(p1, p2, z5, z6) + Im(p3, p4, z3, z4) + Im(p5, p6, z1, z2)
              - Im(p5, p6, z5, z6)>>
  <2> HIDE DEF D
  <2> QED BY <1>2 DEF Times6
<1>6. Times6(A, E)
        = <<Re(x1, x2, q1, q2) - Re(x3, x4, q5, q6) - Re(x5, x6, q3, q4),
            Im(x1, x2, q1, q2) - Im(x3, x4, q5, q6) - Im(x5, x6, q3, q4),
            Re(x1, x2, q3, q4) + Re(x3, x4, q1, q2) - Re(x3, x4, q5, q6)
              - Re(x5, x6, q3, q4) - Re(x5, x6, q5, q6),
            Im(x1, x2, q3, q4) + Im(x3, x4, q1, q2) - Im(x3, x4, q5, q6)
              - Im(x5, x6, q3, q4) - Im(x5, x6, q5, q6),
            Re(x1, x2, q5, q6) + Re(x3, x4, q3, q4) + Re(x5, x6, q1, q2)
              - Re(x5, x6, q5, q6),
            Im(x1, x2, q5, q6) + Im(x3, x4, q3, q4) + Im(x5, x6, q1, q2)
              - Im(x5, x6, q5, q6)>>
  <2> HIDE DEF E
  <2> QED BY <1>2 DEF Times6
<1> HIDE DEF x1, x2, x3, x4, x5, x6, y1, y2, y3, y4, y5, y6, z1, z2, z3, z4, z5, z6,
             p1, p2, p3, p4, p5, p6, q1, q2, q3, q4, q5, q6, D, E
<1>7. /\ Re(p1, p2, z1, z2) - Re(p3, p4, z5, z6) - Re(p5, p6, z3, z4)
           = Re(x1, x2, q1, q2) - Re(x3, x4, q5, q6) - Re(x5, x6, q3, q4)
      /\ Im(p1, p2, z1, z2) - Im(p3, p4, z5, z6) - Im(p5, p6, z3, z4)
           = Im(x1, x2, q1, q2) - Im(x3, x4, q5, q6) - Im(x5, x6, q3, q4)
  BY <1>1, <1>3, <1>4 DEF Re, Im
<1>8. /\ Re(p1, p2, z3, z4) + Re(p3, p4, z1, z2) - Re(p3, p4, z5, z6)
             - Re(p5, p6, z3, z4) - Re(p5, p6, z5, z6)
           = Re(x1, x2, q3, q4) + Re(x3, x4, q1, q2) - Re(x3, x4, q5, q6)
             - Re(x5, x6, q3, q4) - Re(x5, x6, q5, q6)
      /\ Im(p1, p2, z3, z4) + Im(p3, p4, z1, z2) - Im(p3, p4, z5, z6)
             - Im(p5, p6, z3, z4) - Im(p5, p6, z5, z6)
           = Im(x1, x2, q3, q4) + Im(x3, x4, q1, q2) - Im(x3, x4, q5, q6)
             - Im(x5, x6, q3, q4) - Im(x5, x6, q5, q6)
  BY <1>1, <1>3, <1>4 DEF Re, Im
<1>9. /\ Re(p1, p2, z5, z6) + Re(p3, p4, z3, z4) + Re(p5, p6, z1, z2)
             - Re(p5, p6, z5, z6)
           = Re(x1, x2, q5, q6) + Re(x3, x4, q3, q4) + Re(x5, x6, q1, q2)
             - Re(x5, x6, q5, q6)
      /\ Im(p1, p2, z5, z6) + Im(p3, p4, z3, z4) + Im(p5, p6, z1, z2)
             - Im(p5, p6, z5, z6)
           = Im(x1, x2, q5, q6) + Im(x3, x4, q3, q4) + Im(x5, x6, q1, q2)
             - Im(x5, x6, q5, q6)
  BY <1>1, <1>3, <1>4 DEF Re, Im
<1>10. Times6(D, C) = Times6(A, E)
  BY <1>5, <1>6, <1>7, <1>8, <1>9
<1> QED BY <1>10 DEF D, E

LEMMA MulAssociates ==
  ASSUME NEW a \in Fp6, NEW b \in Fp6, NEW c \in Fp6
  PROVE  MulFp6(MulFp6(a, b), c) = MulFp6(a, MulFp6(b, c))
<1>1. Lifts6(a, a) /\ Lifts6(b, b) /\ Lifts6(c, c)
  BY LiftsOwn
<1>2. Lifts6(MulFp6(a, b), Times6(a, b)) /\ Lifts6(MulFp6(b, c), Times6(b, c))
  BY <1>1, LiftsMul
<1>3. /\ Lifts6(MulFp6(MulFp6(a, b), c), Times6(Times6(a, b), c))
      /\ Lifts6(MulFp6(a, MulFp6(b, c)), Times6(a, Times6(b, c)))
  BY <1>1, <1>2, LiftsMul
<1>4. Times6(Times6(a, b), c) = Times6(a, Times6(b, c))
  BY <1>1, TimesAssociates DEF Lifts6
<1> QED BY <1>3, <1>4, LiftsSame

LEMMA MulUnits ==
  ASSUME NEW a \in Fp6
  PROVE  /\ MulFp6(a, One6) = a
         /\ MulFp6(a, Zero6) = Zero6 /\ MulFp6(Zero6, a) = Zero6
<1> DEFINE x1 == a[1]  x2 == a[2]  x3 == a[3]  x4 == a[4]  x5 == a[5]  x6 == a[6]
<1>1. /\ x1 \in Int /\ x2 \in Int /\ x3 \in Int /\ x4 \in Int /\ x5 \in Int /\ x6 \in Int
      /\ a = <<x1, x2, x3, x4, x5, x6>>
  BY FieldNumbers DEF Fp6
<1>2. /\ Zero6 \in Fp6 /\ One6 \in Fp6
      /\ Zero6 = <<0, 0, 0, 0, 0, 0>> /\ One6 = <<1, 0, 0, 0, 0, 0>>
  <2>1. Zero6 = <<0, 0, 0, 0, 0, 0>>
    BY DEF Zero6
  <2>2. One6 = <<1, 0, 0, 0, 0, 0>>
    BY DEF One6, Zero6
  <2> QED BY <2>1, <2>2, FieldNumbers DEF Fp6
<1>3. \A x, y \in Int : /\ Re(x, y, 1, 0) = x /\ Im(x, y, 1, 0) = y
                        /\ Re(x, y, 0, 0) = 0 /\ Im(x, y, 0, 0) = 0
                        /\ Re(0, 0, x, y) = 0 /\ Im(0, 0, x, y) = 0
  BY DEF Re, Im
<1>4. 1 + 1 = 2 /\ 3 + 1 = 4 /\ 5 + 1 = 6 /\ 0 \in Int /\ 1 \in Int
  OBVIOUS
<1> HIDE DEF x1, x2, x3, x4, x5, x6
<1>5. /\ Times6(a, One6) = a /\ Times6(a, Zero6) = Zero6
      /\ Times6(Zero6, a) = Zero6
  <2>1. /\ a[1] = x1 /\ a[2] = x2 /\ a[3] = x3 /\ a[4] = x4 /\ a[5] = x5 /\ a[6] = x6
    BY DEF x1, x2, x3, x4, x5, x6
  <2>2. /\ One6[1] = 1 /\ One6[2] = 0 /\ One6[3] = 0 /\ One6[4] = 0 /\ One6[5] = 0
        /\ One6[6] = 0 /\ \A i \in 1 .. 6 : Zero6[i] = 0
    BY <1>2
  <2>3. Times6(a, One6) = <<x1, x2, x3, x4, x5, x6>>
    BY <1>1, <1>3, <1>4, <2>1, <2>2 DEF Times6
  <2>4. Times6(a, Zero6) = <<0, 0, 0, 0, 0, 0>>
    BY <1>1, <1>3, <1>4, <2>1, <2>2 DEF Times6
  <2>5. Times6(Zero6, a) = <<0, 0, 0, 0, 0, 0>>
    BY <1>1, <1>3, <1>4, <2>1, <2>2 DEF Times6
  <2> QED BY <1>1, <1>2, <2>3, <2>4, <2>5
<1>6. Lifts6(a, a) /\ Lifts6(One6, One6) /\ Lifts6(Zero6, Zero6)
  BY <1>2, LiftsOwn
<1>7. /\ Lifts6(MulFp6(a, One6), a) /\ Lifts6(MulFp6(a, Zero6), Zero6)
      /\ Lifts6(MulFp6(Zero6, a), Zero6)
  BY <1>5, <1>6, LiftsMul
<1> QED BY <1>6, <1>7, LiftsSame

(* An inverse in the base field, and of a pair.                            *)
LEMMA InvInverts == \A n \in Field \ {0} : Alike(n * Inv(n), 1)
<1> TAKE n \in Field \ {0}
<1>1. n \in 1 .. (P - 1) /\ 1 % P = 1
  BY FieldAssumption DEF Field
<1>2. \E b \in Field : (n * b) % P = 1
  BY <1>1, FieldAssumption
<1> QED BY <1>1, <1>2 DEF Inv, Alike

LEMMA InvertFp2Inverts ==
  ASSUME NEW n \in Fp2, NormFp2(n) # 0
  PROVE  LET t == InvertFp2(n)
         IN /\ Lifts2(t, t[1], t[2]) /\ t[1] \in Int /\ t[2] \in Int
            /\ Alike(Re(n[1], n[2], t[1], t[2]), 1)
            /\ Alike(Im(n[1], n[2], t[1], t[2]), 0)
<1> DEFINE x == n[1]
           y == n[2]
           w == x * x + 2 * x * y - 2 * y * y
           v == Inv(NormFp2(n))
           t == InvertFp2(n)
           t1 == (x + 2 * y) * v
           t2 == -y * v
<1>1. x \in Int /\ y \in Int /\ w \in Int
  <2>1. x \in Int /\ y \in Int
    BY FieldNumbers DEF Fp2
  <2> HIDE DEF x, y
  <2> QED BY <2>1
<1>2. NormFp2(n) = w % P
  BY DEF NormFp2
<1>3. w % P \in Field \ {0} /\ w % P \in Int
  <2> HIDE DEF w
  <2> QED BY <1>1, <1>2, Residue, FieldNumbers
<1>4. v \in Int /\ Alike((w % P) * v, 1)
  <2> HIDE DEF w
  <2> QED BY <1>2, <1>3, InvTyped, InvInverts, FieldNumbers
<1>5. t = <<t1 % P, t2 % P>>
  BY DEF InvertFp2
<1> HIDE DEF v, t
<1>6. Alike(w * v, 1) /\ w * v \in Int
  <2> DEFINE r == w % P
  <2>1. Alike(r, w) /\ r \in Int
    <3> HIDE DEF w
    <3> QED BY <1>1, <1>3, AlikeMeans
  <2>2. Alike(v, v)
    BY DEF Alike
  <2>3. Alike(r * v, w * v)
    <3> HIDE DEF r, w
    <3> QED BY <1>1, <1>4, <2>1, <2>2, AlikeOps
  <2>4. w * v \in Int
    <3> HIDE DEF w
    <3> QED BY <1>1, <1>4
  <2> QED BY <1>4, <2>3, <2>4 DEF Alike
<1>7. t1 \in Int /\ t2 \in Int
  <2> HIDE DEF x, y
  <2> QED BY <1>1, <1>4
<1>8. Re(x, y, t1, t2) = w * v /\ Im(x, y, t1, t2) = 0
  <2> HIDE DEF x, y
  <2> QED BY <1>1, <1>4 DEF Re, Im
<1> HIDE DEF x, y, w, t1, t2
<1>9. /\ t[1] = t1 % P /\ t[2] = t2 % P /\ t[1] \in Int /\ t[2] \in Int
      /\ Alike(t[1], t1) /\ Alike(t[2], t2)
  <2>1. t1 % P \in Int /\ t2 % P \in Int
    BY <1>7, Residue, FieldNumbers
  <2> QED BY <1>5, <1>7, <2>1, AlikeMeans
<1>10. /\ Alike(Re(x, y, t[1], t[2]), Re(x, y, t1, t2))
       /\ Alike(Im(x, y, t[1], t[2]), Im(x, y, t1, t2))
  <2> DEFINE s1 == t[1]
             s2 == t[2]
  <2>1. Alike(x, x) /\ Alike(y, y)
    BY DEF Alike
  <2>2. s1 \in Int /\ s2 \in Int /\ Alike(s1, t1) /\ Alike(s2, t2)
    BY <1>9
  <2> HIDE DEF s1, s2
  <2>3. /\ Alike(x * s1, x * t1) /\ Alike(y * s2, y * t2)
        /\ Alike(x * s2, x * t2) /\ Alike(y * s1, y * t1)
    BY <1>1, <1>7, <2>1, <2>2, AlikeOps
  <2> DEFINE a == x * s1  b == y * s2  c == x * s2  d == y * s1
             e == x * t1  f == y * t2  g == x * t2  i == y * t1
  <2>4. /\ a \in Int /\ b \in Int /\ c \in Int /\ d \in Int
        /\ e \in Int /\ f \in Int /\ g \in Int /\ i \in Int
    BY <1>1, <1>7, <2>2
  <2>5. /\ Re(x, y, s1, s2) = a + (b + b) /\ Re(x, y, t1, t2) = e + (f + f)
        /\ Im(x, y, s1, s2) = (c + d) + (b + b)
        /\ Im(x, y, t1, t2) = (g + i) + (f + f)
    BY <1>1, <1>7, <2>2 DEF Re, Im
  <2>6. Alike(a, e) /\ Alike(b, f) /\ Alike(c, g) /\ Alike(d, i)
    BY <2>3
  <2> HIDE DEF a, b, c, d, e, f, g, i
  <2>7. Alike(b + b, f + f) /\ b + b \in Int /\ f + f \in Int
          /\ Alike(c + d, g + i) /\ c + d \in Int /\ g + i \in Int
    BY <2>4, <2>6, AlikeOps
  <2>8. Alike(a + (b + b), e + (f + f)) /\ Alike((c + d) + (b + b), (g + i) + (f + f))
    BY <2>4, <2>6, <2>7, AlikeOps
  <2> QED BY <2>5, <2>8 DEF s1, s2
<1>11. t \in Fp2
  BY Fp2Typed DEF t
<1>12. Lifts2(t, t[1], t[2])
  BY <1>11 DEF Lifts2, Alike
<1>13. Alike(Re(x, y, t[1], t[2]), 1) /\ Alike(Im(x, y, t[1], t[2]), 0)
  BY <1>6, <1>8, <1>10 DEF Alike
<1> QED BY <1>9, <1>12, <1>13 DEF x, y, t


(* No element but zero has the norm zero: the tower is one of fields.      *)
Null(x, y) == Alike(x, 0) /\ Alike(y, 0)

LEMMA NullOps ==
  ASSUME NEW x \in Int, NEW y \in Int, NEW z \in Int, NEW w \in Int, Null(z, w)
  PROVE  /\ Null(Re(x, y, z, w), Im(x, y, z, w))
         /\ Null(x, y) => Null(x + z, y + w) /\ Null(x - z, y - w)
<1>1. 0 \in Int /\ Alike(x, x) /\ Alike(y, y)
  BY DEF Alike
<1>2. Null(x, y) => Null(x + z, y + w) /\ Null(x - z, y - w)
  <2>1. 0 + 0 = 0 /\ 0 - 0 = 0
    OBVIOUS
  <2> SUFFICES ASSUME Null(x, y) PROVE Null(x + z, y + w) /\ Null(x - z, y - w)
    OBVIOUS
  <2>2. /\ Alike(x + z, 0 + 0) /\ Alike(y + w, 0 + 0)
        /\ Alike(x - z, 0 - 0) /\ Alike(y - w, 0 - 0)
    BY ONLY <1>1, AlikeOps, Null(x, y), Null(z, w), x \in Int, y \in Int, z \in Int,
       w \in Int DEF Null
  <2> QED BY <2>1, <2>2 DEF Null
<1>3. PICK j \in Int : z = 0 + P * j
  BY <1>1, AlikeMeans DEF Null
<1>4. PICK k \in Int : w = 0 + P * k
  BY <1>1, AlikeMeans DEF Null
<1> DEFINE a == x * j + 2 * (y * k)
           b == x * k + y * j + 2 * (y * k)
           c == Re(x, y, z, w)
           d == Im(x, y, z, w)
<1>5. P \in Int
  BY FieldNumbers
<1>6. /\ a \in Int /\ b \in Int /\ c \in Int /\ d \in Int
      /\ c = 0 + P * a /\ d = 0 + P * b
  BY <1>3, <1>4, <1>5 DEF Re, Im
<1> HIDE DEF a, b, c, d
<1>7. Alike(c, 0) /\ Alike(d, 0)
  BY <1>1, <1>6, AlikeMeans
<1> QED BY <1>2, <1>7 DEF Null, c, d

(* The pair of residues, and when it is zero.                              *)
LEMMA Reduced2 ==
  ASSUME NEW x \in Int, NEW y \in Int
  PROVE  /\ Lifts2(<<x % P, y % P>>, x, y)
         /\ Null(x, y) <=> <<x % P, y % P>> = <<0, 0>>
<1>1. x % P \in Field /\ y % P \in Field
  BY Residue
<1>2. 0 % P = 0
  BY FieldAssumption
<1>3. <<x % P, y % P>> \in Fp2
  BY <1>1 DEF Fp2
<1> QED BY <1>1, <1>2, <1>3, AlikeMeans DEF Lifts2, Null, Alike

(* The norm to the base field.                                             *)
LEMMA NormFp2NotZero ==
  ASSUME NEW n \in Fp2, n # <<0, 0>>
  PROVE  NormFp2(n) # 0
<1> DEFINE x == n[1]
           y == n[2]
           w == x * x + 2 * x * y - 2 * y * y
           v == Inv(y)
           a == -x * v
           r == a % P
<1>1. x \in Field /\ y \in Field /\ x \in Int /\ y \in Int /\ n = <<x, y>>
  BY FieldNumbers DEF Fp2
<1>2. w \in Int /\ NormFp2(n) = w % P
  <2>1. NormFp2(n) = w % P
    BY DEF NormFp2
  <2> HIDE DEF x, y
  <2> QED BY <1>1, <2>1
<1> SUFFICES ASSUME Alike(w, 0) PROVE FALSE
  BY <1>2, FieldAssumption DEF Alike
<1>3. PICK q \in Int : w = 0 + P * q
  BY <1>2, AlikeMeans
<1>4. CASE y = 0
  <2>1. x \in 1 .. (P - 1)
    BY <1>1, <1>4 DEF Field
  <2>2. Alike(x * Inv(x), 1) /\ Inv(x) \in Int
    BY <1>1, <2>1, InvInverts, InvTyped, FieldNumbers
  <2> DEFINE z == Inv(x)
             c == x * z
             d == x * c
             e == q * z
  <2> HIDE DEF x, z
  <2>3. P \in Nat \ {0} /\ w = x * x
    BY <1>1, <1>4, FieldAssumption
  <2>4. z \in Int /\ c \in Int /\ d \in Int /\ e \in Int /\ d = 0 + P * e
    <3>1. z \in Int
      BY <2>2 DEF z
    <3>2. x * x = P * q /\ x \in Int /\ P \in Int
      BY <1>1, <1>3, <2>3
    <3>3. x * (x * z) = (x * x) * z /\ (P * q) * z = P * (q * z)
      BY <3>1, <3>2
    <3> QED BY <3>1, <3>2, <3>3
  <2>5. Alike(c, 1)
    BY <2>2 DEF z
  <2> HIDE DEF c, d, e
  <2>6. Alike(d, 0)
    BY <2>4, AlikeMeans
  <2>7. Alike(d, x)
    <3>1. Alike(x, x) /\ x * 1 = x
      BY <1>1 DEF Alike
    <3>2. Alike(x * c, x * 1)
      BY ONLY <1>1, <2>4, <2>5, <3>1, AlikeOps, 1 \in Int
    <3> QED BY <3>1, <3>2 DEF d
  <2> QED BY <2>1, <2>3, <2>6, <2>7, FieldAssumption DEF Alike
<1>5. CASE y # 0
  <2>1. Alike(y * v, 1) /\ v \in Int
    BY <1>1, <1>5, InvInverts, InvTyped, FieldNumbers
  <2> HIDE DEF x, y, v
  <2>2. PICK k \in Int : y * v = 1 + P * k
    <3>1. y * v \in Int
      BY <1>1, <2>1
    <3> QED BY <2>1, <3>1, AlikeMeans
  <2>3. P \in Int /\ a \in Int
    BY <1>1, <2>1, FieldNumbers
  \* v^2.w = a^2 - 2a(yv) - 2(yv)^2
  <2> DEFINE e == q * v * v + 2 * a * k + 2 * (2 * k + P * k * k)
             f == a * a - 2 * a - 2
  <2>4. f = 0 + P * e /\ e \in Int /\ f \in Int
    <3> DEFINE i == y * v
    <3>1. a * a - 2 * a * i - 2 * i * i = P * q * v * v
      BY <1>1, <1>3, <2>1, <2>3
    <3>2. i = 1 + P * k /\ i \in Int
      BY <1>1, <2>1, <2>2
    <3> HIDE DEF i, a
    <3> QED BY <2>1, <2>3, <3>1, <3>2
  <2> HIDE DEF e, f
  <2>5. Alike(f, 0)
    BY <2>4, AlikeMeans
  <2> DEFINE g == r * r - 2 * r - 2
  <2>6. r \in Field /\ r \in Int /\ Alike(r, a)
    <3> HIDE DEF a
    <3> QED BY <2>3, Residue, FieldNumbers, AlikeMeans
  <2>7. Alike(g, f)
    <3> HIDE DEF a, r
    <3>1. PICK j \in Int : r = a + P * j
      BY <2>3, <2>6, AlikeMeans
    <3>2. g \in Int /\ g = f + P * (2 * a * j + P * j * j - 2 * j)
      BY <2>3, <2>6, <3>1 DEF f
    <3> DEFINE c == 2 * a * j + P * j * j - 2 * j
    <3>3. c \in Int /\ g = f + P * c
      BY <2>3, <3>2
    <3> HIDE DEF c, g
    <3> QED BY <2>4, <3>2, <3>3, AlikeMeans
  <2> HIDE DEF r
  <2>8. g % P = 0
    BY <2>5, <2>7, FieldAssumption DEF Alike
  <2> QED BY <2>6, <2>8, RootAssumption
<1> QED BY <1>4, <1>5

(* A pair that is not null has an inverse.                                 *)
LEMMA NotNullInverts ==
  ASSUME NEW x \in Int, NEW y \in Int, ~Null(x, y)
  PROVE  \E z, w \in Int : Null(Re(x, y, z, w) - 1, Im(x, y, z, w))
<1> DEFINE n == <<x % P, y % P>>
           t == InvertFp2(n)
           z == t[1]
           w == t[2]
<1>1. Lifts2(n, x, y) /\ n # <<0, 0>>
  BY Reduced2
<1>2. n \in Fp2 /\ n[1] \in Int /\ n[2] \in Int /\ Lifts2(n, n[1], n[2])
  BY <1>1, FieldNumbers DEF Lifts2, Alike, Fp2
<1> HIDE DEF n
<1>3. /\ Lifts2(t, z, w) /\ z \in Int /\ w \in Int
      /\ Alike(Re(n[1], n[2], z, w), 1) /\ Alike(Im(n[1], n[2], z, w), 0)
  BY <1>1, <1>2, NormFp2NotZero, InvertFp2Inverts
<1> HIDE DEF t, z, w
<1>4. Alike(Re(x, y, z, w), 1) /\ Alike(Im(x, y, z, w), 0)
  <2> DEFINE n1 == n[1]
             n2 == n[2]
  <2>1. n1 \in Int /\ n2 \in Int /\ Lifts2(n, n1, n2)
    BY <1>2
  <2>2. Alike(Re(n1, n2, z, w), 1) /\ Alike(Im(n1, n2, z, w), 0)
    BY <1>3
  <2> HIDE DEF n1, n2
  <2>3. /\ Lifts2(MulFp2(n, t), Re(n1, n2, z, w), Im(n1, n2, z, w))
        /\ Lifts2(MulFp2(n, t), Re(x, y, z, w), Im(x, y, z, w))
    BY <1>1, <1>3, <2>1, Lifts2Ops
  <2> QED BY <2>2, <2>3 DEF Lifts2, Alike
<1> DEFINE r == Re(x, y, z, w)
           o == 1
<1>5. r \in Int /\ 0 = o - o /\ Alike(o, o) /\ Alike(r, o) /\ o \in Int
  BY <1>3, <1>4 DEF Re, Alike
<1> HIDE DEF r, o
<1>6. Alike(r - o, 0)
  BY <1>5, AlikeOps
<1> QED BY <1>3, <1>4, <1>6 DEF Null, r, o

(* Division by it.                                                         *)
LEMMA NotNullDivides ==
  ASSUME NEW x \in Int, NEW y \in Int, ~Null(x, y)
  PROVE  /\ \A z, w \in Int : Null(Re(x, y, z, w), Im(x, y, z, w)) => Null(z, w)
         /\ \A z, w \in Int : \E p, q \in Int :
              Null(Re(x, y, p, q) - z, Im(x, y, p, q) - w)
<1>1. PICK i, j \in Int : Null(Re(x, y, i, j) - 1, Im(x, y, i, j))
  BY NotNullInverts
<1> DEFINE a == Re(x, y, i, j) - 1
           b == Im(x, y, i, j)
<1>2. a \in Int /\ b \in Int /\ Null(a, b)
  BY <1>1 DEF Re, Im
<1>3. ASSUME NEW z \in Int, NEW w \in Int
      PROVE  /\ Re(z, w, a, b) \in Int /\ Im(z, w, a, b) \in Int
             /\ Null(Re(z, w, a, b), Im(z, w, a, b))
  <2> HIDE DEF a, b
  <2>1. Null(Re(z, w, a, b), Im(z, w, a, b))
    BY <1>2, NullOps
  <2> QED BY <1>2, <2>1 DEF Re, Im
<1>4. ASSUME NEW z \in Int, NEW w \in Int, Null(Re(x, y, z, w), Im(x, y, z, w))
      PROVE  Null(z, w)
  <2> DEFINE c == Re(x, y, z, w)
             d == Im(x, y, z, w)
             e == Re(i, j, c, d)
             f == Im(i, j, c, d)
             g == Re(z, w, a, b)
             o == Im(z, w, a, b)
  <2>1. c \in Int /\ d \in Int /\ Null(c, d)
    BY <1>4 DEF Re, Im
  <2>2. z = e - g /\ w = f - o
    BY DEF Re, Im
  <2> HIDE DEF c, d
  <2>3. e \in Int /\ f \in Int
    BY <2>1 DEF Re, Im
  <2>4. Null(e, f)
    BY <2>1, NullOps
  <2>5. Null(g, o) /\ g \in Int /\ o \in Int
    BY <1>3
  <2> HIDE DEF e, f, g, o
  <2>6. Null(e - g, f - o)
    BY <2>3, <2>4, <2>5, NullOps
  <2> QED BY <2>2, <2>6
<1>5. ASSUME NEW z \in Int, NEW w \in Int
      PROVE  \E p, q \in Int : Null(Re(x, y, p, q) - z, Im(x, y, p, q) - w)
  <2> DEFINE p == Re(i, j, z, w)
             q == Im(i, j, z, w)
  <2>1. /\ Re(x, y, p, q) - z = Re(z, w, a, b)
        /\ Im(x, y, p, q) - w = Im(z, w, a, b)
    BY DEF Re, Im
  <2>2. p \in Int /\ q \in Int
    BY DEF Re, Im
  <2> QED BY <1>3, <2>1, <2>2
<1> QED BY <1>4, <1>5

(* v^3 + v + 1, lifted.                                                    *)
LEMMA NoRoot ==
  ASSUME NEW x \in Int, NEW y \in Int
  PROVE  LET s == Re(x, y, x, y)
             t == Im(x, y, x, y)
         IN ~Null(Re(s, t, x, y) + x + 1, Im(s, t, x, y) + y)
<1> DEFINE s == Re(x, y, x, y)
           t == Im(x, y, x, y)
           p == Re(s, t, x, y)
           q == Im(s, t, x, y)
           c == <<x % P, y % P>>
           sq == SquareFp2(c)
           cube == MulFp2(sq, c)
           sum == Add(Add(cube, c), <<1, 0>>)
<1>1. Lifts2(c, x, y) /\ c \in Fp2
  BY Reduced2 DEF Lifts2
<1> HIDE DEF c
<1>2. s \in Int /\ t \in Int
  BY DEF Re, Im
<1>3. Lifts2(sq, s, t)
  BY <1>1, SquareIsMul, Lifts2Ops
<1> HIDE DEF s, t, sq
<1>4. p \in Int /\ q \in Int
  BY <1>2 DEF Re, Im
<1>5. Lifts2(cube, p, q)
  BY <1>1, <1>2, <1>3, Lifts2Ops
<1> HIDE DEF p, q, cube
<1> DEFINE p1 == p + x
           q1 == q + y
           p2 == p1 + 1
           q2 == q1 + 0
<1>6. p1 \in Int /\ q1 \in Int /\ p2 \in Int /\ q2 \in Int /\ q2 = q + y
  BY <1>4
<1>7. Lifts2(Add(cube, c), p1, q1)
  BY <1>1, <1>4, <1>5, Lifts2Ops
<1>8. Lifts2(<<1, 0>>, 1, 0)
  BY FieldNumbers DEF Lifts2, Fp2, Alike
<1> HIDE DEF p1, q1
<1>9. Lifts2(sum, p2, q2)
  BY <1>6, <1>7, <1>8, Lifts2Ops
<1>10. sum # <<0, 0>>
  BY <1>1, RootAssumption DEF sq, cube
<1> HIDE DEF sum, p2, q2
<1>11. Null(p2, q2) => sum = <<0, 0>>
  <2> SUFFICES ASSUME Null(p2, q2) PROVE sum = <<0, 0>>
    OBVIOUS
  <2>1. \A e \in Field : e % P = 0 % P => e = 0
    BY FieldAssumption DEF Field
  <2>2. sum[1] \in Field /\ sum[2] \in Field /\ sum = <<sum[1], sum[2]>>
    BY <1>9 DEF Lifts2, Fp2
  <2>3. sum[1] % P = 0 % P /\ sum[2] % P = 0 % P
    BY <1>9 DEF Lifts2, Null, Alike
  <2> QED BY <2>1, <2>2, <2>3
<1>12. ~Null(p2, q2)
  BY <1>10, <1>11
<1> QED BY <1>6, <1>12 DEF p1, p2, s, t, p, q

(* The norm, lifted: c0.(c0^2 + c1^2) - c1^3 + (c0 + c2 - c1).c2^2         *)
(* - (2.c0^2 - 3.c0.c1).c2.                                                *)
NormPart(part(_, _, _, _), x1, x2, x3, x4, x5, x6) ==
  LET s1 == Re(x1, x2, x1, x2)  s2 == Im(x1, x2, x1, x2)
      s3 == Re(x3, x4, x3, x4)  s4 == Im(x3, x4, x3, x4)
      s5 == Re(x5, x6, x5, x6)  s6 == Im(x5, x6, x5, x6)
      p1 == 2 * s1 - Re(3 * x1, 3 * x2, x3, x4)
      p2 == 2 * s2 - Im(3 * x1, 3 * x2, x3, x4)
  IN (part(x1, x2, s1 + s3, s2 + s4) - part(x3, x4, s3, s4)
        + part(x1 + x5 - x3, x2 + x6 - x4, s5, s6)) - part(p1, p2, x5, x6)
NormRe(x1, x2, x3, x4, x5, x6) == NormPart(Re, x1, x2, x3, x4, x5, x6)
NormIm(x1, x2, x3, x4, x5, x6) == NormPart(Im, x1, x2, x3, x4, x5, x6)

LEMMA NormLifts ==
  ASSUME NEW a \in Fp6, NEW x1, NEW x2, NEW x3, NEW x4, NEW x5, NEW x6,
         a = <<x1, x2, x3, x4, x5, x6>>
  PROVE  LET n1 == NormRe(x1, x2, x3, x4, x5, x6)
             n2 == NormIm(x1, x2, x3, x4, x5, x6)
         IN Lifts2(NormFp6(a), n1, n2) /\ n1 \in Int /\ n2 \in Int
<1> DEFINE c0 == C0(a)  c1 == C1(a)  c2 == C2(a)
           sq0 == SquareFp2(c0)  sq1 == SquareFp2(c1)  sq2 == SquareFp2(c2)
           s1 == Re(x1, x2, x1, x2)  s2 == Im(x1, x2, x1, x2)
           s3 == Re(x3, x4, x3, x4)  s4 == Im(x3, x4, x3, x4)
           s5 == Re(x5, x6, x5, x6)  s6 == Im(x5, x6, x5, x6)
<1>1. /\ x1 \in Int /\ x2 \in Int /\ x3 \in Int /\ x4 \in Int /\ x5 \in Int /\ x6 \in Int
      /\ Lifts2(c0, x1, x2) /\ Lifts2(c1, x3, x4) /\ Lifts2(c2, x5, x6)
  <2>1. a[1] = x1 /\ a[2] = x2 /\ a[3] = x3 /\ a[4] = x4 /\ a[5] = x5 /\ a[6] = x6
    OBVIOUS
  <2> QED BY <2>1, LiftsOwn, Lifts6Parts
<1>2. /\ Lifts2(sq0, s1, s2) /\ Lifts2(sq1, s3, s4) /\ Lifts2(sq2, s5, s6)
      /\ s1 \in Int /\ s2 \in Int /\ s3 \in Int /\ s4 \in Int /\ s5 \in Int /\ s6 \in Int
  <2>1. sq0 = MulFp2(c0, c0) /\ sq1 = MulFp2(c1, c1) /\ sq2 = MulFp2(c2, c2)
    BY <1>1, SquareIsMul DEF Lifts2
  <2>2. /\ s1 \in Int /\ s2 \in Int /\ s3 \in Int /\ s4 \in Int /\ s5 \in Int /\ s6 \in Int
    BY <1>1 DEF Re, Im
  <2> HIDE DEF c0, c1, c2, sq0, sq1, sq2
  <2> QED BY <1>1, <2>1, <2>2, Lifts2Ops
<1> HIDE DEF c0, c1, c2, s1, s2, s3, s4, s5, s6, sq0, sq1, sq2
<1> DEFINE u1 == Add(sq0, sq1)  e1 == s1 + s3  f1 == s2 + s4
           u2 == MulFp2(c0, u1)  e2 == Re(x1, x2, e1, f1)  f2 == Im(x1, x2, e1, f1)
           u3 == MulFp2(c1, sq1)  e3 == Re(x3, x4, s3, s4)  f3 == Im(x3, x4, s3, s4)
           u4 == Sub(u2, u3)  e4 == e2 - e3  f4 == f2 - f3
           u5 == Sub(c2, c1)  e5 == x5 - x3  f5 == x6 - x4
           u6 == Add(c0, u5)  e6 == x1 + e5  f6 == x2 + f5
           u7 == MulFp2(u6, sq2)  e7 == Re(e6, f6, s5, s6)  f7 == Im(e6, f6, s5, s6)
           u8 == Add(u4, u7)  e8 == e4 + e7  f8 == f4 + f7
           u9 == Double(c0)  e9 == 2 * x1  f9 == 2 * x2
           v1 == Add(u9, c0)  g1 == e9 + x1  h1 == f9 + x2
           v2 == MulFp2(v1, c1)  g2 == Re(g1, h1, x3, x4)  h2 == Im(g1, h1, x3, x4)
           v3 == Double(sq0)  g3 == 2 * s1  h3 == 2 * s2
           v4 == Sub(v3, v2)  g4 == g3 - g2  h4 == h3 - h2
           v5 == MulFp2(v4, c2)  g5 == Re(g4, h4, x5, x6)  h5 == Im(g4, h4, x5, x6)
           n1 == e8 - g5  n2 == f8 - h5
<1>3. NormFp6(a) = Sub(u8, v5)
  BY DEF NormFp6, c0, c1, c2, sq0, sq1, sq2
<1>4. \A u, v : \A p, q, r, s \in Int :
        Lifts2(u, p, q) /\ Lifts2(v, r, s)
          => /\ Lifts2(Add(u, v), p + r, q + s)
             /\ Lifts2(Sub(u, v), p - r, q - s)
             /\ Lifts2(Double(u), 2 * p, 2 * q)
             /\ Lifts2(MulFp2(u, v), Re(p, q, r, s), Im(p, q, r, s))
             /\ p + r \in Int /\ q + s \in Int /\ p - r \in Int /\ q - s \in Int
             /\ 2 * p \in Int /\ 2 * q \in Int
             /\ Re(p, q, r, s) \in Int /\ Im(p, q, r, s) \in Int
  BY Lifts2Ops DEF Re, Im
<1>5. /\ Lifts2(u1, e1, f1) /\ e1 \in Int /\ f1 \in Int
      /\ Lifts2(u3, e3, f3) /\ e3 \in Int /\ f3 \in Int
      /\ Lifts2(u5, e5, f5) /\ e5 \in Int /\ f5 \in Int
      /\ Lifts2(u9, e9, f9) /\ e9 \in Int /\ f9 \in Int
      /\ Lifts2(v3, g3, h3) /\ g3 \in Int /\ h3 \in Int
  BY ONLY <1>1, <1>2, <1>4
<1> HIDE DEF u1, u3, u5, u9, v3, e1, e3, e5, e9, g3, f1, f3, f5, f9, h3
<1>6. /\ Lifts2(u2, e2, f2) /\ e2 \in Int /\ f2 \in Int
      /\ Lifts2(u6, e6, f6) /\ e6 \in Int /\ f6 \in Int
      /\ Lifts2(v1, g1, h1) /\ g1 \in Int /\ h1 \in Int
  BY ONLY <1>1, <1>2, <1>4, <1>5
<1> HIDE DEF u2, u6, v1, e2, e6, g1, f2, f6, h1
<1>7. /\ Lifts2(u4, e4, f4) /\ e4 \in Int /\ f4 \in Int
      /\ Lifts2(u7, e7, f7) /\ e7 \in Int /\ f7 \in Int
      /\ Lifts2(v2, g2, h2) /\ g2 \in Int /\ h2 \in Int
  BY ONLY <1>1, <1>2, <1>4, <1>5, <1>6
<1> HIDE DEF u4, u7, v2, e4, e7, g2, f4, f7, h2
<1>8. /\ Lifts2(u8, e8, f8) /\ e8 \in Int /\ f8 \in Int
      /\ Lifts2(v4, g4, h4) /\ g4 \in Int /\ h4 \in Int
  BY ONLY <1>4, <1>5, <1>7
<1> HIDE DEF u8, v4, e8, f8, g4, h4
<1>9. Lifts2(v5, g5, h5) /\ g5 \in Int /\ h5 \in Int
  BY ONLY <1>1, <1>4, <1>8
<1> HIDE DEF v5, g5, h5
<1>10. Lifts2(NormFp6(a), n1, n2) /\ n1 \in Int /\ n2 \in Int
  <2>1. Lifts2(Sub(u8, v5), n1, n2) /\ n1 \in Int /\ n2 \in Int
    BY ONLY <1>4, <1>8, <1>9
  <2> QED BY <1>3, <2>1
<1>11. /\ n1 = e8 - g5 /\ n2 = f8 - h5
       /\ g5 = Re(g4, h4, x5, x6) /\ h5 = Im(g4, h4, x5, x6)
       /\ e8 = e4 + e7 /\ f8 = f4 + f7 /\ e4 = e2 - e3 /\ f4 = f2 - f3
       /\ e3 = Re(x3, x4, s3, s4) /\ f3 = Im(x3, x4, s3, s4)
       /\ e2 = Re(x1, x2, s1 + s3, s2 + s4) /\ f2 = Im(x1, x2, s1 + s3, s2 + s4)
       /\ e7 = Re(x1 + (x5 - x3), x2 + (x6 - x4), s5, s6)
       /\ f7 = Im(x1 + (x5 - x3), x2 + (x6 - x4), s5, s6)
       /\ g4 = 2 * s1 - Re(2 * x1 + x1, 2 * x2 + x2, x3, x4)
       /\ h4 = 2 * s2 - Im(2 * x1 + x1, 2 * x2 + x2, x3, x4)
  BY DEF g5, h5, g4, h4, g3, h3, g2, h2, g1, h1, e8, f8, e7, f7,
         e6, f6, e5, f5, e4, f4, e3, f3, e2, f2, e1, f1, e9, f9
<1>12. /\ x1 + (x5 - x3) = x1 + x5 - x3 /\ x2 + (x6 - x4) = x2 + x6 - x4
       /\ 2 * x1 + x1 = 3 * x1 /\ 2 * x2 + x2 = 3 * x2
  BY <1>1
<1> HIDE DEF n1, n2
<1>13. /\ n1 = (Re(x1, x2, s1 + s3, s2 + s4) - Re(x3, x4, s3, s4)
                  + Re(x1 + x5 - x3, x2 + x6 - x4, s5, s6))
                 - Re(2 * s1 - Re(3 * x1, 3 * x2, x3, x4),
                      2 * s2 - Im(3 * x1, 3 * x2, x3, x4), x5, x6)
       /\ n2 = (Im(x1, x2, s1 + s3, s2 + s4) - Im(x3, x4, s3, s4)
                  + Im(x1 + x5 - x3, x2 + x6 - x4, s5, s6))
                 - Im(2 * s1 - Re(3 * x1, 3 * x2, x3, x4),
                      2 * s2 - Im(3 * x1, 3 * x2, x3, x4), x5, x6)
  BY ONLY <1>11, <1>12
<1>14. n1 = NormRe(x1, x2, x3, x4, x5, x6) /\ n2 = NormIm(x1, x2, x3, x4, x5, x6)
  BY <1>13 DEF NormRe, NormIm, NormPart, s1, s2, s3, s4, s5, s6
<1> QED BY <1>10, <1>14

(* With z = r.x + t, r^2.(c2.x^2 + c1.x + c0) is c2^2 times the norm and a *)
(* multiple of z.                                                          *)
LEMMA RootOfTwo ==
  ASSUME NEW x1 \in Int, NEW x2 \in Int, NEW x3 \in Int, NEW x4 \in Int,
         NEW x5 \in Int, NEW x6 \in Int, NEW x \in Int, NEW y \in Int,
         NEW r1 \in Int, NEW r2 \in Int, NEW t1 \in Int, NEW t2 \in Int
  PROVE  LET s1 == Re(x, y, x, y)  s2 == Im(x, y, x, y)
             g1 == Re(x5, x6, s1, s2) + Re(x3, x4, x, y) + x1
             g2 == Im(x5, x6, s1, s2) + Im(x3, x4, x, y) + x2
             h1 == Re(r1, r2, g1, g2)  h2 == Im(r1, r2, g1, g2)
             z1 == Re(r1, r2, x, y) + t1
             z2 == Im(r1, r2, x, y) + t2
             k1 == Re(x5, x6, z1 - 2 * t1, z2 - 2 * t2) + Re(x3, x4, r1, r2)
             k2 == Im(x5, x6, z1 - 2 * t1, z2 - 2 * t2) + Im(x3, x4, r1, r2)
             u1 == Re(x5, x6, t1, t2) - Re(x3, x4, r1, r2)
             u2 == Im(x5, x6, t1, t2) - Im(x3, x4, r1, r2)
             v1 == Re(x1, x2, r1, r2)  v2 == Im(x1, x2, r1, r2)
         IN /\ Re(r1, r2, h1, h2)
                 = (Re(u1, u2, t1, t2) + Re(v1, v2, r1, r2)) + Re(k1, k2, z1, z2)
            /\ Im(r1, r2, h1, h2)
                 = (Im(u1, u2, t1, t2) + Im(v1, v2, r1, r2)) + Im(k1, k2, z1, z2)
BY SMTT(60) DEF Re, Im

(* With z = c1.x + c0, the norm of c1.v + c0 is -c1^3.(x^3 + x + 1) and a  *)
(* multiple of z.                                                          *)
LEMMA NormOfTwo ==
  ASSUME NEW x1 \in Int, NEW x2 \in Int, NEW x3 \in Int, NEW x4 \in Int,
         NEW x5 \in Int, NEW x6 \in Int, NEW x \in Int, NEW y \in Int
  PROVE  LET s1 == Re(x1, x2, x1, x2)  s2 == Im(x1, x2, x1, x2)
             s3 == Re(x3, x4, x3, x4)  s4 == Im(x3, x4, x3, x4)
             n1 == NormRe(x1, x2, x3, x4, x5, x6)
             n2 == NormIm(x1, x2, x3, x4, x5, x6)
             o1 == Re(x1 + x5 - x3, x2 + x6 - x4, x5, x6)
                     - (2 * s1 - Re(3 * x1, 3 * x2, x3, x4))
             o2 == Im(x1 + x5 - x3, x2 + x6 - x4, x5, x6)
                     - (2 * s2 - Im(3 * x1, 3 * x2, x3, x4))
             w1 == Re(x, y, x, y)  w2 == Im(x, y, x, y)
             f1 == Re(w1, w2, x, y) + x + 1
             f2 == Im(w1, w2, x, y) + y
             c1 == Re(x3, x4, s3, s4)  c2 == Im(x3, x4, s3, s4)
             d1 == Re(x3, x4, x, y)  d2 == Im(x3, x4, x, y)
             z1 == d1 + x1
             z2 == d2 + x2
             k1 == Re(z1, z2, z1 - 3 * d1, z2 - 3 * d2) + 3 * Re(d1, d2, d1, d2) + s3
             k2 == Im(z1, z2, z1 - 3 * d1, z2 - 3 * d2) + 3 * Im(d1, d2, d1, d2) + s4
         IN /\ Re(c1, c2, f1, f2) = (Re(k1, k2, z1, z2) + Re(o1, o2, x5, x6)) - n1
            /\ Im(c1, c2, f1, f2) = (Im(k1, k2, z1, z2) + Im(o1, o2, x5, x6)) - n2
BY SMTT(60) DEF Re, Im, NormRe, NormIm, NormPart

(* The rules of null pairs the norm needs.                                 *)
LEMMA ReImTyped ==
  \A x, y, z, w \in Int : Re(x, y, z, w) \in Int /\ Im(x, y, z, w) \in Int
BY DEF Re, Im

LEMMA NullTimes ==
  \A x, y, z, w \in Int :
    Null(x, y) \/ Null(z, w) => Null(Re(x, y, z, w), Im(x, y, z, w))
<1> TAKE x, y, z, w \in Int
<1>1. Re(x, y, z, w) = Re(z, w, x, y) /\ Im(x, y, z, w) = Im(z, w, x, y)
  BY DEF Re, Im
<1> QED BY <1>1, NullOps

LEMMA NullSums ==
  \A x, y, z, w \in Int :
    Null(x, y) /\ Null(z, w) => Null(x + z, y + w) /\ Null(x - z, y - w)
BY NullOps

LEMMA NullCancels ==
  \A x, y, z, w \in Int :
    Null(Re(x, y, z, w), Im(x, y, z, w)) => Null(x, y) \/ Null(z, w)
BY NotNullDivides

(* With r = c2^2 + c1^2 - c0.c2 and t = c2^2 + c0.c1, c2^2.(v^3 + v + 1)   *)
(* is (c2.v - c1).(c2.v^2 + c1.v + c0) + r.v + t, and c2^2 times the norm  *)
(* is c2.t^2 - c1.r.t + c0.r^2: where the norm is null, the two have a     *)
(* root in common with v^3 + v + 1, unless c2 is null, and then c1.v + c0  *)
(* has one, unless c1 is null, and then the norm is c0^3.                  *)
LEMMA NormNull ==
  ASSUME NEW x1 \in Int, NEW x2 \in Int, NEW x3 \in Int, NEW x4 \in Int,
         NEW x5 \in Int, NEW x6 \in Int,
         Null(NormRe(x1, x2, x3, x4, x5, x6), NormIm(x1, x2, x3, x4, x5, x6))
  PROVE  Null(x1, x2) /\ Null(x3, x4) /\ Null(x5, x6)
<1> DEFINE n1 == NormRe(x1, x2, x3, x4, x5, x6)
           n2 == NormIm(x1, x2, x3, x4, x5, x6)
           s5 == Re(x5, x6, x5, x6)  s6 == Im(x5, x6, x5, x6)
<1>1. /\ x1 \in Int /\ x2 \in Int /\ x3 \in Int
      /\ x4 \in Int /\ x5 \in Int /\ x6 \in Int
  OBVIOUS
<1>2. \A x, y \in Int :
        ~Null(Re(Re(x, y, x, y), Im(x, y, x, y), x, y) + x + 1,
              Im(Re(x, y, x, y), Im(x, y, x, y), x, y) + y)
  BY NoRoot
<1>3. ASSUME NEW x \in Int, NEW y \in Int, ~Null(x, y), NEW z \in Int, NEW w \in Int
      PROVE  \E p, q \in Int : Null(Re(x, y, p, q) + z, Im(x, y, p, q) + w)
  <2> DEFINE a == -z
             b == -w
  <2>1. a \in Int /\ b \in Int
    OBVIOUS
  <2> HIDE DEF a, b
  <2>2. PICK p, q \in Int : Null(Re(x, y, p, q) - a, Im(x, y, p, q) - b)
    BY <1>3, <2>1, NotNullDivides
  <2>3. Re(x, y, p, q) - a = Re(x, y, p, q) + z /\ Im(x, y, p, q) - b = Im(x, y, p, q) + w
    BY DEF Re, Im, a, b
  <2> QED BY <2>2, <2>3
<1>4. n1 \in Int /\ n2 \in Int /\ s5 \in Int /\ s6 \in Int
  BY DEF NormRe, NormIm, NormPart, Re, Im
<1>5. Null(n1, n2)
  OBVIOUS
<1>6. ASSUME ~Null(x5, x6) PROVE FALSE
  <2> DEFINE r1 == s5 + Re(x3, x4, x3, x4) - Re(x1, x2, x5, x6)
             r2 == s6 + Im(x3, x4, x3, x4) - Im(x1, x2, x5, x6)
             t1 == s5 + Re(x1, x2, x3, x4)
             t2 == s6 + Im(x1, x2, x3, x4)
             u1 == Re(x5, x6, t1, t2) - Re(x3, x4, r1, r2)
             u2 == Im(x5, x6, t1, t2) - Im(x3, x4, r1, r2)
             v1 == Re(x1, x2, r1, r2)  v2 == Im(x1, x2, r1, r2)
             m1 == Re(u1, u2, t1, t2) + Re(v1, v2, r1, r2)
             m2 == Im(u1, u2, t1, t2) + Im(v1, v2, r1, r2)
  <2>1. r1 \in Int /\ r2 \in Int /\ t1 \in Int /\ t2 \in Int
    BY <1>4 DEF Re, Im
  <2>2. m1 = Re(s5, s6, n1, n2) /\ m2 = Im(s5, s6, n1, n2)
    BY ONLY <1>1, SMTT(60) DEF Re, Im, NormRe, NormIm, NormPart
  <2>3. m1 \in Int /\ m2 \in Int /\ Null(m1, m2)
    <3> HIDE DEF n1, n2, s5, s6, m1, m2
    <3> QED BY <1>4, <1>5, <2>2, ReImTyped, NullTimes
  \* A root of the two is one of the three.
  <2>4. ASSUME NEW x \in Int, NEW y \in Int,
               LET l1 == Re(x5, x6, x, y) - x3
                   l2 == Im(x5, x6, x, y) - x4
                   g1 == Re(x5, x6, Re(x, y, x, y), Im(x, y, x, y))
                           + Re(x3, x4, x, y) + x1
                   g2 == Im(x5, x6, Re(x, y, x, y), Im(x, y, x, y))
                           + Im(x3, x4, x, y) + x2
               IN Null(l1, l2) \/ Null(g1, g2),
               Null(Re(r1, r2, x, y) + t1, Im(r1, r2, x, y) + t2)
        PROVE  FALSE
    <3> DEFINE a1 == Re(x, y, x, y)  a2 == Im(x, y, x, y)
               f1 == Re(a1, a2, x, y) + x + 1
               f2 == Im(a1, a2, x, y) + y
               g1 == Re(x5, x6, a1, a2) + Re(x3, x4, x, y) + x1
               g2 == Im(x5, x6, a1, a2) + Im(x3, x4, x, y) + x2
               l1 == Re(x5, x6, x, y) - x3
               l2 == Im(x5, x6, x, y) - x4
               z1 == Re(r1, r2, x, y) + t1
               z2 == Im(r1, r2, x, y) + t2
    <3>1. Null(l1, l2) \/ Null(g1, g2)
      BY <2>4
    <3>2. Null(z1, z2)
      BY <2>4
    <3>3. /\ Re(s5, s6, f1, f2) = Re(l1, l2, g1, g2) + Re(r1, r2, x, y) + t1
          /\ Im(s5, s6, f1, f2) = Im(l1, l2, g1, g2) + Im(r1, r2, x, y) + t2
      BY ONLY <1>1, x \in Int, y \in Int, SMTT(60) DEF Re, Im
    <3>4. ~Null(f1, f2)
      BY <1>2
    <3>5. a1 \in Int /\ a2 \in Int
      BY ReImTyped
    <3> HIDE DEF a1, a2, r1, r2, t1, t2, s5, s6
    <3>6. /\ f1 \in Int /\ f2 \in Int /\ g1 \in Int /\ g2 \in Int
          /\ l1 \in Int /\ l2 \in Int /\ z1 \in Int /\ z2 \in Int
      BY <2>1, <3>5 DEF Re, Im
    <3> DEFINE b1 == Re(l1, l2, g1, g2)
               b2 == Im(l1, l2, g1, g2)
    <3>7. /\ Re(s5, s6, f1, f2) = b1 + z1
          /\ Im(s5, s6, f1, f2) = b2 + z2
      <4> HIDE DEF f1, f2, g1, g2, l1, l2
      <4>1. b1 \in Int /\ b2 \in Int /\ Re(r1, r2, x, y) \in Int /\ Im(r1, r2, x, y) \in Int
        BY <2>1, <3>6, ReImTyped
      <4> HIDE DEF b1, b2
      <4>2. /\ Re(s5, s6, f1, f2) = b1 + Re(r1, r2, x, y) + t1
            /\ Im(s5, s6, f1, f2) = b2 + Im(r1, r2, x, y) + t2
        BY <3>3 DEF b1, b2
      <4> QED BY <2>1, <4>1, <4>2
    <3> HIDE DEF f1, f2, g1, g2, l1, l2, z1, z2
    <3>8. b1 \in Int /\ b2 \in Int /\ Null(b1, b2)
      BY <3>1, <3>6, ReImTyped, NullTimes
    <3> HIDE DEF b1, b2
    <3>9. Null(Re(s5, s6, f1, f2), Im(s5, s6, f1, f2))
      BY <3>2, <3>6, <3>7, <3>8, NullSums
    <3>10. ~Null(s5, s6)
      BY <1>6, NullCancels DEF s5, s6
    <3> QED BY <1>4, <3>4, <3>6, <3>9, <3>10, ReImTyped, NullCancels
  <2>5. CASE ~Null(r1, r2)
    <3>1. PICK x, y \in Int : Null(Re(r1, r2, x, y) + t1, Im(r1, r2, x, y) + t2)
      <4> HIDE DEF r1, r2, t1, t2
      <4> QED BY <1>3, <2>1, <2>5
    <3> DEFINE a1 == Re(x, y, x, y)  a2 == Im(x, y, x, y)
               g1 == Re(x5, x6, a1, a2) + Re(x3, x4, x, y) + x1
               g2 == Im(x5, x6, a1, a2) + Im(x3, x4, x, y) + x2
               h1 == Re(r1, r2, g1, g2)  h2 == Im(r1, r2, g1, g2)
               z1 == Re(r1, r2, x, y) + t1
               z2 == Im(r1, r2, x, y) + t2
               k1 == Re(x5, x6, z1 - 2 * t1, z2 - 2 * t2) + Re(x3, x4, r1, r2)
               k2 == Im(x5, x6, z1 - 2 * t1, z2 - 2 * t2) + Im(x3, x4, r1, r2)
    <3>2. Null(z1, z2)
      BY <3>1
    <3> HIDE DEF r1, r2, t1, t2
    <3>3. /\ Re(r1, r2, h1, h2) = m1 + Re(k1, k2, z1, z2)
          /\ Im(r1, r2, h1, h2) = m2 + Im(k1, k2, z1, z2)
      BY <2>1, RootOfTwo
    <3>4. a1 \in Int /\ a2 \in Int
      BY ReImTyped
    <3> HIDE DEF a1, a2, m1, m2
    <3>5. g1 \in Int /\ g2 \in Int /\ z1 \in Int /\ z2 \in Int
      BY <2>1, <3>4 DEF Re, Im
    <3> HIDE DEF g1, g2, z1, z2
    <3>6. h1 \in Int /\ h2 \in Int /\ k1 \in Int /\ k2 \in Int
      <4>1. z1 - 2 * t1 \in Int /\ z2 - 2 * t2 \in Int
        BY <2>1, <3>5
      <4> QED BY <2>1, <3>5, <4>1 DEF Re, Im
    <3> HIDE DEF h1, h2, k1, k2
    <3>7. Null(Re(r1, r2, h1, h2), Im(r1, r2, h1, h2))
      <4> DEFINE b1 == Re(k1, k2, z1, z2)
                 b2 == Im(k1, k2, z1, z2)
      <4>1. b1 \in Int /\ b2 \in Int /\ Null(b1, b2)
        BY <3>2, <3>5, <3>6, ReImTyped, NullTimes
      <4>2. Re(r1, r2, h1, h2) = m1 + b1 /\ Im(r1, r2, h1, h2) = m2 + b2
        BY <3>3
      <4> HIDE DEF b1, b2
      <4> QED BY <2>3, <4>1, <4>2, NullSums
    <3>8. Null(h1, h2)
      BY <2>1, <2>5, <3>6, <3>7, ReImTyped, NullCancels
    <3>9. Null(g1, g2)
      BY <2>1, <2>5, <3>5, <3>8, ReImTyped, NullCancels DEF h1, h2
    <3> QED BY <2>4, <3>1, <3>9 DEF g1, g2, a1, a2
  <2>6. CASE Null(r1, r2)
    <3> DEFINE a1 == Re(x5, x6, t1, t2)  a2 == Im(x5, x6, t1, t2)
               b1 == Re(x3, x4, r1, r2)  b2 == Im(x3, x4, r1, r2)
               c1 == Re(b1, b2, t1, t2)  c2 == Im(b1, b2, t1, t2)
               d1 == Re(v1, v2, r1, r2)  d2 == Im(v1, v2, r1, r2)
               e1 == Re(a1, a2, t1, t2)  e2 == Im(a1, a2, t1, t2)
    <3>1. m1 = (e1 - c1) + d1 /\ m2 = (e2 - c2) + d2
      <4> HIDE DEF r1, r2, t1, t2, s5, s6
      <4>1. /\ a1 \in Int /\ a2 \in Int /\ b1 \in Int /\ b2 \in Int
        BY <2>1, ReImTyped
      <4> DEFINE o1 == u1
                 o2 == u2
      <4>2. o1 = a1 - b1 /\ o2 = a2 - b2
        OBVIOUS
      <4> HIDE DEF a1, a2, b1, b2
      <4>3. Re(a1 - b1, a2 - b2, t1, t2) = e1 - c1 /\ Im(a1 - b1, a2 - b2, t1, t2) = e2 - c2
        BY <2>1, <4>1 DEF Re, Im
      <4>4. m1 = Re(o1, o2, t1, t2) + d1 /\ m2 = Im(o1, o2, t1, t2) + d2
        OBVIOUS
      <4> HIDE DEF o1, o2, m1, m2, d1, d2, e1, e2, c1, c2
      <4> QED BY <4>2, <4>3, <4>4
    <3> HIDE DEF m1, m2, r1, r2, t1, t2
    <3>2. v1 \in Int /\ v2 \in Int /\ a1 \in Int /\ a2 \in Int
          /\ b1 \in Int /\ b2 \in Int /\ Null(b1, b2)
      BY <2>1, <2>6, ReImTyped, NullTimes
    <3> HIDE DEF v1, v2, a1, a2, b1, b2
    <3>3. /\ c1 \in Int /\ c2 \in Int /\ Null(c1, c2)
          /\ d1 \in Int /\ d2 \in Int /\ Null(d1, d2) /\ e1 \in Int /\ e2 \in Int
      BY <2>1, <2>6, <3>2, ReImTyped, NullTimes
    <3> HIDE DEF c1, c2, d1, d2, e1, e2
    <3>4. Null(e1, e2)
      <4>1. /\ m1 - d1 \in Int /\ m2 - d2 \in Int /\ Null(m1 - d1, m2 - d2)
        BY <2>3, <3>3, NullSums
      <4> DEFINE i1 == m1 - d1
                 i2 == m2 - d2
      <4>2. e1 = i1 + c1 /\ e2 = i2 + c2
        BY <2>3, <3>1, <3>3
      <4> HIDE DEF i1, i2
      <4>3. i1 \in Int /\ i2 \in Int /\ Null(i1, i2)
        BY <4>1 DEF i1, i2
      <4> QED BY <3>3, <4>2, <4>3, NullSums
    <3>5. Null(t1, t2)
      <4>1. Null(a1, a2) \/ Null(t1, t2)
        BY <2>1, <3>2, <3>4, ReImTyped, NullCancels DEF e1, e2
      <4> QED BY <1>6, <2>1, <4>1, ReImTyped, NullCancels DEF a1, a2
    <3> DEFINE j1 == -x3
               j2 == -x4
    <3>6. j1 \in Int /\ j2 \in Int
      OBVIOUS
    <3> HIDE DEF j1, j2
    <3>7. PICK x, y \in Int : Null(Re(x5, x6, x, y) + j1, Im(x5, x6, x, y) + j2)
      BY <1>3, <1>6, <3>6
    <3>8. Re(x5, x6, x, y) + j1 = Re(x5, x6, x, y) - x3
          /\ Im(x5, x6, x, y) + j2 = Im(x5, x6, x, y) - x4
      BY ReImTyped DEF j1, j2
    <3>9. Null(Re(r1, r2, x, y) + t1, Im(r1, r2, x, y) + t2)
      <4>1. Null(Re(r1, r2, x, y), Im(r1, r2, x, y))
        BY <2>1, <2>6, NullTimes, ReImTyped
      <4> QED BY <2>1, <3>5, <4>1, ReImTyped, NullSums
    <3> QED BY <2>4, <3>7, <3>8, <3>9
  <2> QED BY <2>5, <2>6
<1> DEFINE s1 == Re(x1, x2, x1, x2)  s2 == Im(x1, x2, x1, x2)
           s3 == Re(x3, x4, x3, x4)  s4 == Im(x3, x4, x3, x4)
           o1 == Re(x1 + x5 - x3, x2 + x6 - x4, x5, x6)
                   - (2 * s1 - Re(3 * x1, 3 * x2, x3, x4))
           o2 == Im(x1 + x5 - x3, x2 + x6 - x4, x5, x6)
                   - (2 * s2 - Im(3 * x1, 3 * x2, x3, x4))
           i1 == Re(o1, o2, x5, x6)
           i2 == Im(o1, o2, x5, x6)
<1>7. /\ Null(x5, x6) /\ s1 \in Int /\ s2 \in Int /\ s3 \in Int /\ s4 \in Int
      /\ i1 \in Int /\ i2 \in Int /\ Null(i1, i2)
  <2>1. Null(x5, x6)
    BY <1>6
  <2>2. s1 \in Int /\ s2 \in Int /\ s3 \in Int /\ s4 \in Int
    BY ReImTyped
  <2>3. o1 \in Int /\ o2 \in Int
    BY DEF Re, Im
  <2> HIDE DEF o1, o2
  <2> QED BY <2>1, <2>2, <2>3, ReImTyped, NullTimes
<1>8. ASSUME ~Null(x3, x4) PROVE FALSE
  <2>1. PICK x, y \in Int : Null(Re(x3, x4, x, y) + x1, Im(x3, x4, x, y) + x2)
    BY <1>3, <1>8
  <2> DEFINE w1 == Re(x, y, x, y)  w2 == Im(x, y, x, y)
             f1 == Re(w1, w2, x, y) + x + 1
             f2 == Im(w1, w2, x, y) + y
             c1 == Re(x3, x4, s3, s4)  c2 == Im(x3, x4, s3, s4)
             d1 == Re(x3, x4, x, y)  d2 == Im(x3, x4, x, y)
             z1 == d1 + x1
             z2 == d2 + x2
             k1 == Re(z1, z2, z1 - 3 * d1, z2 - 3 * d2) + 3 * Re(d1, d2, d1, d2) + s3
             k2 == Im(z1, z2, z1 - 3 * d1, z2 - 3 * d2) + 3 * Im(d1, d2, d1, d2) + s4
             j1 == Re(k1, k2, z1, z2)
             j2 == Im(k1, k2, z1, z2)
  <2>2. /\ Re(c1, c2, f1, f2) = (j1 + i1) - n1
        /\ Im(c1, c2, f1, f2) = (j2 + i2) - n2
    BY NormOfTwo
  <2>3. Null(z1, z2) /\ ~Null(f1, f2)
    BY <1>2, <2>1
  <2>4. /\ w1 \in Int /\ w2 \in Int /\ d1 \in Int /\ d2 \in Int
        /\ c1 \in Int /\ c2 \in Int
    BY <1>7, ReImTyped
  <2> HIDE DEF w1, w2, d1, d2, c1, c2, s1, s2, s3, s4, i1, i2, n1, n2
  <2>5. f1 \in Int /\ f2 \in Int /\ z1 \in Int /\ z2 \in Int
    BY <2>4 DEF Re, Im
  <2> HIDE DEF f1, f2, z1, z2
  <2>6. k1 \in Int /\ k2 \in Int
    <3>1. z1 - 3 * d1 \in Int /\ z2 - 3 * d2 \in Int
      BY <2>4, <2>5
    <3> DEFINE a1 == z1 - 3 * d1
               a2 == z2 - 3 * d2
               b1 == Re(z1, z2, a1, a2)  b2 == Im(z1, z2, a1, a2)
               e1 == Re(d1, d2, d1, d2)  e2 == Im(d1, d2, d1, d2)
    <3>2. k1 = b1 + 3 * e1 + s3 /\ k2 = b2 + 3 * e2 + s4
      OBVIOUS
    <3> HIDE DEF a1, a2, k1, k2
    <3>3. b1 \in Int /\ b2 \in Int /\ e1 \in Int /\ e2 \in Int
      BY <2>4, <2>5, <3>1, ReImTyped DEF a1, a2
    <3> HIDE DEF b1, b2, e1, e2
    <3> QED BY <1>7, <3>2, <3>3
  <2> HIDE DEF k1, k2
  <2>7. j1 \in Int /\ j2 \in Int /\ Null(j1, j2)
    BY <2>3, <2>5, <2>6, ReImTyped, NullTimes
  <2> HIDE DEF j1, j2
  <2>8. Null((j1 + i1) - n1, (j2 + i2) - n2)
    <3>1. j1 + i1 \in Int /\ j2 + i2 \in Int /\ Null(j1 + i1, j2 + i2)
      BY <1>7, <2>7, NullSums
    <3> DEFINE a1 == j1 + i1
               a2 == j2 + i2
    <3> HIDE DEF a1, a2
    <3>2. Null(a1 - n1, a2 - n2)
      BY <1>4, <1>5, <3>1, NullSums DEF a1, a2
    <3> QED BY <3>2 DEF a1, a2
  <2>9. ~Null(c1, c2)
    <3>1. ~Null(s3, s4)
      BY <1>8, NullCancels DEF s3, s4
    <3> QED BY <1>7, <1>8, <3>1, NullCancels DEF c1, c2
  <2> QED BY <2>2, <2>3, <2>4, <2>5, <2>8, <2>9, NullCancels
<1>9. ASSUME ~Null(x1, x2) PROVE FALSE
  <2> DEFINE c1 == Re(x1, x2, s1, s2)  c2 == Im(x1, x2, s1, s2)
             d1 == Re(x1, x2, x3, x4) - s3
             d2 == Im(x1, x2, x3, x4) - s4
             e1 == Re(d1, d2, x3, x4)
             e2 == Im(d1, d2, x3, x4)
  <2>1. c1 = n1 - (i1 + e1) /\ c2 = n2 - (i2 + e2)
    BY ONLY <1>1, SMTT(60) DEF Re, Im, NormRe, NormIm, NormPart
  <2>2. Null(x3, x4) /\ d1 \in Int /\ d2 \in Int
    BY <1>7, <1>8 DEF Re, Im
  <2> HIDE DEF d1, d2, i1, i2, n1, n2
  <2>3. e1 \in Int /\ e2 \in Int /\ Null(e1, e2)
    BY <2>2, ReImTyped, NullTimes
  <2> DEFINE a1 == i1 + e1
             a2 == i2 + e2
  <2> HIDE DEF e1, e2, c1, c2
  <2>4. a1 \in Int /\ a2 \in Int /\ Null(a1, a2)
    BY <1>7, <2>3, NullSums
  <2> HIDE DEF a1, a2
  <2>5. Null(c1, c2)
    <3>1. Null(n1 - a1, n2 - a2)
      BY <1>4, <1>5, <2>4, NullSums
    <3> QED BY <2>1, <3>1 DEF a1, a2
  <2> HIDE DEF s1, s2
  <2>6. Null(s1, s2)
    BY <1>7, <1>9, <2>5, NullCancels DEF c1, c2
  <2> QED BY <1>9, <2>6, NullCancels DEF s1, s2
<1> QED BY <1>7, <1>8, <1>9

(* The inverse invert_fp6 computes is one of every element but zero.       *)
LEMMA NormNotZero ==
  ASSUME NEW a \in Fp6, a # Zero6
  PROVE  NormFp2(NormFp6(a)) # 0
<1> DEFINE x1 == a[1]  x2 == a[2]  x3 == a[3]  x4 == a[4]  x5 == a[5]  x6 == a[6]
           n1 == NormRe(x1, x2, x3, x4, x5, x6)
           n2 == NormIm(x1, x2, x3, x4, x5, x6)
<1>1. /\ x1 \in Field /\ x2 \in Field /\ x3 \in Field
      /\ x4 \in Field /\ x5 \in Field /\ x6 \in Field
      /\ a = <<x1, x2, x3, x4, x5, x6>>
  BY DEF Fp6
<1>2. /\ x1 \in Int /\ x2 \in Int /\ x3 \in Int
      /\ x4 \in Int /\ x5 \in Int /\ x6 \in Int
  BY <1>1, FieldNumbers
<1> HIDE DEF x1, x2, x3, x4, x5, x6
<1>3. Lifts2(NormFp6(a), n1, n2) /\ n1 \in Int /\ n2 \in Int
  BY <1>1, NormLifts
<1>4. SUFFICES ASSUME NormFp6(a) = <<0, 0>> PROVE FALSE
  BY <1>3, NormFp2NotZero DEF Lifts2
<1>5. Null(n1, n2)
  BY <1>3, <1>4 DEF Lifts2, Null, Alike
<1>6. Null(x1, x2) /\ Null(x3, x4) /\ Null(x5, x6)
  BY <1>2, <1>5, NormNull
<1>7. \A e \in Field : Alike(e, 0) => e = 0
  BY FieldAssumption DEF Field, Alike
<1>8. x1 = 0 /\ x2 = 0 /\ x3 = 0 /\ x4 = 0 /\ x5 = 0 /\ x6 = 0
  BY <1>1, <1>6, <1>7 DEF Null
<1>9. Zero6 = <<0, 0, 0, 0, 0, 0>>
  BY DEF Zero6
<1> QED BY <1>1, <1>8, <1>9

(* The cofactors invert_fp6 divides by the norm.                           *)
LEMMA InverseLifts ==
  ASSUME NEW a \in Fp6, a # Zero6
  PROVE  MulFp6(a, InvertFp6(a)) = One6
<1> DEFINE x1 == a[1]  x2 == a[2]  x3 == a[3]  x4 == a[4]  x5 == a[5]  x6 == a[6]
           c0 == C0(a)  c1 == C1(a)  c2 == C2(a)
           sq0 == SquareFp2(c0)  sq1 == SquareFp2(c1)  sq2 == SquareFp2(c2)
           n == NormFp6(a)
           t == InvertFp2(n)
           d0 == Sub(Add(Add(sq0, sq1), sq2), MulFp2(Sub(Double(c0), c1), c2))
           d1 == Neg(Add(MulFp2(c0, c1), sq2))
           d2 == Add(Sub(sq1, MulFp2(c0, c2)), sq2)
           s1 == Re(x1, x2, x1, x2)  s2 == Im(x1, x2, x1, x2)
           s3 == Re(x3, x4, x3, x4)  s4 == Im(x3, x4, x3, x4)
           s5 == Re(x5, x6, x5, x6)  s6 == Im(x5, x6, x5, x6)
           n1 == NormRe(x1, x2, x3, x4, x5, x6)
           n2 == NormIm(x1, x2, x3, x4, x5, x6)
<1>1. /\ x1 \in Int /\ x2 \in Int /\ x3 \in Int /\ x4 \in Int /\ x5 \in Int /\ x6 \in Int
      /\ Lifts2(c0, x1, x2) /\ Lifts2(c1, x3, x4) /\ Lifts2(c2, x5, x6)
  BY LiftsOwn, Lifts6Parts
<1>2. InvertFp6(a) = MulFp2(d0, t) \o MulFp2(d1, t) \o MulFp2(d2, t)
  BY DEF InvertFp6
<1>3. Lifts2(n, n1, n2) /\ n1 \in Int /\ n2 \in Int
  <2>1. a = <<x1, x2, x3, x4, x5, x6>>
    BY DEF Fp6
  <2> HIDE DEF x1, x2, x3, x4, x5, x6
  <2> QED BY <2>1, NormLifts
<1>4. /\ Lifts2(sq0, s1, s2) /\ Lifts2(sq1, s3, s4) /\ Lifts2(sq2, s5, s6)
      /\ s1 \in Int /\ s2 \in Int /\ s3 \in Int /\ s4 \in Int /\ s5 \in Int /\ s6 \in Int
  <2>1. sq0 = MulFp2(c0, c0) /\ sq1 = MulFp2(c1, c1) /\ sq2 = MulFp2(c2, c2)
    BY <1>1, SquareIsMul DEF Lifts2
  <2>2. /\ s1 \in Int /\ s2 \in Int /\ s3 \in Int /\ s4 \in Int /\ s5 \in Int /\ s6 \in Int
    <3> HIDE DEF x1, x2, x3, x4, x5, x6
    <3> QED BY <1>1 DEF Re, Im
  <2> HIDE DEF x1, x2, x3, x4, x5, x6, c0, c1, c2, sq0, sq1, sq2
  <2> QED BY <1>1, <2>1, <2>2, Lifts2Ops
<1> HIDE DEF x1, x2, x3, x4, x5, x6, c0, c1, c2, s1, s2, s3, s4, s5, s6, sq0, sq1, sq2,
             n1, n2
<1> DEFINE u1 == Add(sq0, sq1)  e1 == s1 + s3  f1 == s2 + s4
           u9 == Double(c0)  e9 == 2 * x1  f9 == 2 * x2
           w1 == Add(u1, sq2)  i1 == e1 + s5  j1 == f1 + s6
           w2 == Sub(u9, c1)  i2 == e9 - x3  j2 == f9 - x4
           w3 == MulFp2(w2, c2)  i3 == Re(i2, j2, x5, x6)  j3 == Im(i2, j2, x5, x6)
           w4 == MulFp2(c0, c1)  i4 == Re(x1, x2, x3, x4)  j4 == Im(x1, x2, x3, x4)
           w5 == Add(w4, sq2)  i5 == i4 + s5  j5 == j4 + s6
           w6 == MulFp2(c0, c2)  i6 == Re(x1, x2, x5, x6)  j6 == Im(x1, x2, x5, x6)
           w7 == Sub(sq1, w6)  i7 == s3 - i6  j7 == s4 - j6
           k1 == i1 - i3  k2 == j1 - j3
           k3 == -i5  k4 == -j5
           k5 == i7 + s5  k6 == j7 + s6
<1>5. d0 = Sub(w1, w3) /\ d1 = Neg(w5) /\ d2 = Add(w7, sq2)
  OBVIOUS
<1> HIDE DEF n, d0, d1, d2
<1>6. \A u, v : \A p, q, r, s \in Int :
        Lifts2(u, p, q) /\ Lifts2(v, r, s)
          => /\ Lifts2(Add(u, v), p + r, q + s)
             /\ Lifts2(Sub(u, v), p - r, q - s)
             /\ Lifts2(Neg(u), -p, -q)
             /\ Lifts2(Double(u), 2 * p, 2 * q)
             /\ Lifts2(MulFp2(u, v), Re(p, q, r, s), Im(p, q, r, s))
             /\ p + r \in Int /\ q + s \in Int /\ p - r \in Int /\ q - s \in Int
             /\ -p \in Int /\ -q \in Int /\ 2 * p \in Int /\ 2 * q \in Int
             /\ Re(p, q, r, s) \in Int /\ Im(p, q, r, s) \in Int
  BY Lifts2Ops DEF Re, Im
<1>7. /\ Lifts2(u1, e1, f1) /\ e1 \in Int /\ f1 \in Int
      /\ Lifts2(u9, e9, f9) /\ e9 \in Int /\ f9 \in Int
      /\ Lifts2(w4, i4, j4) /\ i4 \in Int /\ j4 \in Int
      /\ Lifts2(w6, i6, j6) /\ i6 \in Int /\ j6 \in Int
  BY ONLY <1>1, <1>4, <1>6
<1> HIDE DEF u1, u9, w4, w6, e1, e9, i4, i6, f1, f9, j4, j6
<1>8. /\ Lifts2(w1, i1, j1) /\ i1 \in Int /\ j1 \in Int
      /\ Lifts2(w2, i2, j2) /\ i2 \in Int /\ j2 \in Int
      /\ Lifts2(w5, i5, j5) /\ i5 \in Int /\ j5 \in Int
      /\ Lifts2(w7, i7, j7) /\ i7 \in Int /\ j7 \in Int
  BY ONLY <1>1, <1>4, <1>6, <1>7
<1> HIDE DEF w1, w2, w5, w7, i1, i2, i5, i7, j1, j2, j5, j7
<1>9. /\ Lifts2(w3, i3, j3) /\ i3 \in Int /\ j3 \in Int
      /\ Lifts2(d1, k3, k4) /\ k3 \in Int /\ k4 \in Int
      /\ Lifts2(d2, k5, k6) /\ k5 \in Int /\ k6 \in Int
  BY ONLY <1>1, <1>4, <1>5, <1>6, <1>8
<1> HIDE DEF w3, i3, j3, k3, k4, k5, k6
<1>10. Lifts2(d0, k1, k2) /\ k1 \in Int /\ k2 \in Int
  BY ONLY <1>5, <1>6, <1>8, <1>9
<1> HIDE DEF k1, k2
<1> DEFINE t1 == t[1]
           t2 == t[2]
           E == <<Re(k1, k2, t1, t2), Im(k1, k2, t1, t2),
                  Re(k3, k4, t1, t2), Im(k3, k4, t1, t2),
                  Re(k5, k6, t1, t2), Im(k5, k6, t1, t2)>>
<1>11. /\ Lifts2(t, t1, t2) /\ t1 \in Int /\ t2 \in Int
       /\ Alike(Re(n1, n2, t1, t2), 1) /\ Alike(Im(n1, n2, t1, t2), 0)
  <2>1. n \in Fp2 /\ NormFp2(n) # 0
    BY <1>3, NormNotZero DEF Lifts2, n
  <2>2. /\ Lifts2(t, t1, t2) /\ t1 \in Int /\ t2 \in Int
        /\ Alike(Re(n[1], n[2], t1, t2), 1) /\ Alike(Im(n[1], n[2], t1, t2), 0)
    BY <2>1, InvertFp2Inverts
  <2> DEFINE m1 == n[1]
             m2 == n[2]
  <2>3. Lifts2(n, m1, m2) /\ m1 \in Int /\ m2 \in Int
    BY <2>1, FieldNumbers DEF Lifts2, Alike, Fp2
  <2> HIDE DEF m1, m2, t, t1, t2
  <2>4. /\ Lifts2(MulFp2(n, t), Re(m1, m2, t1, t2), Im(m1, m2, t1, t2))
        /\ Lifts2(MulFp2(n, t), Re(n1, n2, t1, t2), Im(n1, n2, t1, t2))
    BY <1>3, <2>2, <2>3, Lifts2Ops
  <2>5. Alike(Re(m1, m2, t1, t2), 1) /\ Alike(Im(m1, m2, t1, t2), 0)
    BY <2>2 DEF m1, m2
  <2> QED BY <2>2, <2>4, <2>5 DEF Lifts2, Alike
<1> HIDE DEF t, t1, t2
<1>12. /\ Lifts6(InvertFp6(a), E)
       /\ E[1] \in Int /\ E[2] \in Int /\ E[3] \in Int
       /\ E[4] \in Int /\ E[5] \in Int /\ E[6] \in Int
  <2> DEFINE p == MulFp2(d0, t)  p1 == Re(k1, k2, t1, t2)  p2 == Im(k1, k2, t1, t2)
             q == MulFp2(d1, t)  q1 == Re(k3, k4, t1, t2)  q2 == Im(k3, k4, t1, t2)
             r == MulFp2(d2, t)  r1 == Re(k5, k6, t1, t2)  r2 == Im(k5, k6, t1, t2)
  <2>1. /\ Lifts2(p, p1, p2) /\ p1 \in Int /\ p2 \in Int
        /\ Lifts2(q, q1, q2) /\ q1 \in Int /\ q2 \in Int
        /\ Lifts2(r, r1, r2) /\ r1 \in Int /\ r2 \in Int
    BY ONLY <1>6, <1>9, <1>10, <1>11
  <2>2. E = <<p1, p2, q1, q2, r1, r2>> /\ InvertFp6(a) = p \o q \o r
    BY <1>2
  <2> HIDE DEF p, p1, p2, q, q1, q2, r, r1, r2, E
  <2>3. Lifts6(p \o q \o r, <<p1, p2, q1, q2, r1, r2>>)
    BY ONLY <2>1, Lifts6Join
  <2> QED BY <2>1, <2>2, <2>3
<1>13. Times6(a, E) = <<Re(n1, n2, t1, t2), Im(n1, n2, t1, t2), 0, 0, 0, 0>>
  <2> DEFINE y1 == E[1]  y2 == E[2]  y3 == E[3]  y4 == E[4]  y5 == E[5]  y6 == E[6]
  <2>1. /\ y1 = Re(k1, k2, t1, t2) /\ y2 = Im(k1, k2, t1, t2)
        /\ y3 = Re(k3, k4, t1, t2) /\ y4 = Im(k3, k4, t1, t2)
        /\ y5 = Re(k5, k6, t1, t2) /\ y6 = Im(k5, k6, t1, t2)
    OBVIOUS
  <2> HIDE DEF E
  <2>2. Times6(a, E)
          = <<Re(x1, x2, y1, y2) - Re(x3, x4, y5, y6) - Re(x5, x6, y3, y4),
              Im(x1, x2, y1, y2) - Im(x3, x4, y5, y6) - Im(x5, x6, y3, y4),
              Re(x1, x2, y3, y4) + Re(x3, x4, y1, y2) - Re(x3, x4, y5, y6)
                - Re(x5, x6, y3, y4) - Re(x5, x6, y5, y6),
              Im(x1, x2, y3, y4) + Im(x3, x4, y1, y2) - Im(x3, x4, y5, y6)
                - Im(x5, x6, y3, y4) - Im(x5, x6, y5, y6),
              Re(x1, x2, y5, y6) + Re(x3, x4, y3, y4) + Re(x5, x6, y1, y2)
                - Re(x5, x6, y5, y6),
              Im(x1, x2, y5, y6) + Im(x3, x4, y3, y4) + Im(x5, x6, y1, y2)
                - Im(x5, x6, y5, y6)>>
    <3>1. 1 + 1 = 2 /\ 3 + 1 = 4 /\ 5 + 1 = 6
      OBVIOUS
    <3> QED BY <3>1 DEF Times6, x1, x2, x3, x4, x5, x6
  <2> HIDE DEF y1, y2, y3, y4, y5, y6
  <2>3. /\ k1 = i1 - i3 /\ k2 = j1 - j3 /\ k3 = -i5 /\ k4 = -j5
        /\ k5 = i7 + s5 /\ k6 = j7 + s6
        /\ i1 = e1 + s5 /\ j1 = f1 + s6 /\ i2 = e9 - x3 /\ j2 = f9 - x4
        /\ i3 = Re(i2, j2, x5, x6) /\ j3 = Im(i2, j2, x5, x6)
        /\ i4 = Re(x1, x2, x3, x4) /\ j4 = Im(x1, x2, x3, x4)
        /\ i5 = i4 + s5 /\ j5 = j4 + s6
        /\ i6 = Re(x1, x2, x5, x6) /\ j6 = Im(x1, x2, x5, x6)
        /\ i7 = s3 - i6 /\ j7 = s4 - j6
        /\ e1 = s1 + s3 /\ f1 = s2 + s4 /\ e9 = 2 * x1 /\ f9 = 2 * x2
        /\ s1 = Re(x1, x2, x1, x2) /\ s2 = Im(x1, x2, x1, x2)
        /\ s3 = Re(x3, x4, x3, x4) /\ s4 = Im(x3, x4, x3, x4)
        /\ s5 = Re(x5, x6, x5, x6) /\ s6 = Im(x5, x6, x5, x6)
    BY DEF k1, k2, k3, k4, k5, k6, i1, i2, i3, i4, i5, i6, i7,
           j1, j2, j3, j4, j5, j6, j7, e1, f1, e9, f9, s1, s2, s3, s4, s5, s6
  <2>4. /\ n1 = NormRe(x1, x2, x3, x4, x5, x6)
        /\ n2 = NormIm(x1, x2, x3, x4, x5, x6)
    BY DEF n1, n2
  <2>5. /\ Re(x1, x2, y1, y2) - Re(x3, x4, y5, y6) - Re(x5, x6, y3, y4)
             = Re(n1, n2, t1, t2)
        /\ Im(x1, x2, y1, y2) - Im(x3, x4, y5, y6) - Im(x5, x6, y3, y4)
             = Im(n1, n2, t1, t2)
    <3>1. /\ n1 = Re(x1, x2, k1, k2) - Re(x3, x4, k5, k6) - Re(x5, x6, k3, k4)
          /\ n2 = Im(x1, x2, k1, k2) - Im(x3, x4, k5, k6) - Im(x5, x6, k3, k4)
      BY ONLY <1>1, <2>3, <2>4 DEF Re, Im, NormRe, NormIm, NormPart
    <3>2. /\ k1 \in Int /\ k2 \in Int /\ k3 \in Int
          /\ k4 \in Int /\ k5 \in Int /\ k6 \in Int
      BY <1>9, <1>10
    <3> QED BY ONLY <1>1, <1>11, <2>1, <3>1, <3>2 DEF Re, Im
  <2>6. /\ Re(x1, x2, y3, y4) + Re(x3, x4, y1, y2) - Re(x3, x4, y5, y6)
             - Re(x5, x6, y3, y4) - Re(x5, x6, y5, y6) = 0
        /\ Im(x1, x2, y3, y4) + Im(x3, x4, y1, y2) - Im(x3, x4, y5, y6)
             - Im(x5, x6, y3, y4) - Im(x5, x6, y5, y6) = 0
    BY ONLY <1>1, <1>11, <2>1, <2>3 DEF Re, Im
  <2>7. /\ Re(x1, x2, y5, y6) + Re(x3, x4, y3, y4) + Re(x5, x6, y1, y2)
             - Re(x5, x6, y5, y6) = 0
        /\ Im(x1, x2, y5, y6) + Im(x3, x4, y3, y4) + Im(x5, x6, y1, y2)
             - Im(x5, x6, y5, y6) = 0
    BY ONLY <1>1, <1>11, <2>1, <2>3 DEF Re, Im
  <2> QED BY <2>2, <2>5, <2>6, <2>7
<1> HIDE DEF E
<1>14. Lifts6(MulFp6(a, InvertFp6(a)), Times6(a, E))
  BY <1>12, LiftsOwn, LiftsMul
<1> DEFINE o1 == Re(n1, n2, t1, t2)
           o2 == Im(n1, n2, t1, t2)
           M == MulFp6(a, InvertFp6(a))
<1>15. Lifts6(M, <<o1, o2, 0, 0, 0, 0>>) /\ Alike(o1, 1) /\ Alike(o2, 0)
  BY <1>11, <1>13, <1>14
<1> HIDE DEF o1, o2, M
<1>16. Lifts6(M, <<1, 0, 0, 0, 0, 0>>)
  <2>1. <<1, 0, 0, 0, 0, 0>> \in Ints6
    BY DEF Ints6
  <2>2. ASSUME NEW i \in 1 .. 6 PROVE Alike(M[i], <<1, 0, 0, 0, 0, 0>>[i])
    <3>1. i = 1 \/ i = 2 \/ i = 3 \/ i = 4 \/ i = 5 \/ i = 6
      OBVIOUS
    <3>2. Alike(M[i], <<o1, o2, 0, 0, 0, 0>>[i])
      BY <1>15 DEF Lifts6
    <3> QED BY <1>15, <3>1, <3>2 DEF Alike
  <2> QED BY <1>15, <2>1, <2>2 DEF Lifts6
<1>17. Lifts6(One6, <<1, 0, 0, 0, 0, 0>>)
  <2>1. One6 \in Fp6 /\ One6 = <<1, 0, 0, 0, 0, 0>>
    BY FieldNumbers DEF One6, Zero6, Fp6
  <2> QED BY <2>1, LiftsOwn
<1> QED BY <1>16, <1>17, LiftsSame DEF M

(* invert_fp6 divides: what is multiplied by an element other than zero,   *)
(* and by what it returns for that element, is back where it was.          *)
THEOREM InvertFp6Inverts ==
  \A a, b \in Fp6 : b # Zero6 => MulFp6(MulFp6(a, b), InvertFp6(b)) = a
<1> SUFFICES ASSUME NEW a \in Fp6, NEW b \in Fp6, b # Zero6
             PROVE  MulFp6(MulFp6(a, b), InvertFp6(b)) = a
  OBVIOUS
<1>1. InvertFp6(b) \in Fp6
  BY Fp6Typed
<1>2. MulFp6(MulFp6(a, b), InvertFp6(b)) = MulFp6(a, MulFp6(b, InvertFp6(b)))
  BY <1>1, MulAssociates
<1>3. MulFp6(b, InvertFp6(b)) = One6
  BY InverseLifts
<1> QED BY <1>2, <1>3, MulUnits

-----------------------------------------------------------------------------
(* The points.                                                             *)
LEMMA PointTyped ==
  ASSUME NEW x \in Fp6, NEW y \in Fp6, NEW z \in Fp6
  PROVE  [x |-> x, y |-> y, z |-> z] \in Projective
BY DEF Projective

LEMMA CoordinatesTyped ==
  /\ \A p \in Projective : p.x \in Fp6 /\ p.y \in Fp6 /\ p.z \in Fp6
  /\ \A p \in Affine : p.x \in Fp6 /\ p.y \in Fp6
BY DEF Projective, Affine

LEMMA DoubleTyped ==
  ASSUME NEW p \in Projective
  PROVE  ComputeDouble(p) \in Projective
<1> DEFINE xx == SquareFp6(p.x)
           yy == SquareFp6(p.y)
           zz == SquareFp6(p.z)
           xz2 == Double(MulFp6(p.x, p.z))
           xy2 == Double(MulFp6(p.x, p.y))
           yz2 == Double(MulFp6(p.y, p.z))
           s == Add(xz2, MulFp6(B3, zz))
           t == Add(Sub(xx, zz), MulFp6(B3, xz2))
           u == Add(Add(Double(xx), xx), zz)
           X == Sub(MulFp6(xy2, Sub(yy, s)), MulFp6(yz2, t))
           Y == Add(MulFp6(Sub(yy, s), Add(yy, s)), MulFp6(u, t))
           Z == Double(Double(MulFp6(yz2, yy)))
<1>1. ComputeDouble(p) = [x |-> X, y |-> Y, z |-> Z]
  BY DEF ComputeDouble
<1>2. p.x \in Fp6 /\ p.y \in Fp6 /\ p.z \in Fp6 /\ B3 \in Fp6
  BY CoordinatesTyped, CurveAssumption
<1>3. xx \in Fp6 /\ yy \in Fp6 /\ zz \in Fp6
  BY <1>2, Fp6Typed
<1>4. xz2 \in Fp6 /\ xy2 \in Fp6 /\ yz2 \in Fp6
  BY <1>2, Fp6Typed
<1> HIDE DEF xx, yy, zz, xz2, xy2, yz2
<1>5. s \in Fp6 /\ t \in Fp6 /\ u \in Fp6
  BY <1>2, <1>3, <1>4, Fp6Typed
<1> HIDE DEF s, t, u
<1>6. Sub(yy, s) \in Fp6 /\ Add(yy, s) \in Fp6
  BY <1>3, <1>5, Fp6Typed
<1>7. X \in Fp6 /\ Y \in Fp6 /\ Z \in Fp6
  BY <1>3, <1>4, <1>5, <1>6, Fp6Typed
<1> HIDE DEF X, Y, Z
<1> QED BY <1>1, <1>7, PointTyped

LEMMA ProductsTyped ==
  ASSUME NEW xx \in Fp6, NEW yy \in Fp6, NEW zz \in Fp6,
         NEW xy \in Fp6, NEW xz \in Fp6, NEW yz \in Fp6
  PROVE  SumOfProducts(xx, yy, zz, xy, xz, yz) \in Projective
<1> DEFINE s == Add(MulFp6(B3, zz), xz)
           t == Add(MulFp6(B3, xz), Sub(xx, zz))
           u == Add(Add(Double(xx), xx), zz)
           X == Sub(MulFp6(xy, Sub(yy, s)), MulFp6(yz, t))
           Y == Add(MulFp6(Sub(yy, s), Add(yy, s)), MulFp6(u, t))
           Z == Add(MulFp6(yz, Add(yy, s)), MulFp6(xy, u))
<1>1. SumOfProducts(xx, yy, zz, xy, xz, yz) = [x |-> X, y |-> Y, z |-> Z]
  BY DEF SumOfProducts
<1>2. s \in Fp6 /\ t \in Fp6 /\ u \in Fp6
  BY Fp6Typed, CurveAssumption
<1> HIDE DEF s, t, u
<1>3. Sub(yy, s) \in Fp6 /\ Add(yy, s) \in Fp6
  BY <1>2, Fp6Typed
<1>4. X \in Fp6 /\ Y \in Fp6 /\ Z \in Fp6
  BY <1>2, <1>3, Fp6Typed
<1> HIDE DEF X, Y, Z
<1> QED BY <1>1, <1>4, PointTyped

LEMMA UnlikeTyped ==
  ASSUME NEW a \in Fp6, NEW b \in Fp6, NEW c \in Fp6, NEW d \in Fp6,
         NEW ac \in Fp6, NEW bd \in Fp6
  PROVE  Unlike(a, b, c, d, ac, bd) \in Fp6
<1>1. Add(a, b) \in Fp6 /\ Add(c, d) \in Fp6 /\ Add(ac, bd) \in Fp6
  BY Fp6Typed
<1> QED BY <1>1, Fp6Typed DEF Unlike

LEMMA SumsTyped ==
  ASSUME NEW p \in Projective
  PROVE  /\ \A r \in Projective : ComputeAdd(p, r) \in Projective
         /\ \A r \in Affine : ComputeAddMixed(p, r) \in Projective
<1>1. p.x \in Fp6 /\ p.y \in Fp6 /\ p.z \in Fp6
  BY CoordinatesTyped
<1>2. ASSUME NEW r \in Projective PROVE ComputeAdd(p, r) \in Projective
  <2> DEFINE xx == MulFp6(p.x, r.x)
             yy == MulFp6(p.y, r.y)
             zz == MulFp6(p.z, r.z)
             xy == Unlike(p.x, p.y, r.x, r.y, xx, yy)
             xz == Unlike(p.x, p.z, r.x, r.z, xx, zz)
             yz == Unlike(p.y, p.z, r.y, r.z, yy, zz)
  <2>1. ComputeAdd(p, r) = SumOfProducts(xx, yy, zz, xy, xz, yz)
    BY DEF ComputeAdd
  <2>2. r.x \in Fp6 /\ r.y \in Fp6 /\ r.z \in Fp6
    BY CoordinatesTyped
  <2>3. xx \in Fp6 /\ yy \in Fp6 /\ zz \in Fp6
    BY <1>1, <2>2, Fp6Typed
  <2> HIDE DEF xx, yy, zz
  <2>4. xy \in Fp6 /\ xz \in Fp6 /\ yz \in Fp6
    BY <1>1, <2>2, <2>3, UnlikeTyped
  <2> HIDE DEF xy, xz, yz
  <2> QED BY <2>1, <2>3, <2>4, ProductsTyped
<1>3. ASSUME NEW r \in Affine PROVE ComputeAddMixed(p, r) \in Projective
  <2> DEFINE xx == MulFp6(p.x, r.x)
             yy == MulFp6(p.y, r.y)
             xy == Unlike(p.x, p.y, r.x, r.y, xx, yy)
             xz == Add(MulFp6(r.x, p.z), p.x)
             yz == Add(MulFp6(r.y, p.z), p.y)
  <2>1. ComputeAddMixed(p, r) = SumOfProducts(xx, yy, p.z, xy, xz, yz)
    BY DEF ComputeAddMixed
  <2>2. r.x \in Fp6 /\ r.y \in Fp6
    BY CoordinatesTyped
  <2>3. xx \in Fp6 /\ yy \in Fp6 /\ xz \in Fp6 /\ yz \in Fp6
    BY <1>1, <2>2, Fp6Typed
  <2> HIDE DEF xx, yy, xz, yz
  <2>4. xy \in Fp6
    BY <1>1, <2>2, <2>3, UnlikeTyped
  <2> HIDE DEF xy
  <2> QED BY <1>1, <2>1, <2>3, <2>4, ProductsTyped
<1> QED BY <1>2, <1>3

-----------------------------------------------------------------------------
(* The hash.                                                               *)
LEMMA DotTyped ==
  ASSUME NEW u \in HashState, NEW v \in HashState
  PROVE  Dot(u, v) \in Field
<1>1. \A i \in Width : u[i] \in Int /\ v[i] \in Int
  BY FieldNumbers DEF HashState
<1>2. \A i \in Width : u[i] * v[i] \in Int
  BY <1>1
<1> DEFINE s == u[1] * v[1] + u[2] * v[2] + u[3] * v[3] + u[4] * v[4] + u[5] * v[5]
    + u[6] * v[6] + u[7] * v[7] + u[8] * v[8] + u[9] * v[9] + u[10] * v[10]
    + u[11] * v[11] + u[12] * v[12] + u[13] * v[13] + u[14] * v[14]
<1>3. s \in Int
  BY <1>2 DEF Width, StateWidth
<1>4. Dot(u, v) = s % P
  BY DEF Dot
<1> HIDE DEF s
<1> QED BY <1>3, <1>4, Residue

LEMMA PowerTyped ==
  ASSUME NEW a \in Field, NEW n \in Nat
  PROVE  Power(a, n) \in Field
<1> DEFINE F == [k \in Nat |-> [x \in Field |-> (a * x) % P]]
           Is(g) == g = [k \in 0 .. n |-> IF k = 0 THEN 1 ELSE (a * g[k - 1]) % P]
<1>1. F \in [Nat -> [Field -> Field]]
  <2>1. \A x \in Field : a * x \in Int
    BY FieldNumbers
  <2> QED BY <2>1, Residue
<1>2. PICK g : Iterates(g, n, Field, 1, F)
  <2> DEFINE c == 1
  <2>1. c \in Field
    BY FieldNumbers
  <2> HIDE DEF F, c
  <2>2. \E g : Iterates(g, n, Field, c, F)
    BY ONLY n \in Nat, <1>1, <2>1, BoundedRecursion
  <2> QED BY <2>2 DEF c
<1>3. Is([k \in 0 .. n |-> g[k]])
  <2>1. ASSUME NEW k \in 0 .. n
        PROVE  g[k] = IF k = 0 THEN 1 ELSE (a * g[k - 1]) % P
    <3>1. CASE k = 0
      BY <1>2, <3>1 DEF Iterates
    <3>2. CASE k # 0
      <4>1. k - 1 \in 0 .. (n - 1) /\ k - 1 \in 0 .. n /\ (k - 1) + 1 = k /\ k \in Nat
        BY <3>2
      <4>2. g[k] = F[k][g[k - 1]] /\ g[k - 1] \in Field
        <5> HIDE DEF F
        <5> QED BY <1>2, <4>1 DEF Iterates
      <4> QED BY <3>2, <4>1, <4>2
    <3> QED BY <3>1, <3>2
  <2> QED BY <2>1
<1>4. Power(a, n) = (CHOOSE f : Is(f))[n]
  BY DEF Power
<1>5. PICK f : Is(f) /\ Power(a, n) = f[n]
  <2> HIDE DEF Is
  <2> QED BY <1>3, <1>4
<1> DEFINE U == {k \in Nat : k <= n => f[k] \in Field}
<1>6. 0 \in U
  BY <1>5, FieldNumbers
<1>7. ASSUME NEW k \in Nat, k \in U PROVE k + 1 \in U
  <2> SUFFICES ASSUME k + 1 <= n PROVE f[k + 1] \in Field
    OBVIOUS
  <2>1. f[k + 1] = (a * f[k]) % P
    BY <1>5
  <2>2. a * f[k] \in Int
    BY <1>7, FieldNumbers
  <2> QED BY <2>1, <2>2, Residue
<1>8. Nat \subseteq U
  <2> HIDE DEF U
  <2> QED BY <1>6, <1>7, SetInduction
<1>9. n \in Nat /\ n <= n
  OBVIOUS
<1> QED BY <1>5, <1>8, <1>9

LEMMA CubesTyped ==
  /\ \A a \in Field : Cube(a) \in Field
  /\ \A a \in Field : CubeRoot[a] \in Field
<1>1. ASSUME NEW a \in Field PROVE Cube(a) \in Field
  <2>1. a * a * a \in Int
    BY FieldNumbers
  <2> HIDE DEF Cube
  <2> QED BY <2>1, Residue DEF Cube
<1>2. ASSUME NEW a \in Field PROVE CubeRoot[a] \in Field
  BY AlphaAssumption, PowerTyped DEF CubeRoot
<1> QED BY <1>1, <1>2

LEMMA LayersTyped ==
  ASSUME NEW state \in HashState
  PROVE  /\ ApplySbox(state) \in HashState
         /\ ApplyInvSbox(state) \in HashState
         /\ ApplyMds(state) \in HashState
         /\ ApplyInvMds(state) \in HashState
<1>1. \A i \in Width : state[i] \in Field
  BY DEF HashState
<1>2. ApplySbox(state) \in HashState
  BY <1>1, CubesTyped DEF HashState, ApplySbox
<1>3. ApplyInvSbox(state) \in HashState
  BY <1>1, CubesTyped DEF HashState, ApplyInvSbox
<1>4. \A i \in Width : MDS[i] \in HashState /\ INV_MDS[i] \in HashState
  BY MdsAssumption
<1>5. \A i \in Width : Dot(MDS[i], state) \in Field /\ Dot(INV_MDS[i], state) \in Field
  BY <1>4, DotTyped
<1>6. ApplyMds(state) \in HashState /\ ApplyInvMds(state) \in HashState
  BY <1>5 DEF HashState, ApplyMds, ApplyInvMds
<1> QED BY <1>2, <1>3, <1>6

LEMMA ArkTyped ==
  ASSUME NEW step \in Nat
  PROVE  FirstArk(step) \in HashState /\ SecondArk(step) \in HashState
<1> DEFINE a == ARK[step % Cycle]
<1>1. step % Cycle \in 0 .. (Cycle - 1)
  BY CycleAssumption
<1>2. a \in [1 .. 28 -> Field]
  BY <1>1, ArkAssumption DEF StateWidth
<1> HIDE DEF a
<1>3. /\ SubSeq(a, 0 + 1, 0 + 14) \in [1 .. 14 -> Field]
      /\ SubSeq(a, 14 + 1, 14 + 14) \in [1 .. 14 -> Field]
  <2>1. \A i \in {0, 14} : SubSeq(a, i + 1, i + 14) \in [1 .. 14 -> Field]
    <3> TAKE i \in {0, 14}
    <3>1. 28 \in Nat /\ 14 \in Nat /\ i \in Nat /\ i + 14 <= 28
      OBVIOUS
    <3> QED BY <1>2, <3>1, VectorSlice
  <2> QED BY <2>1
<1>4. SubSeq(a, 1, 14) \in [1 .. 14 -> Field] /\ SubSeq(a, 15, 28) \in [1 .. 14 -> Field]
  BY <1>3
<1> QED BY <1>4 DEF a, FirstArk, SecondArk, StateWidth, HashState, Width

LEMMA RoundTyped ==
  ASSUME NEW state \in HashState, NEW step \in Nat
  PROVE  ApplyRound(state, step) \in HashState
<1> DEFINE one == ApplyMds(ApplySbox(state))
           half == Add(one, FirstArk(step))
           two == ApplyMds(ApplyInvSbox(half))
<1>1. one \in HashState
  BY LayersTyped
<1> HIDE DEF one
<1>2. half \in HashState
  BY <1>1, ArkTyped, VectorsTyped DEF HashState, Width, StateWidth
<1> HIDE DEF half
<1>3. two \in HashState
  BY <1>2, LayersTyped
<1> HIDE DEF two
<1>4. Add(two, SecondArk(step)) \in HashState
  BY <1>3, ArkTyped, VectorsTyped DEF HashState, Width, StateWidth
<1> QED BY <1>4 DEF ApplyRound, two, half, one

(* A round takes the constants of its place in the cycle.                  *)
LEMMA RoundInCycle ==
  ASSUME NEW state, NEW step \in Nat
  PROVE  ApplyRound(state, step) = ApplyRound(state, step % Cycle)
<1>1. (step % Cycle) % Cycle = step % Cycle
  <2> DEFINE r == step % Cycle
  <2>1. r \in 0 .. (Cycle - 1)
    BY CycleAssumption
  <2> HIDE DEF r
  <2>2. r % Cycle = r
    BY <2>1, CycleAssumption
  <2> QED BY <2>2 DEF r
<1> QED BY <1>1 DEF ApplyRound, FirstArk, SecondArk

(* The state after each round of a permutation.                            *)
RoundsOf(state) ==
  CHOOSE round : round = [i \in 0 .. Rounds |->
    IF i = 0 THEN state
    ELSE SubSeq(ApplyRound(round[i - 1], i - 1), 1, StateWidth)]

LEMMA WholeState == \A state \in HashState : SubSeq(state, 1, StateWidth) = state
<1> TAKE state \in HashState
<1>1. state \in Seq(Field) /\ Len(state) = StateWidth
  BY VectorIsSequence DEF HashState, Width, StateWidth
<1> QED BY <1>1, SubSeqFull

LEMMA PermutationSteps ==
  ASSUME NEW state \in HashState
  PROVE  /\ RoundsOf(state)[0] = state
         /\ \A k \in 0 .. Rounds : RoundsOf(state)[k] \in HashState
         /\ \A k \in 0 .. (Rounds - 1) :
              RoundsOf(state)[k + 1] = ApplyRound(RoundsOf(state)[k], k)
         /\ ApplyPermutation[state] = RoundsOf(state)[Rounds]
<1> DEFINE F == [k \in Nat |-> [x \in HashState |->
                   IF k = 0 THEN x ELSE ApplyRound(x, k - 1)]]
           Trim(x) == SubSeq(x, 1, StateWidth)
           Is(g) == g = [i \in 0 .. Rounds |-> IF i = 0 THEN state
                           ELSE SubSeq(ApplyRound(g[i - 1], i - 1), 1, StateWidth)]
<1>1. F \in [Nat -> [HashState -> HashState]]
  <2>1. ASSUME NEW k \in Nat, NEW x \in HashState
        PROVE  (IF k = 0 THEN x ELSE ApplyRound(x, k - 1)) \in HashState
    <3>1. k # 0 => k - 1 \in Nat
      OBVIOUS
    <3> QED BY <3>1, RoundTyped
  <2> QED BY <2>1
<1>2. Rounds \in Nat \ {0}
  BY CycleAssumption
<1>3. PICK g : Iterates(g, Rounds, HashState, state, F)
  <2> HIDE DEF F
  <2> QED BY <1>1, <1>2, BoundedRecursion
<1>4. \A k \in 0 .. (Rounds - 1) : g[k + 1] = ApplyRound(g[k], k) /\ g[k] \in HashState
  <2> TAKE k \in 0 .. (Rounds - 1)
  <2>1. k \in 0 .. Rounds /\ k + 1 \in Nat /\ k + 1 # 0 /\ (k + 1) - 1 = k
    BY <1>2
  <2>2. g[k] \in HashState /\ g[k + 1] = F[k + 1][g[k]]
    <3> HIDE DEF F
    <3> QED BY <1>3, <2>1 DEF Iterates
  <2> QED BY <2>1, <2>2
<1>5. g = [i \in 0 .. Rounds |-> g[i]] /\ g[0] = state
      /\ \A i \in 0 .. Rounds : g[i] \in HashState
  BY <1>3 DEF Iterates
<1>6. Is(g)
  <2>1. ASSUME NEW i \in 0 .. Rounds
        PROVE  g[i] = IF i = 0 THEN state
                      ELSE SubSeq(ApplyRound(g[i - 1], i - 1), 1, StateWidth)
    <3>1. CASE i # 0
      <4>1. i - 1 \in 0 .. (Rounds - 1) /\ (i - 1) + 1 = i
        BY <1>2, <3>1
      <4>2. g[(i - 1) + 1] = ApplyRound(g[i - 1], i - 1)
        BY <1>4, <4>1
      <4>3. g[i] = ApplyRound(g[i - 1], i - 1)
        BY <4>1, <4>2
      <4> QED BY <1>5, <3>1, <4>3, WholeState
    <3> QED BY <1>5, <3>1
  <2> QED BY <1>5, <2>1
<1>7. Is(RoundsOf(state))
  <2>1. RoundsOf(state) = CHOOSE f : Is(f)
    BY DEF RoundsOf
  <2> HIDE DEF Is
  <2> QED BY <1>6, <2>1
<1>8. ApplyPermutation[state] = RoundsOf(state)[Rounds]
  BY DEF ApplyPermutation, RoundsOf
<1> DEFINE f == RoundsOf(state)
           U == {k \in Nat : k <= Rounds => f[k] = g[k]}
<1> HIDE DEF f
<1>9. Is(f)
  BY <1>7 DEF f
<1>10. 0 \in U
  BY <1>2, <1>5, <1>9
<1>11. ASSUME NEW k \in Nat, k \in U PROVE k + 1 \in U
  <2> SUFFICES ASSUME k + 1 <= Rounds PROVE f[k + 1] = g[k + 1]
    OBVIOUS
  <2>1. k \in 0 .. (Rounds - 1) /\ k + 1 \in 0 .. Rounds /\ k + 1 # 0 /\ (k + 1) - 1 = k
    BY <1>2
  <2>2. f[k] = g[k]
    <3>1. k <= Rounds
      BY <1>2
    <3> QED BY <1>11, <3>1
  <2>3. f[k + 1] = SubSeq(ApplyRound(f[k], k), 1, StateWidth)
    BY <1>9, <2>1
  <2>4. g[k + 1] = SubSeq(ApplyRound(g[k], k), 1, StateWidth)
    BY <1>6, <2>1
  <2> QED BY <2>2, <2>3, <2>4
<1>12. Nat \subseteq U
  <2> HIDE DEF U
  <2> QED BY <1>10, <1>11, SetInduction
<1>13. \A k \in 0 .. Rounds : f[k] = g[k]
  BY <1>12
<1>14. ASSUME NEW k \in 0 .. (Rounds - 1) PROVE f[k + 1] = ApplyRound(f[k], k)
  <2>1. k \in 0 .. Rounds /\ k + 1 \in 0 .. Rounds
    BY <1>2
  <2> QED BY <1>4, <1>13, <2>1
<1>15. f[0] = state /\ \A k \in 0 .. Rounds : f[k] \in HashState
  BY <1>2, <1>5, <1>13
<1> QED BY <1>8, <1>14, <1>15 DEF f

LEMMA PermutationTyped == \A state \in HashState : ApplyPermutation[state] \in HashState
BY PermutationSteps, CycleAssumption

LEMMA HalvesTyped ==
  /\ \A state \in HashState : DigestOf(state) \in Digests
  /\ \A a, b \in Digests : a \o b \in HashState
  /\ Zeroes(RateWidth) \in Digests
<1>1. ASSUME NEW state \in HashState PROVE DigestOf(state) \in Digests
  <2>1. 14 \in Nat /\ 0 \in Nat /\ 7 \in Nat /\ 0 + 7 <= 14
    OBVIOUS
  <2>2. state \in [1 .. 14 -> Field]
    BY DEF HashState, Width, StateWidth
  <2>3. SubSeq(state, 0 + 1, 0 + 7) \in [1 .. 7 -> Field]
    BY <2>1, <2>2, VectorSlice
  <2> QED BY <2>3 DEF DigestOf, RateWidth, Digests
<1>2. ASSUME NEW a \in Digests, NEW b \in Digests PROVE a \o b \in HashState
  <2>1. a \in [1 .. 7 -> Field] /\ b \in [1 .. 7 -> Field]
    BY DEF Digests, RateWidth
  <2>2. a \o b \in [1 .. (7 + 7) -> Field]
    <3> DEFINE w == 7
    <3>1. w \in Nat /\ a \in [1 .. w -> Field] /\ b \in [1 .. w -> Field]
      BY <2>1
    <3>2. a \o b \in [1 .. (w + w) -> Field]
      <4> HIDE DEF w
      <4> QED BY ONLY <3>1, VectorJoin
    <3> QED BY <3>2
  <2> QED BY <2>2 DEF HashState, Width, StateWidth
<1>3. Zeroes(RateWidth) \in Digests
  BY FieldNumbers DEF Zeroes, Digests
<1> QED BY <1>1, <1>2, <1>3

LEMMA MergeTyped == \A a, b \in Digests : Merge(a, b) \in Digests
BY HalvesTyped, PermutationTyped DEF Merge

LEMMA SixPadded ==
  ASSUME NEW x \in Fp6
  PROVE  /\ x \o Zeroes(StateWidth - 6) \in HashState
         /\ x \o Zeroes(StateWidth - 6)
              = [i \in Width |-> IF i <= 6 THEN x[i] ELSE 0]
<1> DEFINE n == 6
           l == 8
           b == Zeroes(l)
           z == x \o b
<1>1. n \in Nat /\ l \in Nat
  OBVIOUS
<1>2. x \in [1 .. n -> Field] /\ b \in [1 .. l -> Field]
        /\ \A i \in 1 .. l : b[i] = 0
  BY FieldNumbers DEF Fp6, Zeroes
<1> HIDE DEF n, l, b
<1>3. z \in [1 .. (n + l) -> Field]
  BY ONLY <1>1, <1>2, VectorJoin
<1>4. ASSUME NEW k \in 1 .. n PROVE z[k] = x[k]
  BY ONLY <1>1, <1>2, k \in 1 .. n, VectorJoin
<1>5. ASSUME NEW k \in 1 .. l PROVE z[n + k] = 0
  <2>1. z[n + k] = b[k]
    BY ONLY <1>1, <1>2, k \in 1 .. l, VectorJoin
  <2> QED BY <1>2, <2>1
<1> HIDE DEF z
<1>6. ASSUME NEW k \in 1 .. 14 PROVE z[k] = IF k <= 6 THEN x[k] ELSE 0
  <2>1. CASE k <= 6
    BY <1>4, <2>1 DEF n
  <2>2. CASE k > 6
    <3>1. k - 6 \in 1 .. 8 /\ 6 + (k - 6) = k
      BY <2>2
    <3>2. z[6 + (k - 6)] = 0
      BY <1>5, <3>1 DEF n, l
    <3> QED BY <2>2, <3>1, <3>2
  <2> QED BY <2>1, <2>2
<1>7. Width = 1 .. 14 /\ StateWidth - 6 = 8 /\ n + l = 14
  BY DEF Width, StateWidth, n, l
<1>8. z \in HashState /\ z = [i \in Width |-> IF i <= 6 THEN x[i] ELSE 0]
  BY <1>3, <1>6, <1>7 DEF HashState
<1>9. z = x \o Zeroes(StateWidth - 6)
  BY <1>7 DEF z, b, l
<1> QED BY <1>8, <1>9

(* The sponge over the six elements of x(R), which never fill it.          *)
LEMMA DigestOfSix ==
  ASSUME NEW x \in Fp6
  PROVE  /\ x \o Zeroes(StateWidth - 6) \in HashState
         /\ Digest(x) = DigestOf(ApplyPermutation[x \o Zeroes(StateWidth - 6)])
<1> DEFINE state(k) == [i \in Width |-> IF i <= k THEN x[i] ELSE 0]
           hasher(k) == [state |-> state(k), idx |-> k]
           Step(g, k) ==
             LET h0 == g[k - 1]
                 added == [h0.state EXCEPT ![h0.idx + 1] = (@ + x[k]) % P]
             IN IF h0.idx + 1 = RateWidth
                THEN [state |-> ApplyPermutation[added], idx |-> 0]
                ELSE [state |-> added, idx |-> h0.idx + 1]
           Is(g) == g = [k \in 0 .. 6 |-> IF k = 0 THEN New ELSE Step(g, k)]
           w == [k \in 0 .. 6 |-> hasher(k)]
<1>1. x \in [1 .. 6 -> Field] /\ Len(x) = 6
  BY VectorIsSequence DEF Fp6
<1>2. hasher(0) = New
  BY DEF New, Zeroes, Width, StateWidth
<1>3. ASSUME NEW g, NEW k \in 1 .. 6, g[k - 1] = hasher(k - 1)
      PROVE  Step(g, k) = hasher(k)
  <2> DEFINE added == [state(k - 1) EXCEPT ![k] = (@ + x[k]) % P]
  <2>1. x[k] \in Field /\ (0 + x[k]) % P = x[k]
    BY <1>1, FieldNumbers
  <2>2. state(k - 1)[k] = 0 /\ k \in Width
    BY DEF Width, StateWidth
  <2>3. added = state(k)
    <3>1. added = [i \in Width |-> IF i = k THEN (0 + x[k]) % P ELSE state(k - 1)[i]]
      BY <2>2
    <3>2. ASSUME NEW i \in Width, i # k PROVE state(k - 1)[i] = state(k)[i]
      <4>1. i \in Int /\ (i <= k - 1 <=> i <= k)
        BY <3>2 DEF Width, StateWidth
      <4> QED BY <4>1
    <3>3. state(k)[k] = x[k]
      BY <2>2
    <3>4. \A i \in Width : added[i] = state(k)[i]
      <4> HIDE DEF state
      <4> QED BY <2>1, <3>1, <3>2, <3>3
    <3> QED BY <3>1, <3>4
  <2>4. g[k - 1].state = state(k - 1) /\ g[k - 1].idx = k - 1
    BY <1>3
  <2>5. (k - 1) + 1 = k /\ k # RateWidth
    BY DEF RateWidth
  <2>6. Step(g, k) = [state |-> added, idx |-> k]
    <3> HIDE DEF state
    <3> QED BY <2>4, <2>5
  <2> HIDE DEF added, state, Step
  <2> QED BY <2>3, <2>6
<1>4. Is(w)
  <2>1. ASSUME NEW k \in 0 .. 6 PROVE w[k] = IF k = 0 THEN New ELSE Step(w, k)
    <3> HIDE DEF Step, hasher
    <3>1. w[k] = hasher(k)
      OBVIOUS
    <3>2. CASE k # 0
      <4>1. k \in 1 .. 6 /\ k - 1 \in 0 .. 6
        BY <3>2
      <4>2. w[k - 1] = hasher(k - 1)
        BY <4>1
      <4>3. Step(w, k) = hasher(k)
        <5> HIDE DEF w
        <5> QED BY <1>3, <4>1, <4>2
      <4> QED BY <3>1, <3>2, <4>3
    <3> QED BY <1>2, <3>1, <3>2
  <2> HIDE DEF Step, hasher
  <2>2. w = [k \in 0 .. 6 |-> w[k]]
    OBVIOUS
  <2> HIDE DEF w
  <2> QED BY <2>1, <2>2
<1>5. PICK f : Is(f) /\ Absorb(New, x) = f[6]
  <2>1. Absorb(New, x) = (CHOOSE f : Is(f))[6]
    BY <1>1 DEF Absorb
  <2> HIDE DEF Is, w
  <2> QED BY <1>4, <2>1
<1> DEFINE U == {k \in 0 .. 6 : f[k] = hasher(k)}
<1>6. 0 \in U
  <2> HIDE DEF Step, hasher
  <2> QED BY <1>2, <1>5
<1>7. ASSUME NEW k \in 0 .. (6 - 1), k \in U PROVE k + 1 \in U
  <2>1. k + 1 \in 1 .. 6 /\ k + 1 \in 0 .. 6 /\ (k + 1) - 1 = k /\ k + 1 # 0
    OBVIOUS
  <2> HIDE DEF Step, hasher
  <2>2. Step(f, k + 1) = hasher(k + 1)
    BY <1>3, <1>7, <2>1
  <2>3. f[k + 1] = Step(f, k + 1)
    BY <1>5, <2>1
  <2> QED BY <2>1, <2>2, <2>3
<1>8. f[6] = hasher(6)
  <2>1. 6 \in Nat
    OBVIOUS
  <2> HIDE DEF U
  <2>2. 0 .. 6 \subseteq U
    BY <1>6, <1>7, <2>1, IntervalInduction
  <2> QED BY <2>2 DEF U
<1>9. x \o Zeroes(StateWidth - 6) = state(6) /\ state(6) \in HashState
  BY SixPadded
<1>10. Digest(x) = DigestOf(ApplyPermutation[state(6)])
  <2>1. Absorb(New, x) = hasher(6)
    BY <1>5, <1>8
  <2>2. hasher(6).idx = 6 /\ hasher(6).state = state(6)
    OBVIOUS
  <2> HIDE DEF hasher, state
  <2> QED BY <2>1, <2>2 DEF Digest, Finalize
<1> HIDE DEF state
<1> QED BY <1>9, <1>10

LEMMA ChunkTyped ==
  ASSUME NEW m \in [1 .. MessageWidth -> Field], NEW i \in 0 .. (Chunks - 1)
  PROVE  /\ Chunk(m, i) \in Digests
         /\ \A k \in 1 .. RateWidth : Chunk(m, i)[k] = m[7 * i + k]
<1> DEFINE j == 7 * i
<1>1. m \in [1 .. 28 -> Field]
  BY DEF MessageWidth, Chunks, RateWidth
<1>2. 28 \in Nat /\ 7 \in Nat /\ j \in Nat /\ j + 7 <= 28
  BY DEF Chunks
<1>3. RateWidth * i + 1 = j + 1 /\ RateWidth * (i + 1) = j + 7
  BY DEF RateWidth, Chunks
<1> HIDE DEF j
<1>4. /\ SubSeq(m, j + 1, j + 7) \in [1 .. 7 -> Field]
      /\ \A k \in 1 .. 7 : SubSeq(m, j + 1, j + 7)[k] = m[j + k]
  <2> DEFINE n == 28
             w == 7
  <2>1. n \in Nat /\ w \in Nat /\ j \in Nat /\ j + w <= n
    BY <1>2
  <2>2. m \in [1 .. n -> Field]
    BY <1>1
  <2> HIDE DEF n, w
  <2>3. /\ SubSeq(m, j + 1, j + w) \in [1 .. w -> Field]
        /\ \A k \in 1 .. w : SubSeq(m, j + 1, j + w)[k] = m[j + k]
    BY ONLY <2>1, <2>2, VectorSlice
  <2> QED BY <2>3 DEF w
<1>5. Chunk(m, i) = SubSeq(m, j + 1, j + 7)
  BY <1>3 DEF Chunk
<1> QED BY <1>4, <1>5 DEF Digests, RateWidth, j

(* The digests of the message, chunk by chunk.                             *)
DigestsOf(input, m) ==
  CHOOSE g : g = [i \in 0 .. Chunks |->
    IF i = 0 THEN Digest(input) ELSE Merge(g[i - 1], Chunk(m, i - 1))]

LEMMA DigestSteps ==
  ASSUME NEW x \in Fp6, NEW m \in [1 .. MessageWidth -> Field]
  PROVE  /\ DigestsOf(x, m)[0] = Digest(x)
         /\ \A k \in 0 .. Chunks : DigestsOf(x, m)[k] \in Digests
         /\ \A k \in 0 .. (Chunks - 1) :
              DigestsOf(x, m)[k + 1] = Merge(DigestsOf(x, m)[k], Chunk(m, k))
         /\ HashMessage(x, m) = DigestsOf(x, m)[Chunks]
         /\ HashMessage(x, m) \in Digests
<1> DEFINE N(d, i) == Merge(d, Chunk(m, i - 1))
           d0 == Digest(x)
           d1 == N(d0, 1)
           d2 == N(d1, 2)
           d3 == N(d2, 3)
           d4 == N(d3, 4)
           Is(g) == g = [i \in 0 .. 4 |-> IF i = 0 THEN d0 ELSE N(g[i - 1], i)]
           w == [i \in 0 .. 4 |-> CASE i = 0 -> d0 [] i = 1 -> d1 [] i = 2 -> d2
                                    [] i = 3 -> d3 [] i = 4 -> d4]
           f == DigestsOf(x, m)
<1>1. Chunks = 4
  BY DEF Chunks
<1>2. f = CHOOSE g : Is(g)
  BY <1>1 DEF DigestsOf
<1>3. HashMessage(x, m) = f[4]
  BY <1>1 DEF HashMessage, DigestsOf
<1>4. d0 \in Digests
  BY DigestOfSix, PermutationTyped, HalvesTyped
<1>5. \A d \in Digests, i \in 1 .. 4 : N(d, i) \in Digests
  <2> TAKE d \in Digests, i \in 1 .. 4
  <2>1. i - 1 \in 0 .. (Chunks - 1)
    BY <1>1
  <2> QED BY <2>1, ChunkTyped, MergeTyped
<1> HIDE DEF d0, N, f
<1>6. Is(w)
  <2>1. w[0] = d0 /\ w[1] = d1 /\ w[2] = d2 /\ w[3] = d3 /\ w[4] = d4
    <3> HIDE DEF d1, d2, d3, d4
    <3> QED OBVIOUS
  <2>2. ASSUME NEW i \in 0 .. 4 PROVE w[i] = IF i = 0 THEN d0 ELSE N(w[i - 1], i)
    <3> HIDE DEF w
    <3>1. i = 0 \/ i = 1 \/ i = 2 \/ i = 3 \/ i = 4
      OBVIOUS
    <3> QED BY <2>1, <3>1
  <2>3. w = [i \in 0 .. 4 |-> w[i]]
    <3> HIDE DEF d1, d2, d3, d4
    <3> QED OBVIOUS
  <2> HIDE DEF w
  <2> QED BY <2>2, <2>3
<1>7. Is(f)
  <2> HIDE DEF Is, w
  <2> QED BY <1>2, <1>6
<1>8. f[0] = d0 /\ \A i \in 1 .. 4 : f[i] = N(f[i - 1], i)
  BY <1>7
<1>9. ASSUME NEW k \in 0 .. 3 PROVE f[k + 1] = N(f[k], k + 1) /\ (k + 1) - 1 = k
  <2>1. k + 1 \in 1 .. 4 /\ (k + 1) - 1 = k
    OBVIOUS
  <2> QED BY <1>8, <2>1
<1>10. f[0] \in Digests /\ \A k \in 0 .. 3 : f[k] \in Digests => f[k + 1] \in Digests
  <2>1. f[0] \in Digests
    BY <1>4, <1>8
  <2>2. ASSUME NEW k \in 0 .. 3, f[k] \in Digests PROVE f[k + 1] \in Digests
    <3>1. k + 1 \in 1 .. 4
      OBVIOUS
    <3> QED BY <1>5, <1>9, <2>2, <3>1
  <2> QED BY <2>1, <2>2
<1>11. \A k \in 0 .. 4 : f[k] \in Digests
  <2>1. f[1] \in Digests /\ f[2] \in Digests /\ f[3] \in Digests /\ f[4] \in Digests
    BY <1>10
  <2> QED BY <1>10, <2>1
<1>12. ASSUME NEW k \in 0 .. 3 PROVE f[k + 1] = Merge(f[k], Chunk(m, k))
  BY <1>9 DEF N
<1> QED BY <1>1, <1>3, <1>8, <1>11, <1>12 DEF f, d0

-----------------------------------------------------------------------------
(* Keys, scalars and signatures.                                           *)
LEMMA MultiplesTyped ==
  ASSUME NEW k \in 1 .. (Q - 1)
  PROVE  /\ Multiples[k] \in Affine
         /\ Multiples[k] = [x |-> Multiples[k].x, y |-> Multiples[k].y]
         /\ Multiples[k].x \in Fp6 /\ Multiples[k].y \in Fp6
<1>1. Multiples[k] \in Affine
  BY GroupAssumption
<1> QED BY <1>1 DEF Affine

(* The key in a message is a multiple of G.                                *)
LEMMA KeyTyped ==
  ASSUME NEW m \in Messages
  PROVE  /\ m \in [1 .. MessageWidth -> Field]
         /\ KeyOf(m) \in Affine
         /\ Logarithm(KeyOf(m)) \in 1 .. (Q - 1)
         /\ Multiples[Logarithm(KeyOf(m))] = KeyOf(m)
<1>1. m \in [1 .. MessageWidth -> Field]
  BY MessageAssumption
<1>2. PICK k \in 1 .. (Q - 1) : SubSeq(m, 1, 12) = Multiples[k].x \o Multiples[k].y
  BY MessageAssumption
<1> DEFINE x == Multiples[k].x
           y == Multiples[k].y
           n == 6
<1>3. x \in [1 .. n -> Field] /\ y \in [1 .. n -> Field] /\ n \in Nat
        /\ Multiples[k] = [x |-> x, y |-> y] /\ Multiples[k] \in Affine
  BY MultiplesTyped DEF Fp6
<1> HIDE DEF x, y
<1>4. \A i \in 1 .. 6 : m[i] = x[i] /\ m[6 + i] = y[i]
  <2> TAKE i \in 1 .. 6
  <2>1. (x \o y)[i] = x[i] /\ (x \o y)[6 + i] = y[i]
    <3>1. i \in 1 .. n
      OBVIOUS
    <3> HIDE DEF n
    <3>2. (x \o y)[i] = x[i]
      BY ONLY <1>3, <3>1, VectorJoin
    <3>3. (x \o y)[n + i] = y[i]
      BY ONLY <1>3, <3>1, VectorJoin
    <3> QED BY <3>2, <3>3 DEF n
  <2>2. \A j \in 1 .. 12 : SubSeq(m, 1, 12)[j] = m[j]
    <3> TAKE j \in 1 .. 12
    <3> DEFINE w == 28
               z == 0
               l == 12
    <3>1. w \in Nat /\ z \in Nat /\ l \in Nat /\ z + l <= w /\ j \in 1 .. l
      OBVIOUS
    <3>2. m \in [1 .. w -> Field]
      BY <1>1 DEF MessageWidth, Chunks, RateWidth
    <3> HIDE DEF w, z, l
    <3>3. SubSeq(m, z + 1, z + l)[j] = m[z + j]
      BY ONLY <3>1, <3>2, VectorSlice
    <3> QED BY <3>3 DEF z, l
  <2>3. i \in 1 .. 12 /\ 6 + i \in 1 .. 12
    OBVIOUS
  <2>4. SubSeq(m, 1, 12) = x \o y
    BY <1>2 DEF x, y
  <2> QED BY <2>1, <2>2, <2>3, <2>4
<1>5. ASSUME NEW z \in {0, 6}
      PROVE  /\ SubSeq(m, z + 1, z + 6) \in [1 .. 6 -> Field]
             /\ \A i \in 1 .. 6 : SubSeq(m, z + 1, z + 6)[i] = m[z + i]
  <2> DEFINE w == 28
             l == 6
  <2>1. w \in Nat /\ z \in Nat /\ l \in Nat /\ z + l <= w
    OBVIOUS
  <2>2. m \in [1 .. w -> Field]
    BY <1>1 DEF MessageWidth, Chunks, RateWidth
  <2> HIDE DEF w, l
  <2>3. SubSeq(m, z + 1, z + l) \in [1 .. l -> Field]
    BY ONLY <2>1, <2>2, VectorSlice
  <2>4. ASSUME NEW i \in 1 .. l PROVE SubSeq(m, z + 1, z + l)[i] = m[z + i]
    BY ONLY <2>1, <2>2, i \in 1 .. l, VectorSlice
  <2> QED BY <2>3, <2>4 DEF l
<1>6. SubSeq(m, 1, 6) = x
  <2>1. /\ SubSeq(m, 1, 6) \in [1 .. 6 -> Field]
        /\ \A i \in 1 .. 6 : SubSeq(m, 1, 6)[i] = m[i]
    BY <1>5
  <2> QED BY <1>3, <1>4, <2>1
<1>7. SubSeq(m, 7, 12) = y
  <2>1. /\ SubSeq(m, 7, 12) \in [1 .. 6 -> Field]
        /\ \A i \in 1 .. 6 : SubSeq(m, 7, 12)[i] = m[6 + i]
    BY <1>5
  <2> QED BY <1>3, <1>4, <2>1
<1>8. KeyOf(m) = Multiples[k]
  BY <1>3, <1>6, <1>7 DEF KeyOf
<1>9. Logarithm(KeyOf(m)) \in 1 .. (Q - 1) /\ Multiples[Logarithm(KeyOf(m))] = KeyOf(m)
  <2> DEFINE key == KeyOf(m)
  <2>1. Multiples[k] = key
    BY <1>8
  <2> HIDE DEF key
  <2>2. Logarithm(key) \in 1 .. (Q - 1) /\ Multiples[Logarithm(key)] = key
    BY <2>1 DEF Logarithm
  <2> QED BY <2>2 DEF key
<1> QED BY <1>1, <1>3, <1>8, <1>9

LEMMA ZeroTyped == Zero6 \in Fp6 /\ One6 \in Fp6
<1>1. Zero6 \in Fp6
  BY FieldNumbers DEF Zero6, Fp6
<1> QED BY <1>1, FieldNumbers DEF One6, Fp6

LEMMA AbscissaTyped == \A k \in Int : GetX(k) \in Fp6
<1> TAKE k \in Int
<1>1. CASE k % Q = 0
  BY <1>1, ZeroTyped DEF GetX
<1>2. CASE k % Q # 0
  <2>1. k % Q \in 1 .. (Q - 1)
    BY <1>2, GroupAssumption
  <2>2. Multiples[k % Q].x \in Fp6
    BY <2>1, MultiplesTyped
  <2> QED BY <1>2, <2>2 DEF GetX
<1> QED BY <1>1, <1>2

LEMMA NumberTyped ==
  ASSUME NEW words \in Digests
  PROVE  HashNumber(words) \in Nat /\ FromBits(words) \in 0 .. (Q - 1)
<1>1. words[1] \in Nat /\ words[2] \in Nat /\ words[3] \in Nat /\ words[4] \in Nat
  BY FieldNumbers DEF Digests, RateWidth
<1>2. Pow2[WordBits] \in Nat
  BY Pow2Steps, WordAssumption
<1>3. HashNumber(words) \in Nat
  <2> DEFINE p == Pow2[WordBits]
             a == words[3] + p * words[4]
             b == words[2] + p * a
             c == words[1] + p * b
  <2>1. p \in Nat
    BY <1>2
  <2> HIDE DEF p
  <2>2. a \in Nat
    BY <1>1, <2>1
  <2> HIDE DEF a
  <2>3. b \in Nat
    BY <1>1, <2>1, <2>2
  <2> HIDE DEF b
  <2>4. c \in Nat
    BY <1>1, <2>1, <2>3
  <2> QED BY <2>4 DEF HashNumber, p, a, b, c
<1> HIDE DEF HashNumber
<1> QED BY <1>3, GroupAssumption DEF FromBits

(* What a signer makes, and any other pair.                                *)
LEMMA SignTyped ==
  ASSUME NEW m \in Messages, NEW skey \in Int, NEW r \in Int
  PROVE  /\ Sign(m, skey, r).x = GetX(r) /\ GetX(r) \in Fp6
         /\ Sign(m, skey, r).s
              = (r - skey * FromBits(HashMessage(GetX(r), m))) % Q
         /\ FromBits(HashMessage(GetX(r), m)) \in Int
         /\ Sign(m, skey, r).s \in 0 .. (Q - 1)
<1> DEFINE f == FromBits(HashMessage(GetX(r), m))
<1>1. GetX(r) \in Fp6
  BY AbscissaTyped
<1>2. f \in Int
  BY <1>1, KeyTyped, DigestSteps, NumberTyped
<1>3. Sign(m, skey, r) = [x |-> GetX(r), s |-> (r - skey * f) % Q]
  BY DEF Sign
<1> HIDE DEF f
<1>4. (r - skey * f) % Q \in 0 .. (Q - 1)
  <2>1. r - skey * f \in Int
    BY <1>2
  <2> QED BY <2>1, GroupAssumption
<1> QED BY <1>1, <1>2, <1>3, <1>4 DEF f

LEMMA SignaturesTyped ==
  ASSUME NEW m \in Messages, NEW sig \in Signatures(m)
  PROVE  sig.x \in Fp6 /\ sig.s \in 0 .. (Q - 1) /\ sig.s \in Nat
<1>1. CASE sig \in Signed(m)
  <2>1. PICK r \in 0 .. (Q - 1) : sig = Sign(m, Logarithm(KeyOf(m)), r)
    BY <1>1 DEF Signed
  <2>2. Logarithm(KeyOf(m)) \in Int /\ r \in Int
    BY KeyTyped, GroupAssumption
  <2>3. sig.x \in Fp6 /\ sig.s \in 0 .. (Q - 1)
    BY <2>1, <2>2, SignTyped
  <2> QED BY <2>3, GroupAssumption
<1>2. CASE sig \in [x : Abscissas, s : Scalars]
  <2>1. sig.x \in Abscissas /\ sig.s \in Scalars
    BY <1>2
  <2>2. Abscissas \subseteq Fp6 /\ Scalars \subseteq 0 .. (Q - 1)
    BY SignatureAssumption
  <2>3. sig.x \in Fp6 /\ sig.s \in 0 .. (Q - 1)
    BY <2>1, <2>2
  <2> QED BY <2>3, GroupAssumption
<1> QED BY <1>1, <1>2 DEF Signatures

-----------------------------------------------------------------------------
(* The rows.                                                               *)
RowType == [sG : Lane, hP : Lane, limbs : [1 .. 4 -> Field], hash : HashState]

LEMMA RowParts ==
  ASSUME NEW r \in RowType
  PROVE  /\ r = [sG |-> r.sG, hP |-> r.hP, limbs |-> r.limbs, hash |-> r.hash]
         /\ r.sG \in Lane /\ r.hP \in Lane
         /\ r.limbs \in [1 .. 4 -> Field] /\ r.hash \in HashState
BY DEF RowType

LEMMA LaneParts ==
  ASSUME NEW lane \in Lane
  PROVE  /\ lane = [point |-> lane.point, bit |-> lane.bit]
         /\ lane.point \in Projective /\ lane.bit \in {0, 1}
BY DEF Lane

(* The bit of both numbers a row is given, and the word it is from.        *)
LEMMA BitPlace ==
  ASSUME NEW b \in 0 .. (BitLength - 1)
  PROVE  /\ BitLength - 1 - b \in Nat
         /\ (BitLength - 1 - b) \div WordBits = 3 - WordFed(b)
         /\ WordFed(b) \in 0 .. 3
<1> DEFINE W == WordBits
           k == BitLength - 1 - b
           c == b - (W - 1)
           q == c \div W
           r == c % W
<1>1. W \in Nat /\ W > 1
  BY WordAssumption
<1>2. k = 4 * W - 2 - b /\ k \in Nat /\ b \in Nat
  BY <1>1 DEF BitLength
<1>3. CASE b < W - 1
  <2> DEFINE s == k - 3 * W
  <2>1. s \in 0 .. (W - 1) /\ k = W * 3 + s
    BY <1>1, <1>2, <1>3
  <2> HIDE DEF W, k, s
  <2>2. k \div W = 3
    BY <1>1, <2>1
  <2> HIDE DEF c, q, r
  <2> QED BY <1>2, <1>3, <2>2 DEF WordFed, W, k
<1>4. CASE ~(b < W - 1)
  <2>1. c \in Nat /\ c <= 3 * W - 1
    BY <1>1, <1>2, <1>4
  <2>2. c = W * q + r /\ q \in Int /\ r \in 0 .. (W - 1)
    <3> HIDE DEF c, W
    <3> QED BY <1>1, <2>1, Division DEF q, r
  <2>3. WordFed(b) = q + 1
    BY <1>4 DEF WordFed
  <2>4. k = 3 * W - 1 - c
    BY <1>1, <1>2
  <2> HIDE DEF W, q, r, c, k
  <2>5. q \in 0 .. 2
    <3>1. W * q <= 3 * W - 1 /\ W * q > -W
      BY <1>1, <2>1, <2>2
    <3>2. q < 3
      <4> SUFFICES ASSUME q >= 3 PROVE FALSE
        BY <2>2
      <4> QED BY <1>1, <2>2, <3>1
    <3>3. q > -1
      <4> SUFFICES ASSUME q <= -1 PROVE FALSE
        BY <2>2
      <4>1. W * q <= W * (-1) /\ W * (-1) = -W /\ W * q \in Int
        BY <1>1, <2>2
      <4> QED BY <1>1, <3>1, <4>1
    <3> QED BY <2>2, <3>2, <3>3
  <2>6. k \div W = 2 - q
    <3> DEFINE t == 2 - q
               u == W - 1 - r
    <3>1. k = W * t + u
      BY <1>1, <2>1, <2>2, <2>4, <2>5
    <3>2. t \in Int /\ u \in 0 .. (W - 1) /\ k \in Int
      BY <1>1, <1>2, <2>2, <2>5
    <3> HIDE DEF t, u
    <3>3. k \div W = t
      BY <1>1, <3>1, <3>2
    <3> QED BY <3>3 DEF t
  <2> QED BY <1>2, <2>3, <2>5, <2>6 DEF W, k
<1> QED BY <1>3, <1>4

LEMMA BitsTyped ==
  ASSUME NEW b \in 0 .. (BitLength - 1), NEW words \in Digests, NEW s \in Nat
  PROVE  /\ HashBit(words, BitLength - 1 - b) \in {0, 1}
         /\ ScalarBit(s, BitLength - 1 - b) \in {0, 1}
<1> DEFINE k == BitLength - 1 - b
           i == k \div WordBits + 1
           w == words[i]
           p == Pow2[k % WordBits]
<1>1. k \in Nat /\ i \in 1 .. 4
  BY BitPlace
<1> HIDE DEF k
<1>2. w \in Nat
  BY <1>1, FieldNumbers DEF Digests, RateWidth
<1>3. p \in Nat \ {0}
  <2>1. k % WordBits \in Nat
    BY <1>1, WordAssumption
  <2> QED BY <2>1, Pow2Positive
<1>4. HashBit(words, k) = (w \div p) % 2
  BY DEF HashBit
<1> HIDE DEF w, p
<1>5. HashBit(words, k) \in {0, 1}
  <2>1. w \div p \in Nat
    BY <1>2, <1>3, QuotientBound
  <2> QED BY <1>4, <2>1
<1>6. ScalarBit(s, k) \in {0, 1}
  <2>1. s \div Pow2[k] \in Nat
    BY <1>1, Pow2Positive, QuotientBound
  <2> QED BY <2>1 DEF ScalarBit
<1> QED BY <1>5, <1>6 DEF k

(* What each step makes of the registers.                                  *)
HashNext(step, m, state) ==
  IF step < TotalHashLength THEN HashStep(step, m, state) ELSE state

LEMMA HashNextTyped ==
  ASSUME NEW step \in Nat, NEW m \in Messages, NEW state \in HashState
  PROVE  HashNext(step, m, state) \in HashState
<1> SUFFICES HashStep(step, m, state) \in HashState
  BY DEF HashNext
<1>1. step % Cycle \in Nat /\ step % Cycle <= Rounds /\ Cycle \in Nat \ {0}
  BY CycleAssumption
<1>2. CASE step % Cycle < Rounds
  <2>1. HashStep(step, m, state) = ApplyRound(state, step)
    BY <1>1, <1>2, CycleAssumption DEF HashStep
  <2> QED BY <2>1, RoundTyped
<1>3. CASE step % Cycle = Rounds /\ step < Chunks * Cycle
  <2>1. step \div Cycle \in 0 .. (Chunks - 1)
    <3> DEFINE q == step \div Cycle
               r == step % Cycle
               C == Cycle
    <3>1. step = C * q + r /\ q \in Int /\ r \in 0 .. (C - 1) /\ C \in Nat \ {0}
      BY <1>1, Division
    <3>2. step < 4 * C /\ Chunks = 4
      BY <1>1, <1>3 DEF Chunks
    <3> HIDE DEF q, r, C
    <3>3. q < 4
      <4> SUFFICES ASSUME q >= 4 PROVE FALSE
        BY <3>1
      <4>1. C * q >= C * 4
        BY <3>1
      <4> QED BY <3>1, <3>2, <4>1
    <3>4. q >= 0
      <4> SUFFICES ASSUME q <= -1 PROVE FALSE
        BY <3>1
      <4>1. C * q <= C * (-1)
        BY <3>1
      <4> QED BY <3>1, <4>1
    <3> QED BY <3>1, <3>2, <3>3, <3>4 DEF q
  <2>2. DigestOf(state) \o Chunk(m, step \div Cycle) \in HashState
    BY <2>1, KeyTyped, ChunkTyped, HalvesTyped
  <2>3. HashStep(step, m, state) = DigestOf(state) \o Chunk(m, step \div Cycle)
    BY <1>1, <1>3, CycleAssumption DEF HashStep
  <2> QED BY <2>2, <2>3
<1>4. CASE step % Cycle = Rounds /\ ~(step < Chunks * Cycle)
  <2>1. HashStep(step, m, state) = DigestOf(state) \o Zeroes(RateWidth)
    BY <1>4, CycleAssumption DEF HashStep
  <2> QED BY <2>1, HalvesTyped
<1> QED BY <1>1, <1>2, <1>3, <1>4, CycleAssumption

(* The registers after a row that doubles, adds, ends or only hashes.      *)
Doubled(step, r) ==
  LET b == step \div 2
      bit == HashBit(h, BitLength - 1 - b)
      word == 4 - WordFed(b)
  IN [sG |-> [point |-> ComputeDouble(r.sG.point),
              bit |-> ScalarBit(signature.s, BitLength - 1 - b)],
      hP |-> [point |-> ComputeDouble(r.hP.point), bit |-> bit],
      limbs |-> [r.limbs EXCEPT ![word] = (2 * r.limbs[word] + bit) % P],
      hash |-> HashNext(step, message, r.hash)]

Mixed(point, bit, other) ==
  [point |-> IF bit = 1 THEN ComputeAddMixed(point, other) ELSE point,
   bit |-> bit]

Added(step, r) ==
  LET k == BitLength - 1 - (step \div 2)
  IN [sG |-> Mixed(r.sG.point, ScalarBit(signature.s, k), G),
      hP |-> Mixed(r.hP.point, HashBit(h, k), KeyOf(message)),
      limbs |-> r.limbs, hash |-> HashNext(step, message, r.hash)]

Ended(step, r) ==
  LET sum == ComputeAdd(r.sG.point, r.hP.point)
  IN [sG |-> [point |-> [x |-> MulFp6(sum.x, InvertFp6(sum.z)),
                         y |-> sum.y, z |-> sum.z],
              bit |-> 1],
      hP |-> r.hP, limbs |-> r.limbs, hash |-> HashNext(step, message, r.hash)]

Hashed(step, r) ==
  [sG |-> r.sG, hP |-> r.hP, limbs |-> r.limbs,
   hash |-> HashNext(step, message, r.hash)]

WithLanes(r, s, p) == [r EXCEPT !.sG = s, !.hP = p]
WithWord(r, s, p, i, w) == [r EXCEPT !.sG = s, !.hP = p, !.limbs[i] = w]

LEMMA LanesSet ==
  ASSUME NEW r, NEW sG, NEW hP, NEW limbs, NEW hash, NEW s, NEW p,
         r = [sG |-> sG, hP |-> hP, limbs |-> limbs, hash |-> hash]
  PROVE  WithLanes(r, s, p) = [sG |-> s, hP |-> p, limbs |-> limbs, hash |-> hash]
<1> DEFINE a == [r EXCEPT !.sG = s]
<1>1. a = [sG |-> s, hP |-> hP, limbs |-> limbs, hash |-> hash]
  OBVIOUS
<1>2. [a EXCEPT !.hP = p] = [sG |-> s, hP |-> p, limbs |-> limbs, hash |-> hash]
  <2> HIDE DEF a
  <2> QED BY <1>1
<1> QED BY <1>2 DEF WithLanes

LEMMA WordSet ==
  ASSUME NEW r, NEW sG, NEW hP, NEW limbs, NEW hash, NEW s, NEW p, NEW i, NEW w,
         r = [sG |-> sG, hP |-> hP, limbs |-> limbs, hash |-> hash]
  PROVE  WithWord(r, s, p, i, w)
           = [sG |-> s, hP |-> p, limbs |-> [limbs EXCEPT ![i] = w], hash |-> hash]
<1> DEFINE b == WithLanes(r, s, p)
<1>1. b = [sG |-> s, hP |-> p, limbs |-> limbs, hash |-> hash]
  BY LanesSet
<1>2. WithWord(r, s, p, i, w) = [b EXCEPT !.limbs[i] = w]
  BY DEF WithWord, WithLanes
<1> HIDE DEF b
<1> QED BY <1>1, <1>2

LEMMA UpdatedRow ==
  ASSUME NEW r \in RowType, NEW step \in Nat
  PROVE  UpdateRow(step, r) =
           IF step < ScalarMulLength
           THEN IF step % 2 = 0 THEN Doubled(step, r) ELSE Added(step, r)
           ELSE IF step = ScalarMulLength THEN Ended(step, r) ELSE Hashed(step, r)
<1> DEFINE sp == r.sG.point
           sb == r.sG.bit
           hp == r.hP.point
           hb == r.hP.bit
           li == r.limbs
           ha == r.hash
           hn == HashNext(step, message, ha)
           b == step \div 2
           kb == ScalarBit(signature.s, BitLength - 1 - b)
           wb == HashBit(h, BitLength - 1 - b)
           hashed == IF step < TotalHashLength
                     THEN [r EXCEPT !.hash = HashStep(step, message, @)] ELSE r
           fed == FedBits(b, hashed)
           word == 4 - WordFed(b)
<1>1. r = [sG |-> [point |-> sp, bit |-> sb], hP |-> [point |-> hp, bit |-> hb],
           limbs |-> li, hash |-> ha]
  BY RowParts, LaneParts
<1>2. li \in [1 .. 4 -> Field] /\ sp \in Projective /\ hp \in Projective
  BY RowParts, LaneParts
<1> HIDE DEF sp, sb, hp, hb, li, ha
<1>3. hashed = [sG |-> [point |-> sp, bit |-> sb], hP |-> [point |-> hp, bit |-> hb],
                limbs |-> li, hash |-> hn]
  BY <1>1 DEF HashNext
<1> HIDE DEF hashed, hn
<1>4. fed = [sG |-> [point |-> sp, bit |-> kb], hP |-> [point |-> hp, bit |-> wb],
             limbs |-> li, hash |-> hn]
  <2>1. fed = [hashed EXCEPT !.sG.bit = kb, !.hP.bit = wb]
    BY DEF FedBits
  <2> HIDE DEF fed, kb, wb, b
  <2> QED BY <1>3, <2>1
<1> HIDE DEF fed, kb, wb
<1>5. UpdateRow(step, r) =
        IF step < ScalarMulLength
        THEN IF step % 2 = 0 THEN DoublingStep(b, fed) ELSE AdditionStep(fed)
        ELSE IF step = ScalarMulLength THEN FinalStep(hashed) ELSE hashed
  <2>1. UpdateRow(step, r) =
          CASE step < ScalarMulLength /\ step % 2 = 0 -> DoublingStep(b, fed)
            [] step < ScalarMulLength /\ step % 2 = 1 -> AdditionStep(fed)
            [] step = ScalarMulLength -> FinalStep(hashed)
            [] OTHER -> hashed
    BY DEF UpdateRow, hashed, fed
  <2>2. step % 2 = 0 \/ step % 2 = 1
    OBVIOUS
  <2>3. ScalarMulLength \in Int
    BY WordAssumption DEF ScalarMulLength, BitLength
  <2> HIDE DEF b
  <2> QED BY <2>1, <2>2, <2>3
<1>6. DoublingStep(b, fed) = Doubled(step, r)
  <2>1. DoublingStep(b, fed) =
          [sG |-> [point |-> ComputeDouble(sp), bit |-> kb],
           hP |-> [point |-> ComputeDouble(hp), bit |-> wb],
           limbs |-> [li EXCEPT ![word] = (2 * li[word] + wb) % P],
           hash |-> hn]
    <3> HIDE DEF b
    <3>1. ApplyPointDoubling(fed.sG) = [point |-> ComputeDouble(sp), bit |-> kb]
      BY <1>4 DEF ApplyPointDoubling
    <3>2. ApplyPointDoubling(fed.hP) = [point |-> ComputeDouble(hp), bit |-> wb]
      BY <1>4 DEF ApplyPointDoubling
    <3>3. DoublingStep(b, fed) =
            [sG |-> ApplyPointDoubling(fed.sG), hP |-> ApplyPointDoubling(fed.hP),
             limbs |-> [fed.limbs EXCEPT ![word] = (2 * fed.limbs[word] + fed.hP.bit) % P],
             hash |-> fed.hash]
      <4> DEFINE s == ApplyPointDoubling(fed.sG)
                 p == ApplyPointDoubling(fed.hP)
                 w == (2 * fed.limbs[word] + fed.hP.bit) % P
      <4>1. DoublingStep(b, fed) = WithWord(fed, s, p, word, w)
        BY DEF DoublingStep, WithWord
      <4> HIDE DEF s, p, w, word
      <4>2. WithWord(fed, s, p, word, w)
              = [sG |-> s, hP |-> p, limbs |-> [li EXCEPT ![word] = w],
                 hash |-> hn]
        BY ONLY <1>4, WordSet
      <4> QED BY <1>4, <4>1, <4>2 DEF s, p, w
    <3> QED BY <1>4, <3>1, <3>2, <3>3
  <2>2. Doubled(step, r) =
          [sG |-> [point |-> ComputeDouble(sp), bit |-> kb],
           hP |-> [point |-> ComputeDouble(hp), bit |-> wb],
           limbs |-> [li EXCEPT ![word] = (2 * li[word] + wb) % P],
           hash |-> hn]
    BY DEF Doubled, sp, hp, li, ha, hn, kb, wb
  <2> QED BY <2>1, <2>2
<1>7. AdditionStep(fed) = Added(step, r)
  <2>1. ASSUME NEW point, NEW bit, NEW other
        PROVE  ApplyPointAdditionMixed([point |-> point, bit |-> bit], other)
                 = Mixed(point, bit, other)
    BY DEF ApplyPointAdditionMixed, Mixed
  <2>2. AdditionStep(fed) =
          [sG |-> ApplyPointAdditionMixed(fed.sG, G),
           hP |-> ApplyPointAdditionMixed(fed.hP, KeyOf(message)),
           limbs |-> fed.limbs, hash |-> fed.hash]
    <3> DEFINE s == ApplyPointAdditionMixed(fed.sG, G)
               p == ApplyPointAdditionMixed(fed.hP, KeyOf(message))
    <3>1. AdditionStep(fed) = WithLanes(fed, s, p)
      BY DEF AdditionStep, WithLanes
    <3> HIDE DEF s, p
    <3>2. WithLanes(fed, s, p)
            = [sG |-> s, hP |-> p, limbs |-> li, hash |-> hn]
      BY ONLY <1>4, LanesSet
    <3> QED BY <1>4, <3>1, <3>2 DEF s, p
  <2>3. AdditionStep(fed) =
          [sG |-> Mixed(sp, kb, G), hP |-> Mixed(hp, wb, KeyOf(message)),
           limbs |-> li, hash |-> hn]
    BY <1>4, <2>1, <2>2
  <2> QED BY <2>3 DEF Added, sp, hp, li, ha, hn, kb, wb
<1>8. FinalStep(hashed) = Ended(step, r)
  <2> DEFINE sum == ComputeAdd(sp, hp)
             x == MulFp6(sum.x, InvertFp6(sum.z))
  <2>1. sum = [x |-> sum.x, y |-> sum.y, z |-> sum.z]
    <3>1. sum \in Projective
      BY <1>2, SumsTyped
    <3> QED BY <3>1 DEF Projective
  <2> HIDE DEF sum
  <2>2. ApplyPointAddition([hashed.sG EXCEPT !.bit = 1], hashed.hP.point)
          = [point |-> sum, bit |-> 1]
    <3>1. [hashed.sG EXCEPT !.bit = 1] = [point |-> sp, bit |-> 1]
      BY <1>3
    <3>2. hashed.hP.point = hp
      BY <1>3
    <3> QED BY <3>1, <3>2 DEF ApplyPointAddition, sum
  <2>3. [[point |-> sum, bit |-> 1] EXCEPT !.point.x = x]
          = [point |-> [x |-> x, y |-> sum.y, z |-> sum.z], bit |-> 1]
    <3> DEFINE q == x
    <3> HIDE DEF q
    <3>1. [sum EXCEPT !.x = q] = [x |-> q, y |-> sum.y, z |-> sum.z]
      BY <2>1
    <3>2. [[point |-> sum, bit |-> 1] EXCEPT !.point.x = q]
            = [point |-> [sum EXCEPT !.x = q], bit |-> 1]
      OBVIOUS
    <3> QED BY <3>1, <3>2 DEF q
  <2>4. FinalStep(hashed) =
          [hashed EXCEPT !.sG = [[point |-> sum, bit |-> 1] EXCEPT !.point.x = x]]
    BY <2>2 DEF FinalStep
  <2>5. FinalStep(hashed) =
          [sG |-> [point |-> [x |-> x, y |-> sum.y, z |-> sum.z], bit |-> 1],
           hP |-> [point |-> hp, bit |-> hb], limbs |-> li, hash |-> hn]
    <3> HIDE DEF x
    <3> QED BY <1>3, <2>3, <2>4
  <2>6. r.hP = [point |-> hp, bit |-> hb]
    BY <1>1
  <2> QED BY <2>5, <2>6 DEF Ended, sum, sp, hp, li, ha, hn
<1>9. hashed = Hashed(step, r)
  BY <1>1, <1>3 DEF Hashed, hn, ha, li
<1> QED BY <1>5, <1>6, <1>7, <1>8, <1>9

LEMMA UpdatedTyped ==
  ASSUME message \in Messages, signature.s \in Nat, h \in Digests,
         NEW r \in RowType, NEW step \in Nat
  PROVE  UpdateRow(step, r) \in RowType
<1> DEFINE b == step \div 2
           hn == HashNext(step, message, r.hash)
<1>1. /\ r.sG \in Lane /\ r.hP \in Lane /\ r.limbs \in [1 .. 4 -> Field]
      /\ r.sG.point \in Projective /\ r.hP.point \in Projective
      /\ r.hash \in HashState
  BY RowParts, LaneParts
<1>2. hn \in HashState
  BY <1>1, HashNextTyped
<1> HIDE DEF hn
<1>3. CASE step < ScalarMulLength
  <2>1. b \in 0 .. (BitLength - 1)
    BY <1>3, WordAssumption DEF ScalarMulLength, BitLength
  <2> HIDE DEF b
  <2> DEFINE kb == ScalarBit(signature.s, BitLength - 1 - b)
             wb == HashBit(h, BitLength - 1 - b)
             word == 4 - WordFed(b)
  <2>2. kb \in {0, 1} /\ wb \in {0, 1}
    BY <2>1, BitsTyped
  <2>3. word \in 1 .. 4
    BY <2>1, BitPlace
  <2> HIDE DEF kb, wb, word
  <2>4. G \in Affine /\ KeyOf(message) \in Affine
    <3>1. 1 \in 1 .. (Q - 1)
      BY GroupAssumption
    <3> QED BY <3>1, KeyTyped, MultiplesTyped DEF G
  <2>5. Doubled(step, r) \in RowType
    <3> DEFINE li == [r.limbs EXCEPT ![word] = (2 * r.limbs[word] + wb) % P]
    <3>1. li \in [1 .. 4 -> Field]
      <4>1. 2 * r.limbs[word] + wb \in Int
        BY <1>1, <2>2, <2>3, FieldNumbers
      <4>2. (2 * r.limbs[word] + wb) % P \in Field
        BY <4>1, Residue
      <4> QED BY <1>1, <4>2
    <3> HIDE DEF li
    <3>2. Doubled(step, r) =
            [sG |-> [point |-> ComputeDouble(r.sG.point), bit |-> kb],
             hP |-> [point |-> ComputeDouble(r.hP.point), bit |-> wb],
             limbs |-> li, hash |-> hn]
      BY DEF Doubled, b, kb, wb, word, li, hn
    <3>3. /\ [point |-> ComputeDouble(r.sG.point), bit |-> kb] \in Lane
          /\ [point |-> ComputeDouble(r.hP.point), bit |-> wb] \in Lane
      BY <1>1, <2>2, DoubleTyped DEF Lane
    <3> QED BY <1>2, <3>1, <3>2, <3>3 DEF RowType
  <2>6. Added(step, r) \in RowType
    <3>1. /\ Mixed(r.sG.point, kb, G) \in Lane
          /\ Mixed(r.hP.point, wb, KeyOf(message)) \in Lane
      BY <1>1, <2>2, <2>4, SumsTyped DEF Lane, Mixed
    <3>2. Added(step, r) =
            [sG |-> Mixed(r.sG.point, kb, G), hP |-> Mixed(r.hP.point, wb, KeyOf(message)),
             limbs |-> r.limbs, hash |-> hn]
      BY DEF Added, b, kb, wb, hn
    <3> QED BY <1>1, <1>2, <3>1, <3>2 DEF RowType
  <2> QED BY <1>3, <2>5, <2>6, UpdatedRow
<1>4. Ended(step, r) \in RowType
  <2> DEFINE sum == ComputeAdd(r.sG.point, r.hP.point)
             x == MulFp6(sum.x, InvertFp6(sum.z))
             lane == [point |-> [x |-> x, y |-> sum.y, z |-> sum.z], bit |-> 1]
  <2>1. sum \in Projective
    BY <1>1, SumsTyped
  <2> HIDE DEF sum
  <2>2. sum.x \in Fp6 /\ sum.y \in Fp6 /\ sum.z \in Fp6
    BY <2>1, CoordinatesTyped
  <2>3. x \in Fp6
    BY <2>2, Fp6Typed
  <2> HIDE DEF x
  <2>4. lane \in Lane
    BY <2>2, <2>3, PointTyped DEF Lane
  <2>5. Ended(step, r) = [sG |-> lane, hP |-> r.hP, limbs |-> r.limbs, hash |-> hn]
    BY DEF Ended, hn, sum, x
  <2> HIDE DEF lane
  <2> QED BY <1>1, <1>2, <2>4, <2>5 DEF RowType
<1>5. Hashed(step, r) \in RowType
  BY <1>1, <1>2 DEF Hashed, hn, RowType
<1> QED BY <1>3, <1>4, <1>5, UpdatedRow

-----------------------------------------------------------------------------
(* The signature is one of the message's, its hash is computed, and the    *)
(* registers are typed.                                                    *)
Typed == /\ message \in Messages
         /\ signature \in Signatures(message)
         /\ signature.x \in Fp6 /\ signature.s \in Nat
         /\ h = HashMessage(signature.x, message) /\ h \in Digests
         /\ row \in Rows
         /\ regs \in RowType

LEMMA StartTyped == ASSUME NEW x \in Fp6 PROVE FirstRow(x) \in RowType
<1>1. Infinity \in Projective
  BY ZeroTyped, PointTyped DEF Infinity
<1>2. StartLane \in Lane
  BY <1>1 DEF StartLane, Lane
<1>3. Zeroes(4) \in [1 .. 4 -> Field]
  BY FieldNumbers DEF Zeroes
<1>4. x \o Zeroes(StateWidth - 6) \in HashState
  BY SixPadded
<1> QED BY <1>2, <1>3, <1>4 DEF FirstRow, RowType

LEMMA RowsCounted ==
  /\ BitLength \in Nat /\ BitLength > 0 /\ ScalarMulLength = 2 * BitLength
  /\ \A n \in Rows : n \in Nat
  /\ 0 \in Rows
BY WordAssumption DEF Rows, SigCycleLength, ScalarMulLength, BitLength

LEMMA TypedInvariant == Spec => []Typed
<1>1. Init => Typed
  <2> SUFFICES ASSUME Init PROVE Typed
    OBVIOUS
  <2>1. message \in Messages /\ signature \in Signatures(message)
    BY DEF Init
  <2>2. signature.x \in Fp6 /\ signature.s \in Nat
    BY <2>1, SignaturesTyped
  <2>3. h = HashMessage(signature.x, message) /\ row = 0
          /\ regs = FirstRow(signature.x)
    BY DEF Init
  <2>4. h \in Digests
    BY <2>1, <2>2, <2>3, KeyTyped, DigestSteps
  <2> QED BY <2>1, <2>2, <2>3, <2>4, StartTyped, RowsCounted DEF Typed
<1>2. Typed /\ [Next]_vars => Typed'
  <2> SUFFICES ASSUME Typed, [Next]_vars PROVE Typed'
    OBVIOUS
  <2>1. CASE Update
    <3>1. regs' \in RowType
      <4>1. UpdateRow(row, regs) \in RowType
        BY RowsCounted, UpdatedTyped DEF Typed
      <4> QED BY <2>1, <4>1 DEF Update
    <3> QED BY <2>1, <3>1 DEF Update, Typed
  <2>2. CASE UNCHANGED vars
    BY <2>2 DEF vars, Typed
  <2> QED BY <2>1, <2>2 DEF Next, Filled
<1> QED BY <1>1, <1>2, PTL DEF Spec

(* The rows keep their types, whatever the inputs of sums, doubles,        *)
(* inverses and rounds (trace.rs 38-125, ecc.rs, rescue.rs).               *)
THEOREM SchnorrTyped == Spec => []TypeOK
<1>1. Typed => TypeOK
  BY RowParts DEF Typed, TypeOK
<1> QED BY <1>1, TypedInvariant, PTL

-----------------------------------------------------------------------------
(* The state that is permuted in each cycle of the trace, and the state on *)
(* row n.                                                                  *)
StartOf(x, m, c) ==
  IF c = 0 THEN x \o Zeroes(StateWidth - 6)
  ELSE DigestsOf(x, m)[c - 1] \o Chunk(m, c - 1)

StateOn(x, m, n) ==
  IF n < TotalHashLength THEN RoundsOf(StartOf(x, m, n \div Cycle))[n % Cycle]
  ELSE HashMessage(x, m) \o Zeroes(RateWidth)

LEMMA StartsTyped ==
  ASSUME NEW x \in Fp6, NEW m \in Messages, NEW c \in 0 .. Chunks
  PROVE  /\ StartOf(x, m, c) \in HashState
         /\ DigestOf(ApplyPermutation[StartOf(x, m, c)]) = DigestsOf(x, m)[c]
<1> DEFINE d(k) == DigestsOf(x, m)[k]
<1>1. m \in [1 .. MessageWidth -> Field]
  BY KeyTyped
<1>2. /\ d(0) = Digest(x) /\ \A k \in 0 .. Chunks : d(k) \in Digests
      /\ \A k \in 0 .. (Chunks - 1) : d(k + 1) = Merge(d(k), Chunk(m, k))
  BY <1>1, DigestSteps
<1> HIDE DEF d
<1>3. CASE c = 0
  <2>1. StartOf(x, m, c) = x \o Zeroes(StateWidth - 6)
    BY <1>3 DEF StartOf
  <2> QED BY <1>2, <1>3, <2>1, DigestOfSix DEF d
<1>4. CASE c # 0
  <2> DEFINE k == c - 1
  <2>1. k \in 0 .. (Chunks - 1) /\ k \in 0 .. Chunks /\ k + 1 = c
    BY <1>4 DEF Chunks
  <2>2. StartOf(x, m, c) = d(k) \o Chunk(m, k)
    BY <1>4 DEF StartOf, d
  <2> HIDE DEF k
  <2>3. d(k) \in Digests /\ Chunk(m, k) \in Digests
    BY <1>1, <1>2, <2>1, ChunkTyped
  <2>4. StartOf(x, m, c) \in HashState
    BY <2>2, <2>3, HalvesTyped
  <2>5. d(k + 1) = DigestOf(ApplyPermutation[d(k) \o Chunk(m, k)])
    BY <1>2, <2>1 DEF Merge
  <2> QED BY <2>1, <2>2, <2>4, <2>5 DEF d
<1> QED BY <1>3, <1>4

LEMMA StateFollows ==
  ASSUME NEW x \in Fp6, NEW m \in Messages, NEW n \in Nat
  PROVE  HashNext(n, m, StateOn(x, m, n)) = StateOn(x, m, n + 1)
<1> DEFINE C == Cycle
           c == n \div C
           e == n % C
           start(k) == StartOf(x, m, k)
           old == StateOn(x, m, n)
           new == HashNext(n, m, old)
<1>1. C \in Nat \ {0} /\ Rounds \in Nat \ {0} /\ C = Rounds + 1
        /\ TotalHashLength = 5 * C /\ Chunks * Cycle = 4 * C /\ Chunks = 4
  BY CycleAssumption DEF TotalHashLength, Chunks
<1>2. n = C * c + e /\ c \in Int /\ e \in 0 .. (C - 1)
  <2>1. C \in Nat \ {0} /\ n \in Int
    BY <1>1
  <2> HIDE DEF C
  <2> QED BY ONLY <2>1, Division
<1>3. IF e = C - 1
      THEN (n + 1) % Cycle = 0 /\ (n + 1) \div Cycle = c + 1
      ELSE (n + 1) % Cycle = e + 1 /\ (n + 1) \div Cycle = c
  <2>1. IF e = C - 1
        THEN (n + 1) % C = 0 /\ (n + 1) \div C = c + 1
        ELSE (n + 1) % C = e + 1 /\ (n + 1) \div C = c
    <3> HIDE DEF C
    <3> QED BY <1>1, CycleSteps
  <2> QED BY <2>1
<1>4. n < 5 * C => c \in 0 .. 4
  <2> HAVE n < 5 * C
  <2> HIDE DEF C, c, e
  <2>1. c < 5
    <3> SUFFICES ASSUME c >= 5 PROVE FALSE
      BY <1>2
    <3>1. C * c >= C * 5
      BY <1>1, <1>2
    <3> QED BY <1>1, <1>2, <3>1
  <2>2. c > -1
    <3> SUFFICES ASSUME c <= -1 PROVE FALSE
      BY <1>2
    <3>1. C * c <= C * (-1) /\ C * (-1) = -C /\ C * c \in Int
      BY <1>1, <1>2
    <3> QED BY <1>1, <1>2, <3>1
  <2> QED BY <1>2, <2>1, <2>2
<1>5. CASE ~(n < 5 * C)
  <2>1. ~(n + 1 < 5 * C)
    BY <1>1, <1>5
  <2> QED BY <1>1, <1>5, <2>1 DEF StateOn, HashNext
<1>6. CASE n < 5 * C
  <2>1. c \in 0 .. Chunks
    BY <1>1, <1>4, <1>6
  <2>2. start(c) \in HashState
          /\ DigestOf(ApplyPermutation[start(c)]) = DigestsOf(x, m)[c]
    <3> HIDE DEF c
    <3> QED BY <2>1, StartsTyped
  <2>3. old = RoundsOf(start(c))[e]
    BY <1>1, <1>6 DEF StateOn
  <2>4. new = HashStep(n, m, old)
    BY <1>1, <1>6 DEF HashNext
  <2> HIDE DEF old, new
  <2>5. CASE e < Rounds
    <3>1. new = ApplyRound(old, e)
      <4>1. new = ApplyRound(old, n)
        BY <1>1, <2>4, <2>5 DEF HashStep
      <4> QED BY <4>1, RoundInCycle
    <3> HIDE DEF c, e, C, start
    <3>2. new = RoundsOf(start(c))[e + 1]
      <4>1. e \in 0 .. (Rounds - 1)
        BY <1>1, <1>2, <2>5
      <4>2. RoundsOf(start(c))[e + 1] = ApplyRound(RoundsOf(start(c))[e], e)
        BY <2>2, <4>1, PermutationSteps
      <4> QED BY <2>3, <3>1, <4>2
    <3>3. (n + 1) % Cycle = e + 1 /\ (n + 1) \div Cycle = c
      BY <1>1, <1>2, <1>3, <2>5
    <3>4. n + 1 < TotalHashLength
      <4>1. C * c <= C * 4 /\ C * c \in Int
        BY <1>1, <1>2, <1>4, <1>6
      <4> QED BY <1>1, <1>2, <2>5, <4>1
    <3>5. StateOn(x, m, n + 1) = RoundsOf(start(c))[e + 1]
      BY <3>3, <3>4 DEF StateOn, start
    <3> QED BY <3>2, <3>5 DEF new, old
  <2>6. CASE e = Rounds
    <3>1. DigestOf(old) = DigestsOf(x, m)[c]
      <4> HIDE DEF c, e, start
      <4> QED BY <2>2, <2>3, <2>6, PermutationSteps
    <3>2. (n + 1) % Cycle = 0 /\ (n + 1) \div Cycle = c + 1
      BY <1>1, <1>3, <2>6
    <3>3. CASE c < 4
      <4>1. n + 1 <= 4 * C
        <5> HIDE DEF c, e, C
        <5>1. C * c <= C * 3 /\ C * c \in Int
          BY <1>1, <1>2, <3>3
        <5> QED BY <1>1, <1>2, <2>6, <5>1
      <4>2. new = DigestOf(old) \o Chunk(m, c)
        <5>1. n % Cycle = Rounds /\ n < Chunks * Cycle /\ ~(n % Cycle < Rounds)
          BY <1>1, <2>6, <4>1
        <5>2. HashStep(n, m, old) = DigestOf(old) \o Chunk(m, n \div Cycle)
          BY <5>1 DEF HashStep
        <5> QED BY <2>4, <5>2
      <4> HIDE DEF c, C
      <4>3. c + 1 # 0 /\ (c + 1) - 1 = c /\ c + 1 \in 0 .. Chunks
        BY <1>1, <2>1, <3>3
      <4>4. new = start(c + 1)
        BY <3>1, <4>2, <4>3 DEF StartOf
      <4>5. start(c + 1) = RoundsOf(start(c + 1))[0]
        <5>1. start(c + 1) \in HashState
          BY <4>3, StartsTyped
        <5> HIDE DEF start
        <5> QED BY <5>1, PermutationSteps
      <4>6. n + 1 < TotalHashLength
        BY <1>1, <4>1
      <4>7. StateOn(x, m, n + 1) = RoundsOf(start(c + 1))[0]
        BY <3>2, <4>6 DEF StateOn
      <4> QED BY <4>4, <4>5, <4>7 DEF new, old
    <3>4. CASE c = 4
      <4>1. n + 1 = 5 * C
        <5> HIDE DEF c, e, C
        <5> QED BY <1>1, <1>2, <2>6, <3>4
      <4>2. new = DigestOf(old) \o Zeroes(RateWidth)
        <5>1. n % Cycle = Rounds /\ ~(n < Chunks * Cycle)
          BY <1>1, <2>6, <4>1
        <5> QED BY <1>1, <2>4, <5>1 DEF HashStep
      <4>3. DigestsOf(x, m)[4] = HashMessage(x, m)
        BY <1>1, KeyTyped, DigestSteps
      <4>4. ~(n + 1 < TotalHashLength)
        BY <1>1, <4>1
      <4>5. StateOn(x, m, n + 1) = HashMessage(x, m) \o Zeroes(RateWidth)
        BY <4>4 DEF StateOn
      <4> HIDE DEF c
      <4> QED BY <3>1, <3>4, <4>2, <4>3, <4>5 DEF new, old
    <3> QED BY <1>1, <2>1, <3>3, <3>4
  <2> QED BY <1>1, <1>2, <2>5, <2>6
<1> QED BY <1>5, <1>6

(* A word without the bits still to come.                                  *)
Top(word, left) ==
  IF left >= WordBits THEN 0 ELSE word \div Pow2[IF left < 0 THEN 0 ELSE left]

Left(i, n) == BitLength - (n + 1) \div 2 - WordBits * (i - 1)

LEMMA TopStep ==
  ASSUME NEW word \in Field, NEW left \in 1 .. WordBits
  PROVE  (2 * Top(word, left) + ((word \div Pow2[left - 1]) % 2)) % P
           = Top(word, left - 1)
<1> DEFINE k == left - 1
           d == Pow2[k]
           q == word \div d
           bit == q % 2
<1>1. word \in Nat /\ word < P /\ P \in Nat /\ P > 1
  BY FieldNumbers, FieldAssumption
<1>2. k \in Nat /\ k + 1 = left /\ WordBits \in Nat /\ k < WordBits /\ ~(k < 0)
  BY WordAssumption
<1>3. d \in Nat \ {0}
  BY <1>2, Pow2Positive
<1> HIDE DEF k
<1>4. word \div Pow2[k + 1] = q \div 2
  BY <1>1, <1>2, HalfQuotient
<1> HIDE DEF d
<1>5. q \in 0 .. word
  BY <1>1, <1>3, QuotientBound
<1>6. Top(word, k) = q
  BY <1>2 DEF Top, d
<1>7. Top(word, left) = q \div 2
  <2>1. CASE left < WordBits
    BY <1>2, <1>4, <2>1 DEF Top
  <2>2. CASE ~(left < WordBits)
    <3>1. left = WordBits /\ k = WordBits - 1
      BY <1>2, <2>2
    <3>2. word < d
      BY <1>1, <1>3, <3>1, WordAssumption DEF d
    <3>3. q = 0
      <4> HIDE DEF q
      <4>1. word = d * q + (word % d) /\ word % d \in 0 .. (d - 1) /\ q \in Int
        BY <1>1, <1>3, Division DEF q
      <4>2. ~(q >= 1)
        <5> SUFFICES ASSUME q >= 1 PROVE FALSE
          OBVIOUS
        <5>1. d * q >= d * 1
          BY <1>3, <4>1
        <5> QED BY <1>1, <1>3, <3>2, <4>1, <5>1
      <4> QED BY <1>5, <4>1, <4>2
    <3>4. Top(word, left) = 0
      BY <1>2, <2>2 DEF Top
    <3> HIDE DEF q
    <3> QED BY <3>3, <3>4
  <2> QED BY <2>1, <2>2
<1> HIDE DEF q
<1>8. 2 * (q \div 2) + bit = q
  BY <1>5
<1>9. q % P = q
  BY <1>1, <1>5
<1>10. k = left - 1
  BY DEF k
<1> QED BY <1>6, <1>7, <1>8, <1>9, <1>10 DEF q, d, bit

LEMMA TopStays ==
  ASSUME NEW word, NEW left \in Int, left <= 0 \/ left > WordBits
  PROVE  Top(word, left) = Top(word, left - 1)
<1>1. WordBits \in Nat /\ WordBits > 1
  BY WordAssumption
<1>2. CASE left <= 0
  <2>1. ~(left >= WordBits) /\ ~(left - 1 >= WordBits) /\ left - 1 < 0
          /\ (IF left < 0 THEN 0 ELSE left) = 0
    BY <1>1, <1>2
  <2> QED BY <2>1 DEF Top
<1>3. CASE left > WordBits
  <2>1. left >= WordBits /\ left - 1 >= WordBits
    BY <1>1, <1>3
  <2> QED BY <2>1 DEF Top
<1> QED BY <1>2, <1>3

(* The bit fed is the next one of the word that is not complete.           *)
LEMMA FedWord ==
  ASSUME NEW b \in 0 .. (BitLength - 1), NEW i \in 1 .. 4
  PROVE  LET k == BitLength - 1 - b
             left == BitLength - b - WordBits * (i - 1)
         IN /\ left \in Int
            /\ IF i = 4 - WordFed(b)
               THEN /\ left \in 1 .. WordBits /\ k % WordBits = left - 1
                    /\ k \div WordBits + 1 = i
               ELSE left <= 0 \/ left > WordBits
<1> DEFINE k == BitLength - 1 - b
           W == WordBits
           q == k \div W
           r == k % W
           left == BitLength - b - W * (i - 1)
<1>1. W \in Nat \ {0}
  BY WordAssumption
<1>2. k \in Nat /\ q = 3 - WordFed(b) /\ WordFed(b) \in 0 .. 3
  BY BitPlace
<1>3. BitLength \in Nat /\ b \in Nat /\ left \in Int
  BY <1>1, RowsCounted
<1>4. left = k + 1 - W * (i - 1)
  BY <1>1, <1>3
<1> HIDE DEF W, k
<1>5. k = W * q + r /\ r \in 0 .. (W - 1)
  <2>1. W \in Nat \ {0} /\ k \in Int
    BY <1>1, <1>2
  <2> QED BY ONLY <2>1, Division
<1> HIDE DEF q, r, left
<1>6. q \in 0 .. 3
  BY <1>2
<1>7. left = W * q - W * (i - 1) + r + 1
  <2>1. W * q \in Int /\ W * (i - 1) \in Int
    BY <1>1, <1>6
  <2> QED BY <1>4, <1>5, <2>1
<1>8. W * q - W * (i - 1) = W * (q - (i - 1))
  BY <1>1, <1>6
<1>9. CASE i = 4 - WordFed(b)
  <2>1. q - (i - 1) = 0 /\ q + 1 = i
    BY <1>2, <1>9
  <2>2. W * (q - (i - 1)) = 0
    BY <1>1, <2>1
  <2>3. left = r + 1
    BY <1>5, <1>7, <1>8, <2>2
  <2>4. left \in 1 .. W /\ r = left - 1
    BY <1>1, <1>5, <2>3
  <2> QED BY <1>3, <1>9, <2>1, <2>4 DEF left, q, r, k, W
<1>10. CASE i # 4 - WordFed(b)
  <2>1. q - (i - 1) \in Int /\ q - (i - 1) # 0
    BY <1>2, <1>6, <1>10
  <2>2. left <= 0 \/ left > W
    <3> DEFINE t == q - (i - 1)
    <3>1. left = W * t + r + 1 /\ t \in Int /\ t # 0
      BY <1>7, <1>8, <2>1
    <3> HIDE DEF t
    <3>2. CASE t >= 1
      <4>1. W * t >= W * 1 /\ W * t \in Int
        BY <1>1, <3>1, <3>2
      <4> QED BY <1>1, <1>5, <3>1, <4>1
    <3>3. CASE t <= -1
      <4>1. W * t <= W * (-1) /\ W * t \in Int /\ W * (-1) = -W
        BY <1>1, <3>1, <3>3
      <4> QED BY <1>1, <1>5, <3>1, <4>1
    <3> QED BY <3>1, <3>2, <3>3
  <2> QED BY <1>3, <1>10, <2>2 DEF left, W
<1> QED BY <1>9, <1>10

LEMMA LimbsFollow ==
  ASSUME h \in Digests, NEW r \in RowType, NEW n \in Nat, NEW i \in 1 .. 4,
         r.limbs[i] = Top(h[i], Left(i, n))
  PROVE  UpdateRow(n, r).limbs[i] = Top(h[i], Left(i, n + 1))
<1> DEFINE b == n \div 2
           left == BitLength - b - WordBits * (i - 1)
<1>1. BitLength \in Nat /\ ScalarMulLength = 2 * BitLength /\ WordBits \in Nat
        /\ WordBits * (i - 1) \in Nat /\ b \in Nat
  <2>1. WordBits \in Nat /\ i - 1 \in Nat
    BY WordAssumption
  <2> QED BY <2>1, RowsCounted
<1>2. h[i] \in Field /\ r.limbs \in [1 .. 4 -> Field]
  BY RowParts DEF Digests, RateWidth
<1>3. CASE n < ScalarMulLength /\ n % 2 = 0
  <2> DEFINE k == BitLength - 1 - b
             word == 4 - WordFed(b)
             bit == HashBit(h, k)
  <2>1. UpdateRow(n, r).limbs =
          [r.limbs EXCEPT ![word] = (2 * r.limbs[word] + bit) % P]
    BY <1>3, UpdatedRow DEF Doubled
  <2>2. (n + 1) \div 2 = b /\ ((n + 1) + 1) \div 2 = b + 1
          /\ b \in 0 .. (BitLength - 1)
    BY <1>1, <1>3
  <2>3. Left(i, n) = left /\ Left(i, n + 1) = left - 1 /\ left \in Int
    <3> HIDE DEF b
    <3> QED BY <1>1, <2>2 DEF Left
  <2>4. IF i = word
        THEN left \in 1 .. WordBits /\ k % WordBits = left - 1
               /\ k \div WordBits + 1 = i
        ELSE left <= 0 \/ left > WordBits
    <3> HIDE DEF b
    <3> QED BY <2>2, FedWord
  <2> HIDE DEF word
  <2>5. CASE i = word
    <3>1. bit = (h[i] \div Pow2[left - 1]) % 2
      <4> HIDE DEF left, k
      <4> QED BY <2>4, <2>5 DEF HashBit
    <3>2. UpdateRow(n, r).limbs[i] = (2 * r.limbs[i] + bit) % P
      <4> HIDE DEF bit
      <4> QED BY <1>2, <2>1, <2>5
    <3> HIDE DEF left, bit
    <3>3. (2 * Top(h[i], left) + ((h[i] \div Pow2[left - 1]) % 2)) % P
            = Top(h[i], left - 1)
      BY <1>2, <2>4, <2>5, TopStep
    <3> QED BY <2>3, <3>1, <3>2, <3>3
  <2>6. CASE i # word
    <3>1. UpdateRow(n, r).limbs[i] = r.limbs[i]
      <4> HIDE DEF bit
      <4> QED BY <1>2, <2>1, <2>6
    <3> HIDE DEF left
    <3>2. Top(h[i], left) = Top(h[i], left - 1)
      BY <2>3, <2>4, <2>6, TopStays
    <3> QED BY <2>3, <3>1, <3>2
  <2> QED BY <2>5, <2>6
<1>4. CASE ~(n < ScalarMulLength /\ n % 2 = 0)
  <2>1. UpdateRow(n, r).limbs = r.limbs
    BY <1>4, UpdatedRow DEF Added, Ended, Hashed
  <2>2. Top(h[i], Left(i, n)) = Top(h[i], Left(i, n + 1))
    <3>1. CASE n < ScalarMulLength
      <4>1. (n + 1) \div 2 = ((n + 1) + 1) \div 2
        BY <1>4, <3>1
      <4> QED BY <4>1 DEF Left
    <3>2. CASE ~(n < ScalarMulLength)
      <4>1. (n + 1) \div 2 >= BitLength /\ ((n + 1) + 1) \div 2 >= BitLength
              /\ (n + 1) \div 2 \in Int /\ ((n + 1) + 1) \div 2 \in Int
        BY <1>1, <3>2
      <4>2. Left(i, n) <= 0 /\ Left(i, n + 1) <= 0 /\ Left(i, n) \in Int
              /\ Left(i, n + 1) \in Int
        BY <1>1, <4>1 DEF Left
      <4>3. \A l \in Int : l <= 0 => Top(h[i], l) = h[i] \div Pow2[0]
        <5> TAKE l \in Int
        <5> HAVE l <= 0
        <5>1. ~(l >= WordBits) /\ (IF l < 0 THEN 0 ELSE l) = 0
          BY WordAssumption
        <5> QED BY <5>1 DEF Top
      <4> QED BY <4>2, <4>3
    <3> QED BY <3>1, <3>2
  <2> QED BY <2>1, <2>2
<1> QED BY <1>3, <1>4

(* The hash on each row, and how far its words are fed.                    *)
Follows == /\ regs.hash = StateOn(signature.x, message, row)
           /\ \A i \in 1 .. 4 : regs.limbs[i] = Top(h[i], Left(i, row))

LEMMA FollowsInvariant == Spec => []Follows
<1>1. Init => Follows
  <2> SUFFICES ASSUME Init PROVE Follows
    OBVIOUS
  <2>1. message \in Messages /\ signature \in Signatures(message)
    BY DEF Init
  <2>2. signature.x \in Fp6
    BY <2>1, SignaturesTyped
  <2>3. h = HashMessage(signature.x, message) /\ row = 0
          /\ regs = FirstRow(signature.x)
    BY DEF Init
  <2>4. h \in Digests
    BY <2>1, <2>2, <2>3, KeyTyped, DigestSteps
  <2>5. StateOn(signature.x, message, 0) = signature.x \o Zeroes(StateWidth - 6)
    <3>1. 0 < TotalHashLength /\ 0 \div Cycle = 0 /\ 0 % Cycle = 0
      BY CycleAssumption DEF TotalHashLength, Chunks
    <3>2. signature.x \o Zeroes(StateWidth - 6) \in HashState
      BY <2>2, SixPadded
    <3> QED BY <3>1, <3>2, PermutationSteps DEF StateOn, StartOf
  <2>6. ASSUME NEW i \in 1 .. 4 PROVE regs.limbs[i] = Top(h[i], Left(i, 0))
    <3>1. regs.limbs[i] = 0
      BY <2>3 DEF FirstRow, Zeroes
    <3>2. Left(i, 0) >= WordBits - 1 /\ Left(i, 0) \in Int
      <4>1. (0 + 1) \div 2 = 0 /\ WordBits \in Nat
        BY WordAssumption
      <4>2. WordBits * (i - 1) <= 3 * WordBits /\ WordBits * (i - 1) \in Int
        <5>1. WordBits * (i - 1) <= WordBits * 3
          BY <4>1
        <5> QED BY <4>1, <5>1
      <4> QED BY <4>1, <4>2 DEF Left, BitLength
    <3>3. CASE Left(i, 0) >= WordBits
      BY <3>1, <3>3 DEF Top
    <3>4. CASE Left(i, 0) = WordBits - 1
      <4>1. h[i] \in Field
        BY <2>4 DEF Digests, RateWidth
      <4>2. h[i] \in Nat /\ h[i] < Pow2[WordBits - 1] /\ WordBits - 1 \in Nat
              /\ WordBits \in Nat
        <5>1. WordBits - 1 \in Nat /\ WordBits \in Nat
          BY WordAssumption
        <5>2. Pow2[WordBits - 1] \in Nat
          BY <5>1, Pow2Steps
        <5> QED BY <4>1, <5>1, <5>2, FieldNumbers, WordAssumption
      <4>3. h[i] \div Pow2[WordBits - 1] = 0
        <5> DEFINE d == Pow2[WordBits - 1]
        <5>1. d \in Nat \ {0}
          BY <4>2, Pow2Positive
        <5>2. h[i] \in Nat /\ h[i] < d
          BY <4>2
        <5> HIDE DEF d
        <5>3. h[i] \div d = 0
          BY <5>1, <5>2
        <5> QED BY <5>3 DEF d
      <4>4. Top(h[i], WordBits - 1) = 0
        BY <4>2, <4>3 DEF Top
      <4> QED BY <3>1, <3>4, <4>4
    <3>5. WordBits \in Nat
      BY WordAssumption
    <3> QED BY <3>2, <3>3, <3>4, <3>5
  <2>7. regs.hash = signature.x \o Zeroes(StateWidth - 6)
    BY <2>3 DEF FirstRow
  <2> QED BY <2>3, <2>5, <2>6, <2>7 DEF Follows
<1>2. Typed /\ Follows /\ [Next]_vars => Follows'
  <2> SUFFICES ASSUME Typed, Follows, [Next]_vars PROVE Follows'
    OBVIOUS
  <2>1. CASE Update
    <3>1. row \in Nat /\ row' = row + 1 /\ h' = h /\ message' = message
            /\ signature' = signature /\ regs' = UpdateRow(row, regs)
            /\ regs \in RowType /\ h \in Digests
            /\ message \in Messages /\ signature.x \in Fp6
      BY <2>1, RowsCounted DEF Typed, Update
    <3>2. regs'.hash = HashNext(row, message, regs.hash)
      <4>1. UpdateRow(row, regs).hash = HashNext(row, message, regs.hash)
        BY <3>1, UpdatedRow DEF Doubled, Added, Ended, Hashed
      <4> QED BY <3>1, <4>1
    <3>3. regs'.hash = StateOn(signature.x, message, row + 1)
      BY <3>1, <3>2, StateFollows DEF Follows
    <3>4. ASSUME NEW i \in 1 .. 4 PROVE regs'.limbs[i] = Top(h[i], Left(i, row + 1))
      <4>1. regs.limbs[i] = Top(h[i], Left(i, row))
        BY DEF Follows
      <4> QED BY <3>1, <4>1, LimbsFollow
    <3>5. \A i \in 1 .. 4 : Left(i, row)' = Left(i, row + 1)
      BY <3>1 DEF Left
    <3> QED BY <3>1, <3>3, <3>4, <3>5 DEF Follows
  <2>2. CASE UNCHANGED vars
    BY <2>2 DEF vars, Follows, Left
  <2> QED BY <2>1, <2>2 DEF Next, Filled
<1> QED BY <1>1, <1>2, TypedInvariant, PTL DEF Spec

(* The state hashes to h while its words are fed bit by bit, each complete *)
(* in its register once it has been fed, and h is still in the state on    *)
(* the row that compares them (trace.rs 50-70, 77-96, air.rs 367-372).     *)
THEOREM SchnorrLimbsFollowHash == Spec => []LimbsFollowHash
<1>1. Typed /\ Follows => LimbsFollowHash
  <2> SUFFICES ASSUME Typed, Follows PROVE LimbsFollowHash
    OBVIOUS
  <2>1. row >= TotalHashLength => regs.hash = h \o Zeroes(RateWidth)
    <3>1. row \in Nat /\ TotalHashLength \in Nat
      BY RowsCounted, CycleAssumption DEF Typed, TotalHashLength, Chunks
    <3> QED BY <3>1 DEF Typed, Follows, StateOn
  <2>2. ASSUME NEW i \in 1 .. 4
        PROVE  LET left == BitLength - (row + 1) \div 2 - WordBits * (i - 1)
               IN regs.limbs[i] = IF left >= WordBits THEN 0
                                  ELSE h[i] \div Pow2[IF left < 0 THEN 0 ELSE left]
    BY DEF Follows, Top, Left
  <2> QED BY <2>1, <2>2 DEF LimbsFollowHash
<1> QED BY <1>1, TypedInvariant, FollowsInvariant, PTL

-----------------------------------------------------------------------------
LEMMA SumOfScalars ==
  ASSUME NEW r \in 0 .. (Q - 1), NEW u \in Int
  PROVE  (((r - u) % Q) + u) % Q = r % Q
<1>1. Q \in Nat \ {0}
  BY GroupAssumption
<1> QED BY ONLY <1>1, r \in 0 .. (Q - 1), u \in Int, RemainderReturns

(* A signature made of any message by its key is verified, whatever        *)
(* scalar was drawn (mod.rs 105-126, 183-190).                             *)
THEOREM SchnorrSignedVerifies == Spec => []SignedVerifies
<1>1. Typed => SignedVerifies
  <2> SUFFICES ASSUME Typed, signature \in Signed(message)
               PROVE  VerifySignature(message, signature)
    BY DEF SignedVerifies
  <2> DEFINE sk == Logarithm(KeyOf(message))
  <2>1. message \in Messages
    BY DEF Typed
  <2>2. PICK r \in 0 .. (Q - 1) : signature = Sign(message, sk, r)
    BY DEF Signed
  <2> DEFINE f == FromBits(HashMessage(GetX(r), message))
  <2>3. sk \in Int /\ r \in Int
    BY <2>1, KeyTyped, GroupAssumption
  <2>4. signature.x = GetX(r) /\ signature.s = (r - sk * f) % Q /\ f \in Int
    <3> HIDE DEF sk
    <3> QED BY <2>1, <2>2, <2>3, SignTyped
  <2>5. VerifySignature(message, signature)
          <=> GetX(signature.s + f * sk) = GetX(r)
    BY <2>4 DEF VerifySignature
  <2> HIDE DEF f, sk
  <2>6. f * sk = sk * f /\ sk * f \in Int
    BY <2>3, <2>4
  <2> DEFINE u == sk * f
  <2>7. signature.s = (r - u) % Q /\ u = f * sk /\ u \in Int
    BY <2>4, <2>6
  <2> HIDE DEF u
  <2>8. (((r - u) % Q) + u) % Q = r % Q
    BY <2>7, SumOfScalars
  <2>9. (signature.s + f * sk) % Q = r % Q
    BY <2>7, <2>8
  <2>10. GetX(signature.s + f * sk) = GetX(r)
    BY <2>9 DEF GetX
  <2> QED BY <2>5, <2>10
<1> QED BY <1>1, TypedInvariant, PTL

-----------------------------------------------------------------------------
(* Sums of as many integers as the state has registers.                    *)
Sum14(f) == f[1] + f[2] + f[3] + f[4] + f[5] + f[6] + f[7] + f[8] + f[9] + f[10]
              + f[11] + f[12] + f[13] + f[14]
Plus(u, v) == [i \in Width |-> u[i] + v[i]]
Scaled(c, u) == [i \in Width |-> c * u[i]]
IntVectors == [Width -> Int]

LEMMA Places ==
  /\ 1 \in Width /\ 2 \in Width /\ 3 \in Width /\ 4 \in Width /\ 5 \in Width
  /\ 6 \in Width /\ 7 \in Width /\ 8 \in Width /\ 9 \in Width /\ 10 \in Width
  /\ 11 \in Width /\ 12 \in Width /\ 13 \in Width /\ 14 \in Width
BY DEF Width, StateWidth

LEMMA SumTyped == \A f \in IntVectors : Sum14(f) \in Int
<1> TAKE f \in IntVectors
<1>1. \A i \in Width : f[i] \in Int
  BY DEF IntVectors
<1> QED BY <1>1, Places DEF Sum14

LEMMA SumAdds ==
  ASSUME NEW u \in IntVectors, NEW v \in IntVectors
  PROVE  Plus(u, v) \in IntVectors /\ Sum14(Plus(u, v)) = Sum14(u) + Sum14(v)
<1>1. \A i \in Width : u[i] \in Int /\ v[i] \in Int
  BY DEF IntVectors
<1>2. \A i \in Width : Plus(u, v)[i] = u[i] + v[i]
  BY DEF Plus
<1>3. Plus(u, v) \in IntVectors
  BY <1>1 DEF Plus, IntVectors
<1> QED BY <1>1, <1>2, <1>3, Places DEF Sum14

LEMMA SumScales ==
  ASSUME NEW u \in IntVectors, NEW c \in Int
  PROVE  Scaled(c, u) \in IntVectors /\ Sum14(Scaled(c, u)) = c * Sum14(u)
<1>1. \A i \in Width : u[i] \in Int
  BY DEF IntVectors
<1>2. \A i \in Width : Scaled(c, u)[i] = c * u[i]
  BY DEF Scaled
<1>3. Scaled(c, u) \in IntVectors
  BY <1>1 DEF Scaled, IntVectors
<1>4. Sum14(Scaled(c, u)) = c * Sum14(u)
  <2> DEFINE t(i) == u[i]
             s7 == t(1) + t(2) + t(3) + t(4) + t(5) + t(6) + t(7)
             r7 == t(8) + t(9) + t(10) + t(11) + t(12) + t(13) + t(14)
  <2>1. \A i \in Width : t(i) \in Int
    BY <1>1
  <2> HIDE DEF t
  <2>2. c * s7 = c * t(1) + c * t(2) + c * t(3) + c * t(4) + c * t(5) + c * t(6)
                   + c * t(7)
    BY <2>1, Places
  <2>3. c * r7 = c * t(8) + c * t(9) + c * t(10) + c * t(11) + c * t(12)
                   + c * t(13) + c * t(14)
    BY <2>1, Places
  <2>4. s7 \in Int /\ r7 \in Int
    BY <2>1, Places
  <2>5. Sum14(u) = s7 + r7
    BY <2>1, Places DEF Sum14, t
  <2>6. \A i \in Width : Scaled(c, u)[i] = c * t(i) /\ c * t(i) \in Int
    BY <1>2, <2>1 DEF t
  <2>7. Sum14(Scaled(c, u)) = c * s7 + c * r7
    <3>1. c * s7 \in Int /\ c * r7 \in Int
      BY <2>4
    <3> HIDE DEF s7, r7
    <3> QED BY <2>2, <2>3, <2>6, <3>1, Places DEF Sum14
  <2> HIDE DEF s7, r7
  <2> QED BY <2>4, <2>5, <2>7
<1> QED BY <1>3, <1>4

LEMMA SumSingle ==
  ASSUME NEW u \in IntVectors, NEW i \in Width, \A j \in Width : j # i => u[j] = 0
  PROVE  Sum14(u) = u[i]
<1>1. \A j \in Width : u[j] \in Int
  BY DEF IntVectors
<1> DEFINE t(j) == u[j]
           c == u[i]
<1>2. \A j \in Width : t(j) = IF j = i THEN c ELSE 0
  OBVIOUS
<1>3. c \in Int
  BY <1>1
<1> HIDE DEF t, c
<1>4. /\ t(1) = (IF 1 = i THEN c ELSE 0) /\ t(2) = (IF 2 = i THEN c ELSE 0)
      /\ t(3) = (IF 3 = i THEN c ELSE 0) /\ t(4) = (IF 4 = i THEN c ELSE 0)
      /\ t(5) = (IF 5 = i THEN c ELSE 0) /\ t(6) = (IF 6 = i THEN c ELSE 0)
      /\ t(7) = (IF 7 = i THEN c ELSE 0) /\ t(8) = (IF 8 = i THEN c ELSE 0)
      /\ t(9) = (IF 9 = i THEN c ELSE 0) /\ t(10) = (IF 10 = i THEN c ELSE 0)
      /\ t(11) = (IF 11 = i THEN c ELSE 0) /\ t(12) = (IF 12 = i THEN c ELSE 0)
      /\ t(13) = (IF 13 = i THEN c ELSE 0) /\ t(14) = (IF 14 = i THEN c ELSE 0)
  BY <1>2, Places
<1>5. t(1) + t(2) + t(3) + t(4) + t(5) + t(6) + t(7) + t(8) + t(9) + t(10)
        + t(11) + t(12) + t(13) + t(14) = c
  BY <1>3, <1>4 DEF Width, StateWidth
<1> QED BY <1>5 DEF Sum14, t, c

(* Rows first or columns first.                                            *)
LEMMA SumSwaps ==
  ASSUME NEW A \in [Width -> IntVectors]
  PROVE  Sum14([j \in Width |-> Sum14(A[j])])
           = Sum14([k \in Width |-> Sum14([j \in Width |-> A[j][k]])])
<1>1. \A j \in Width : A[j] \in IntVectors /\ Sum14(A[j]) \in Int
  BY SumTyped
<1> DEFINE g2 == Plus(A[1], A[2])
           g3 == Plus(g2, A[3])
           g4 == Plus(g3, A[4])
           g5 == Plus(g4, A[5])
           g6 == Plus(g5, A[6])
           g7 == Plus(g6, A[7])
           g8 == Plus(g7, A[8])
           g9 == Plus(g8, A[9])
           g10 == Plus(g9, A[10])
           g11 == Plus(g10, A[11])
           g12 == Plus(g11, A[12])
           g13 == Plus(g12, A[13])
           g14 == Plus(g13, A[14])
           Adds(u, v, w) == /\ w \in IntVectors /\ Sum14(w) = Sum14(u) + Sum14(v)
                            /\ \A k \in Width : w[k] = u[k] + v[k]
<1>2. ASSUME NEW u \in IntVectors, NEW v \in IntVectors PROVE Adds(u, v, Plus(u, v))
  BY SumAdds DEF Plus
<1>3. Adds(A[1], A[2], g2)
  BY <1>1, <1>2, Places
<1>4. Adds(g2, A[3], g3)
  <2> HIDE DEF g2
  <2> QED BY <1>1, <1>2, <1>3, Places
<1>5. Adds(g3, A[4], g4)
  <2> HIDE DEF g3
  <2> QED BY <1>1, <1>2, <1>4, Places
<1>6. Adds(g4, A[5], g5)
  <2> HIDE DEF g4
  <2> QED BY <1>1, <1>2, <1>5, Places
<1>7. Adds(g5, A[6], g6)
  <2> HIDE DEF g5
  <2> QED BY <1>1, <1>2, <1>6, Places
<1>8. Adds(g6, A[7], g7)
  <2> HIDE DEF g6
  <2> QED BY <1>1, <1>2, <1>7, Places
<1>9. Adds(g7, A[8], g8)
  <2> HIDE DEF g7
  <2> QED BY <1>1, <1>2, <1>8, Places
<1>10. Adds(g8, A[9], g9)
  <2> HIDE DEF g8
  <2> QED BY <1>1, <1>2, <1>9, Places
<1>11. Adds(g9, A[10], g10)
  <2> HIDE DEF g9
  <2> QED BY <1>1, <1>2, <1>10, Places
<1>12. Adds(g10, A[11], g11)
  <2> HIDE DEF g10
  <2> QED BY <1>1, <1>2, <1>11, Places
<1>13. Adds(g11, A[12], g12)
  <2> HIDE DEF g11
  <2> QED BY <1>1, <1>2, <1>12, Places
<1>14. Adds(g12, A[13], g13)
  <2> HIDE DEF g12
  <2> QED BY <1>1, <1>2, <1>13, Places
<1>15. Adds(g13, A[14], g14)
  <2> HIDE DEF g13
  <2> QED BY <1>1, <1>2, <1>14, Places
<1> HIDE DEF g2, g3, g4, g5, g6, g7, g8, g9, g10, g11, g12, g13, g14
<1>16. Sum14(g14) = Sum14([j \in Width |-> Sum14(A[j])])
  <2> DEFINE s == [j \in Width |-> Sum14(A[j])]
             t(j) == Sum14(A[j])
  <2>1. \A j \in Width : s[j] = t(j) /\ t(j) \in Int
    BY <1>1
  <2>2. Sum14(s) = t(1) + t(2) + t(3) + t(4) + t(5) + t(6) + t(7) + t(8) + t(9)
                     + t(10) + t(11) + t(12) + t(13) + t(14)
    <3> HIDE DEF s, t
    <3> QED BY <2>1, Places DEF Sum14
  <2>3. /\ Sum14(g2) = t(1) + t(2) /\ Sum14(g3) = Sum14(g2) + t(3)
        /\ Sum14(g4) = Sum14(g3) + t(4) /\ Sum14(g5) = Sum14(g4) + t(5)
        /\ Sum14(g6) = Sum14(g5) + t(6) /\ Sum14(g7) = Sum14(g6) + t(7)
        /\ Sum14(g8) = Sum14(g7) + t(8) /\ Sum14(g9) = Sum14(g8) + t(9)
        /\ Sum14(g10) = Sum14(g9) + t(10) /\ Sum14(g11) = Sum14(g10) + t(11)
        /\ Sum14(g12) = Sum14(g11) + t(12) /\ Sum14(g13) = Sum14(g12) + t(13)
        /\ Sum14(g14) = Sum14(g13) + t(14)
    BY <1>3, <1>4, <1>5, <1>6, <1>7, <1>8, <1>9, <1>10, <1>11, <1>12, <1>13, <1>14,
       <1>15
  <2> HIDE DEF s, t
  <2>4. Sum14(g14) = Sum14(s)
    BY <2>1, <2>2, <2>3, Places
  <2> QED BY <2>4 DEF s
<1>17. ASSUME NEW k \in Width PROVE g14[k] = Sum14([j \in Width |-> A[j][k]])
  <2> DEFINE s == [j \in Width |-> A[j][k]]
             t(j) == A[j][k]
  <2>1. \A j \in Width : s[j] = t(j) /\ t(j) \in Int
    BY <1>1 DEF IntVectors
  <2>2. Sum14(s) = t(1) + t(2) + t(3) + t(4) + t(5) + t(6) + t(7) + t(8) + t(9)
                     + t(10) + t(11) + t(12) + t(13) + t(14)
    <3> HIDE DEF s, t
    <3> QED BY <2>1, Places DEF Sum14
  <2>3. /\ g2[k] = t(1) + t(2) /\ g3[k] = g2[k] + t(3)
        /\ g4[k] = g3[k] + t(4) /\ g5[k] = g4[k] + t(5)
        /\ g6[k] = g5[k] + t(6) /\ g7[k] = g6[k] + t(7)
        /\ g8[k] = g7[k] + t(8) /\ g9[k] = g8[k] + t(9)
        /\ g10[k] = g9[k] + t(10) /\ g11[k] = g10[k] + t(11)
        /\ g12[k] = g11[k] + t(12) /\ g13[k] = g12[k] + t(13)
        /\ g14[k] = g13[k] + t(14)
    BY <1>3, <1>4, <1>5, <1>6, <1>7, <1>8, <1>9, <1>10, <1>11, <1>12, <1>13, <1>14,
       <1>15
  <2> HIDE DEF s, t
  <2>4. g14[k] = Sum14(s)
    BY <2>1, <2>2, <2>3, Places
  <2> QED BY <2>4 DEF s
<1>18. g14 = [k \in Width |-> Sum14([j \in Width |-> A[j][k]])]
  <2>1. g14 = [k \in Width |-> g14[k]]
    BY <1>15 DEF IntVectors
  <2> QED BY <1>17, <2>1
<1> QED BY <1>16, <1>18

LEMMA DotIsSum ==
  ASSUME NEW u \in HashState, NEW v \in HashState
  PROVE  /\ [k \in Width |-> u[k] * v[k]] \in IntVectors
         /\ Dot(u, v) = Sum14([k \in Width |-> u[k] * v[k]]) % P
<1>1. \A k \in Width : u[k] \in Int /\ v[k] \in Int
  BY FieldNumbers DEF HashState
<1>2. [k \in Width |-> u[k] * v[k]] \in IntVectors
  BY <1>1 DEF IntVectors
<1>3. Dot(u, v) = Sum14([k \in Width |-> u[k] * v[k]]) % P
  BY Places DEF Dot, Sum14
<1> QED BY <1>2, <1>3

(* A matrix undoes another on every state, as it does on the other's       *)
(* columns.                                                                *)
LEMMA MatricesUndo ==
  ASSUME NEW M \in [Width -> HashState], NEW N \in [Width -> HashState],
         \A i, k \in Width : Dot(N[i], Column(M, k)) = IF i = k THEN 1 ELSE 0,
         NEW v \in HashState, NEW i \in Width
  PROVE  Dot(N[i], [j \in Width |-> Dot(M[j], v)]) = v[i]
<1> DEFINE n(j) == N[i][j]
           m(j, k) == M[j][k]
           x(j) == Sum14([k \in Width |-> m(j, k) * v[k]])
           y(j) == x(j) % P
           q(j) == x(j) \div P
           D(k) == Sum14([j \in Width |-> n(j) * m(j, k)])
           e(k) == D(k) \div P
           one(k) == IF i = k THEN 1 ELSE 0
<1>1. P \in Nat \ {0}
  BY FieldAssumption
<1>2. /\ \A j \in Width : n(j) \in Int /\ v[j] \in Int
      /\ \A j, k \in Width : m(j, k) \in Int
  BY FieldNumbers DEF HashState
<1>3. ASSUME NEW j \in Width
      PROVE  /\ x(j) \in Int /\ q(j) \in Int /\ y(j) = x(j) - P * q(j)
             /\ Dot(M[j], v) = y(j) /\ y(j) \in Field
             /\ [k \in Width |-> m(j, k) * v[k]] \in IntVectors
  <2>1. M[j] \in HashState
    OBVIOUS
  <2>2. /\ [k \in Width |-> m(j, k) * v[k]] \in IntVectors
        /\ Dot(M[j], v) = y(j)
    BY <2>1, DotIsSum
  <2>3. x(j) \in Int
    BY <2>2, SumTyped
  <2> HIDE DEF x
  <2>4. x(j) = P * q(j) + y(j) /\ q(j) \in Int /\ y(j) \in Int
    <3> DEFINE a == x(j)
    <3>1. a \in Int
      BY <2>3
    <3> HIDE DEF a
    <3>2. a = P * (a \div P) + (a % P) /\ a \div P \in Int /\ a % P \in 0 .. (P - 1)
      BY ONLY <1>1, <3>1, Division
    <3>3. a % P \in Int
      BY <1>1, <3>1
    <3> QED BY <3>2, <3>3 DEF a
  <2>5. y(j) \in Field
    BY <2>3, Residue
  <2>6. P * q(j) \in Int
    BY <1>1, <2>4
  <2> HIDE DEF q, y
  <2>7. y(j) = x(j) - P * q(j)
    BY <2>3, <2>4, <2>6
  <2> QED BY <2>2, <2>3, <2>4, <2>5, <2>7 DEF x
<1>4. ASSUME NEW k \in Width
      PROVE  /\ D(k) \in Int /\ e(k) \in Int /\ D(k) = P * e(k) + one(k)
             /\ [j \in Width |-> n(j) * m(j, k)] \in IntVectors
  <2>1. N[i] \in HashState /\ Column(M, k) \in HashState
    BY DEF Column, HashState
  <2>2. [j \in Width |-> N[i][j] * Column(M, k)[j]] = [j \in Width |-> n(j) * m(j, k)]
    BY DEF Column
  <2>3. /\ [j \in Width |-> n(j) * m(j, k)] \in IntVectors
        /\ D(k) % P = one(k)
    <3>1. Dot(N[i], Column(M, k)) = one(k)
      OBVIOUS
    <3> DEFINE a == N[i]
               b == Column(M, k)
               ab == [j \in Width |-> a[j] * b[j]]
    <3>2. ab \in IntVectors /\ Dot(a, b) = Sum14(ab) % P
      <4>1. a \in HashState /\ b \in HashState
        BY <2>1
      <4> HIDE DEF a, b
      <4> QED BY ONLY <4>1, DotIsSum
    <3> QED BY ONLY <2>2, <3>1, <3>2
  <2>4. D(k) \in Int
    BY ONLY <2>3, SumTyped DEF D
  <2> HIDE DEF D
  <2>5. D(k) = P * e(k) + (D(k) % P) /\ e(k) \in Int
    BY ONLY <1>1, <2>4, Division
  <2> QED BY <2>3, <2>4, <2>5 DEF D
<1> DEFINE Y == [j \in Width |-> y(j)]
           A == [j \in Width |-> [k \in Width |-> n(j) * (m(j, k) * v[k])]]
           NX == [j \in Width |-> n(j) * x(j)]
           NQ == [j \in Width |-> n(j) * q(j)]
           VE == [k \in Width |-> v[k] * e(k)]
           VO == [k \in Width |-> v[k] * one(k)]
<1>5. [j \in Width |-> Dot(M[j], v)] = Y /\ Y \in HashState
  BY <1>3 DEF HashState
<1>6. Dot(N[i], Y) = Sum14([j \in Width |-> n(j) * Y[j]]) % P
  <2>1. N[i] \in HashState
    OBVIOUS
  <2> HIDE DEF Y
  <2> QED BY <1>5, <2>1, DotIsSum
<1>7. NX \in IntVectors /\ NQ \in IntVectors
  <2>1. \A j \in Width : n(j) * x(j) \in Int /\ n(j) * q(j) \in Int
    <3> TAKE j \in Width
    <3>1. n(j) \in Int /\ x(j) \in Int /\ q(j) \in Int
      BY <1>2, <1>3
    <3> HIDE DEF n, x, q
    <3> QED BY <3>1
  <2> HIDE DEF n, x, q
  <2> QED BY <2>1 DEF IntVectors
<1>8. VE \in IntVectors /\ VO \in IntVectors
  BY <1>2, <1>4 DEF IntVectors
<1>9. Sum14([j \in Width |-> n(j) * Y[j]]) = Sum14(NX) + (-P) * Sum14(NQ)
  <2>1. [j \in Width |-> n(j) * Y[j]] = Plus(NX, Scaled(-P, NQ))
    <3>1. ASSUME NEW j \in Width
          PROVE  n(j) * Y[j] = n(j) * x(j) + (-P) * (n(j) * q(j))
      <4>1. Y[j] = x(j) - P * q(j) /\ x(j) \in Int /\ q(j) \in Int /\ n(j) \in Int
        BY <1>2, <1>3
      <4> HIDE DEF n, x, q, Y
      <4> QED BY <1>1, <4>1
    <3> HIDE DEF n, x, q, Y
    <3> QED BY <3>1 DEF Plus, Scaled
  <2>2. -P \in Int
    BY <1>1
  <2> HIDE DEF NX, NQ
  <2>3. /\ Scaled(-P, NQ) \in IntVectors
        /\ Sum14(Scaled(-P, NQ)) = (-P) * Sum14(NQ)
    BY <1>7, <2>2, SumScales
  <2> QED BY <1>7, <2>1, <2>3, SumAdds
<1>10. Sum14(NX) = P * Sum14(VE) + Sum14(VO)
  <2>1. A \in [Width -> IntVectors]
    BY <1>2 DEF IntVectors
  <2>2. NX = [j \in Width |-> Sum14(A[j])]
    <3>1. ASSUME NEW j \in Width PROVE n(j) * x(j) = Sum14(A[j])
      <4> DEFINE u == [k \in Width |-> m(j, k) * v[k]]
      <4>1. u \in IntVectors /\ n(j) \in Int
        BY <1>2, <1>3
      <4>2. A[j] = Scaled(n(j), u)
        BY DEF Scaled
      <4>3. Sum14(Scaled(n(j), u)) = n(j) * Sum14(u)
        <5> HIDE DEF u, n
        <5> QED BY <4>1, SumScales
      <4> QED BY <4>2, <4>3
    <3> HIDE DEF A, n, x
    <3> QED BY <3>1
  <2>3. Sum14(NX) = Sum14([k \in Width |-> Sum14([j \in Width |-> A[j][k]])])
    <3> HIDE DEF A, NX
    <3> QED BY <2>1, <2>2, SumSwaps
  <2>4. [k \in Width |-> Sum14([j \in Width |-> A[j][k]])] = Plus(Scaled(P, VE), VO)
    <3>1. ASSUME NEW k \in Width
          PROVE  Sum14([j \in Width |-> A[j][k]]) = P * (v[k] * e(k)) + v[k] * one(k)
      <4> DEFINE w == [j \in Width |-> n(j) * m(j, k)]
      <4>1. w \in IntVectors /\ v[k] \in Int /\ e(k) \in Int /\ one(k) \in Int
              /\ Sum14(w) = P * e(k) + one(k)
        BY <1>2, <1>4
      <4>2. [j \in Width |-> A[j][k]] = Scaled(v[k], w)
        <5>1. ASSUME NEW j \in Width
              PROVE  n(j) * (m(j, k) * v[k]) = v[k] * (n(j) * m(j, k))
          <6>1. n(j) \in Int /\ m(j, k) \in Int /\ v[k] \in Int
            BY <1>2
          <6> HIDE DEF n, m
          <6> QED BY <6>1
        <5>2. \A j \in Width : A[j][k] = n(j) * (m(j, k) * v[k])
                                /\ w[j] = n(j) * m(j, k)
          OBVIOUS
        <5> HIDE DEF A, n, m, w
        <5> QED BY <5>1, <5>2 DEF Scaled
      <4> HIDE DEF w, e, one
      <4>3. Sum14(Scaled(v[k], w)) = v[k] * Sum14(w)
        BY <4>1, SumScales
      <4>4. v[k] * (P * e(k) + one(k)) = P * (v[k] * e(k)) + v[k] * one(k)
        BY <1>1, <4>1
      <4> HIDE DEF A
      <4> QED BY <4>1, <4>2, <4>3, <4>4
    <3> HIDE DEF A, e, one
    <3> QED BY <3>1 DEF Plus, Scaled
  <2>5. /\ Scaled(P, VE) \in IntVectors /\ Sum14(Scaled(P, VE)) = P * Sum14(VE)
    <3>1. P \in Int
      BY <1>1
    <3> HIDE DEF VE
    <3> QED BY <1>8, <3>1, SumScales
  <2>6. Sum14(Plus(Scaled(P, VE), VO)) = P * Sum14(VE) + Sum14(VO)
    <3> HIDE DEF VE, VO
    <3> QED BY <1>8, <2>5, SumAdds
  <2> HIDE DEF A, NX, VE, VO
  <2> QED BY <2>3, <2>4, <2>6
<1>11. Sum14(VO) = v[i]
  <2>1. \A k \in Width : k # i => VO[k] = 0
    BY <1>2
  <2>2. VO[i] = v[i]
    BY <1>2
  <2> HIDE DEF VO
  <2> QED BY <1>8, <2>1, <2>2, SumSingle
<1>12. (P * Sum14(VE) + v[i] + (-P) * Sum14(NQ)) % P = v[i]
  <2> DEFINE a == Sum14(VE)
             b == Sum14(NQ)
             c == v[i]
             t == a - b
  <2>1. a \in Int /\ b \in Int
    BY <1>7, <1>8, SumTyped
  <2>2. c \in 0 .. (P - 1)
    BY DEF HashState, Field
  <2> HIDE DEF a, b, c
  <2>3. P * a + c + (-P) * b = P * t + c /\ t \in Int
    BY <1>1, <2>1, <2>2
  <2> HIDE DEF t
  <2>4. (P * t + c) % P = c
    BY <1>1, <2>2, <2>3
  <2>5. (P * a + c + (-P) * b) % P = c
    BY <2>3, <2>4
  <2> QED BY <2>5 DEF a, b, c
<1> HIDE DEF Y, NX, NQ, VE, VO, n
<1> QED BY <1>5, <1>6, <1>9, <1>10, <1>11, <1>12

LEMMA LayersUndo ==
  ASSUME NEW v \in HashState
  PROVE  /\ ApplyInvMds(ApplyMds(v)) = v /\ ApplyMds(ApplyInvMds(v)) = v
         /\ ApplySbox(ApplyInvSbox(v)) = v /\ ApplyInvSbox(ApplySbox(v)) = v
<1>1. v = [i \in Width |-> v[i]] /\ \A i \in Width : v[i] \in Field
  BY DEF HashState
<1>2. /\ MDS \in [Width -> HashState] /\ INV_MDS \in [Width -> HashState]
      /\ \A i, k \in Width :
           Dot(INV_MDS[i], Column(MDS, k)) = IF i = k THEN 1 ELSE 0
      /\ \A i, k \in Width :
           Dot(MDS[i], Column(INV_MDS, k)) = IF i = k THEN 1 ELSE 0
  BY MdsAssumption
<1>3. ApplyInvMds(ApplyMds(v)) = v
  <2>1. \A i \in Width : Dot(INV_MDS[i], ApplyMds(v)) = v[i]
    BY <1>2, MatricesUndo DEF ApplyMds
  <2> QED BY <1>1, <2>1 DEF ApplyInvMds
<1>4. ApplyMds(ApplyInvMds(v)) = v
  <2>1. \A i \in Width : Dot(MDS[i], ApplyInvMds(v)) = v[i]
    BY <1>2, MatricesUndo DEF ApplyInvMds
  <2> QED BY <1>1, <2>1 DEF ApplyMds
<1>5. ApplySbox(ApplyInvSbox(v)) = v /\ ApplyInvSbox(ApplySbox(v)) = v
  <2>1. \A i \in Width : Cube(CubeRoot[v[i]]) = v[i] /\ CubeRoot[Cube(v[i])] = v[i]
    BY <1>1, AlphaAssumption
  <2>2. ApplySbox(ApplyInvSbox(v)) = [i \in Width |-> Cube(CubeRoot[v[i]])]
    BY DEF ApplySbox, ApplyInvSbox
  <2>3. ApplyInvSbox(ApplySbox(v)) = [i \in Width |-> CubeRoot[Cube(v[i])]]
    BY DEF ApplySbox, ApplyInvSbox
  <2> HIDE DEF Cube
  <2> QED BY <1>1, <2>1, <2>2, <2>3
<1> QED BY <1>3, <1>4, <1>5

LEMMA SumsUndo ==
  ASSUME NEW v \in HashState, NEW c \in HashState
  PROVE  Sub(Add(v, c), c) = v /\ Add(Sub(v, c), c) = v
<1>1. v = [i \in Width |-> v[i]] /\ DOMAIN v = Width
  BY DEF HashState
<1>2. ASSUME NEW x \in Field, NEW y \in Field
      PROVE  (((x + y) % P) - y) % P = x /\ (((x - y) % P) + y) % P = x
  <2>1. x \in 0 .. (P - 1) /\ y \in 0 .. (P - 1) /\ P \in Nat \ {0}
    BY FieldAssumption DEF Field
  <2>2. (x + y) % P = IF x + y < P THEN x + y ELSE x + y - P
    BY <2>1
  <2>3. (x - y) % P = IF x - y < 0 THEN x - y + P ELSE x - y
    BY <2>1
  <2> QED BY <2>1, <2>2, <2>3
<1>3. \A i \in Width : v[i] \in Field /\ c[i] \in Field
  BY DEF HashState
<1>4. Sub(Add(v, c), c) = [i \in Width |-> (((v[i] + c[i]) % P) - c[i]) % P]
  BY <1>1 DEF Sub, Add
<1>5. Add(Sub(v, c), c) = [i \in Width |-> (((v[i] - c[i]) % P) + c[i]) % P]
  BY <1>1 DEF Sub, Add
<1> QED BY <1>1, <1>2, <1>3, <1>4, <1>5

(* The constraint of a round, which meets in the middle of it, is met by   *)
(* the next state of the trace and by no other (rescue.rs, apply_round and *)
(* enforce_round).                                                         *)
THEOREM EnforcedRoundIsApplied ==
  ASSUME NEW cur \in HashState, NEW next \in HashState, NEW step \in Nat
  PROVE  EnforceRound(cur, next, step) <=> next = ApplyRound(cur, step)
<1> DEFINE half == Add(ApplyMds(ApplySbox(cur)), FirstArk(step))
           c == SecondArk(step)
           d == Sub(next, c)
<1>1. c \in HashState /\ FirstArk(step) \in HashState
  BY ArkTyped
<1>2. ApplyMds(ApplySbox(cur)) \in HashState
  BY LayersTyped
<1>3. half \in HashState
  BY <1>1, <1>2, VectorsTyped DEF HashState, Width, StateWidth
<1>4. EnforceRound(cur, next, step) <=> ApplySbox(ApplyInvMds(d)) = half
  BY DEF EnforceRound
<1>5. ApplyRound(cur, step) = Add(ApplyMds(ApplyInvSbox(half)), c)
  BY DEF ApplyRound
<1> HIDE DEF half, c
<1>6. d \in HashState
  BY <1>1, VectorsTyped DEF HashState, Width, StateWidth
<1>7. ApplyInvSbox(half) \in HashState /\ ApplyInvMds(d) \in HashState
  BY <1>3, <1>6, LayersTyped
<1>8. ApplyMds(ApplyInvSbox(half)) \in HashState
  BY <1>7, LayersTyped
<1>9. ASSUME next = ApplyRound(cur, step) PROVE ApplySbox(ApplyInvMds(d)) = half
  <2>1. d = ApplyMds(ApplyInvSbox(half))
    BY <1>1, <1>5, <1>8, <1>9, SumsUndo
  <2>2. ApplyInvMds(d) = ApplyInvSbox(half)
    BY <1>7, <2>1, LayersUndo
  <2> QED BY <1>3, <2>2, LayersUndo
<1>10. ASSUME ApplySbox(ApplyInvMds(d)) = half PROVE next = ApplyRound(cur, step)
  <2>1. ApplyInvSbox(half) = ApplyInvMds(d)
    BY <1>7, <1>10, LayersUndo
  <2>2. ApplyMds(ApplyInvSbox(half)) = d
    BY <1>6, <2>1, LayersUndo
  <2> QED BY <1>1, <1>5, <2>2, SumsUndo
<1> QED BY <1>4, <1>9, <1>10

-----------------------------------------------------------------------------
(* The constraints on the builder's rows.                                  *)
LEMMA HalvesJoin ==
  ASSUME NEW a \in Digests, NEW b \in Digests
  PROVE  /\ DigestOf(a \o b) = a
         /\ \A c \in Digests : a \o b = a \o c => b = c
<1> DEFINE n == 7
           j == a \o b
<1>1. n \in Nat /\ a \in [1 .. n -> Field] /\ b \in [1 .. n -> Field]
  BY DEF Digests, RateWidth
<1>2. DigestOf(j) = a
  <2> DEFINE z == 0
             w == 14
  <2>1. j \in [1 .. w -> Field]
    BY HalvesTyped DEF HashState, Width, StateWidth
  <2>2. z \in Nat /\ w \in Nat /\ z + n <= w
    OBVIOUS
  <2>3. ASSUME NEW k \in 1 .. n PROVE j[k] = a[k]
    <3> HIDE DEF n
    <3> QED BY ONLY <1>1, k \in 1 .. n, VectorJoin
  <2> HIDE DEF n, j, z, w
  <2>4. SubSeq(j, z + 1, z + n) \in [1 .. n -> Field]
    BY ONLY <1>1, <2>1, <2>2, VectorSlice
  <2>5. ASSUME NEW k \in 1 .. n PROVE SubSeq(j, z + 1, z + n)[k] = j[z + k]
    BY ONLY <1>1, <2>1, <2>2, k \in 1 .. n, VectorSlice
  <2>6. SubSeq(j, z + 1, z + n) = a
    <3>1. \A k \in 1 .. n : z + k = k
      BY <1>1 DEF z
    <3>2. \A k \in 1 .. n : SubSeq(j, z + 1, z + n)[k] = a[k]
      BY <2>3, <2>5, <3>1
    <3> DEFINE s == SubSeq(j, z + 1, z + n)
    <3>3. s \in [1 .. n -> Field] /\ \A k \in 1 .. n : s[k] = a[k]
      BY <2>4, <3>2
    <3> HIDE DEF s
    <3>4. s = a
      BY <1>1, <3>3
    <3> QED BY <3>4 DEF s
  <2>7. DigestOf(j) = SubSeq(j, z + 1, z + n)
    BY DEF DigestOf, RateWidth, z, n
  <2> QED BY <2>6, <2>7
<1>3. ASSUME NEW c \in Digests, j = a \o c PROVE b = c
  <2>1. c \in [1 .. n -> Field]
    BY DEF Digests, RateWidth
  <2> HIDE DEF n
  <2>2. ASSUME NEW k \in 1 .. n PROVE b[k] = c[k]
    <3>1. (a \o b)[n + k] = b[k]
      BY ONLY <1>1, k \in 1 .. n, VectorJoin
    <3>2. (a \o c)[n + k] = c[k]
      BY ONLY <1>1, <2>1, k \in 1 .. n, VectorJoin
    <3> QED BY <1>3, <3>1, <3>2 DEF j
  <2> QED BY <1>1, <2>1, <2>2
<1> QED BY <1>2, <1>3 DEF j

LEMMA HashObeys ==
  ASSUME Typed, Follows
  PROVE  LET new == UpdateRow(row, regs)
         IN /\ HashMask(row) => EnforceRound(regs.hash, new.hash, row)
            /\ GlobalMask(row) /\ ~HashMask(row)
                 => EnforceHashCopy(regs.hash, new.hash, InternalInputs(message, row))
            /\ regs.hash \in HashState
<1> DEFINE new == UpdateRow(row, regs)
           cur == regs.hash
<1>1. row \in Nat /\ regs \in RowType /\ cur \in HashState /\ message \in Messages
        /\ h \in Digests /\ h = HashMessage(signature.x, message)
  BY RowsCounted, RowParts DEF Typed
<1>2. new.hash = HashNext(row, message, cur) /\ new.hash \in HashState
  <2>1. new.hash = HashNext(row, message, cur)
    BY <1>1, UpdatedRow DEF Doubled, Added, Ended, Hashed
  <2> QED BY <1>1, <2>1, HashNextTyped
<1>3. /\ Cycle \in Nat \ {0} /\ Rounds \in Nat \ {0} /\ Cycle = Rounds + 1
      /\ TotalHashLength = 5 * Cycle /\ Chunks * Cycle = 4 * Cycle
      /\ row % Cycle \in 0 .. Rounds
  BY <1>1, CycleAssumption DEF TotalHashLength, Chunks
<1> HIDE DEF new, cur
<1>4. CASE row < TotalHashLength /\ row % Cycle < Rounds
  <2>1. new.hash = ApplyRound(cur, row)
    <3>1. HashStep(row, message, cur) = ApplyRound(cur, row)
      <4>1. row % Cycle < Rounds /\ ~(row % Cycle = Rounds)
        BY <1>3, <1>4
      <4> QED BY <4>1 DEF HashStep
    <3> QED BY <1>2, <1>4, <3>1 DEF HashNext
  <2>2. EnforceRound(cur, new.hash, row)
    BY <1>1, <1>2, <2>1, EnforcedRoundIsApplied
  <2> QED BY <1>1, <1>4, <2>2 DEF HashMask, new, cur
<1>5. CASE row < TotalHashLength /\ ~(row % Cycle < Rounds)
  <2>1. row % Cycle = Rounds /\ ~HashMask(row)
    BY <1>3, <1>5 DEF HashMask
  <2>2. new.hash = DigestOf(cur) \o InternalInputs(message, row)
    <3>1. CASE row < Chunks * Cycle
      <4>1. HashStep(row, message, cur) = DigestOf(cur) \o Chunk(message, row \div Cycle)
        BY <1>5, <2>1, <3>1 DEF HashStep
      <4> QED BY <1>2, <1>5, <2>1, <3>1, <4>1 DEF HashNext, InternalInputs
    <3>2. CASE ~(row < Chunks * Cycle)
      <4>1. HashStep(row, message, cur) = DigestOf(cur) \o Zeroes(RateWidth)
        BY <1>5, <2>1, <3>2 DEF HashStep
      <4> QED BY <1>2, <1>5, <2>1, <3>2, <4>1 DEF HashNext, InternalInputs
    <3> QED BY <3>1, <3>2
  <2> QED BY <1>1, <2>1, <2>2 DEF EnforceHashCopy, new, cur
<1>6. CASE ~(row < TotalHashLength)
  <2>1. ~HashMask(row)
    BY <1>6 DEF HashMask
  <2>2. cur = h \o Zeroes(RateWidth)
    BY <1>1, <1>6 DEF Follows, StateOn, cur
  <2>3. new.hash = cur
    BY <1>2, <1>6 DEF HashNext
  <2>4. InternalInputs(message, row) = Zeroes(RateWidth)
    <3>1. ~(row < Chunks * Cycle)
      BY <1>1, <1>3, <1>6
    <3> QED BY <3>1 DEF InternalInputs
  <2>5. DigestOf(cur) = h
    BY <1>1, <2>2, HalvesTyped, HalvesJoin
  <2> QED BY <1>1, <2>1, <2>2, <2>3, <2>4, <2>5 DEF EnforceHashCopy, new, cur
<1> QED BY <1>4, <1>5, <1>6

LEMMA BlendPicks ==
  ASSUME NEW b \in {0, 1}, NEW new \in Fp6, NEW old \in Fp6
  PROVE  Blend(b, new, old) = IF b = 1 THEN new ELSE old
<1>1. /\ old = [i \in 1 .. 6 |-> old[i]] /\ new = [i \in 1 .. 6 |-> new[i]]
      /\ DOMAIN old = 1 .. 6
      /\ \A i \in 1 .. 6 : old[i] \in Field /\ new[i] \in Field
  BY DEF Fp6
<1>2. \A x, y \in Field : /\ (1 * x + (1 - 1) * y) % P = x
                         /\ (0 * x + (1 - 0) * y) % P = y
  <2> TAKE x, y \in Field
  <2>1. P \in Nat \ {0} /\ x \in 0 .. (P - 1) /\ y \in 0 .. (P - 1)
    BY FieldAssumption DEF Field
  <2>2. 1 * x + (1 - 1) * y = x /\ 0 * x + (1 - 0) * y = y
    BY <2>1
  <2> QED BY <2>1, <2>2
<1>3. CASE b = 1
  <2>1. Blend(1, new, old) = [i \in 1 .. 6 |-> (1 * new[i] + (1 - 1) * old[i]) % P]
    BY <1>1 DEF Blend
  <2> QED BY <1>1, <1>2, <1>3, <2>1
<1>4. CASE b = 0
  <2>1. Blend(0, new, old) = [i \in 1 .. 6 |-> (0 * new[i] + (1 - 0) * old[i]) % P]
    BY <1>1 DEF Blend
  <2> QED BY <1>1, <1>2, <1>4, <2>1
<1> QED BY <1>3, <1>4

LEMMA MixedObeys ==
  ASSUME NEW lane \in Lane, NEW r \in Affine
  PROVE  EnforcePointAdditionMixed(lane, Mixed(lane.point, lane.bit, r), r)
<1> DEFINE b == lane.bit
           p == lane.point
           sum == ComputeAddMixed(p, r)
           new == Mixed(p, b, r)
<1>1. p \in Projective /\ b \in {0, 1} /\ sum \in Projective
  BY LaneParts, SumsTyped
<1>2. new.point = (IF b = 1 THEN sum ELSE p) /\ new.bit = b
  BY DEF Mixed
<1> HIDE DEF sum, new
<1>3. ASSUME NEW c \in {"x", "y", "z"}
      PROVE  new.point[c] = Blend(b, sum[c], p[c])
  <2>1. sum[c] \in Fp6 /\ p[c] \in Fp6
    BY <1>1, CoordinatesTyped
  <2>2. Blend(b, sum[c], p[c]) = IF b = 1 THEN sum[c] ELSE p[c]
    BY <1>1, <2>1, BlendPicks
  <2> QED BY <1>2, <2>2
<1> QED BY <1>2, <1>3 DEF EnforcePointAdditionMixed, sum, new

LEMMA DoubledObeys ==
  ASSUME NEW lane \in Lane, NEW next, next.point = ComputeDouble(lane.point)
  PROVE  EnforcePointDoubling(lane, next)
<1>1. lane.bit \in {0, 1}
  BY LaneParts
<1>2. (lane.bit * lane.bit - lane.bit) % P = 0
  <2>1. lane.bit * lane.bit - lane.bit = 0
    BY <1>1
  <2> QED BY <2>1, FieldAssumption
<1> QED BY <1>2 DEF EnforcePointDoubling, IsBinary

(* The word a bit is added to is the one whose mask is set.                *)
LEMMA MaskOfWord ==
  ASSUME NEW b \in 0 .. (BitLength - 1), NEW i \in 0 .. 3
  PROVE  LimbMask(2 * b, i) <=> i = WordFed(b)
<1> DEFINE W == WordBits
           c == b - (W - 1)
           q == c \div W
           r == c % W
<1>1. W \in Nat /\ W > 1 /\ b \in Nat
  BY WordAssumption
<1>2. b <= 4 * W - 2
  BY <1>1 DEF BitLength
<1>3. LimbStart(0) = 0 /\ LimbStart(1) = 2 * (W - 1) /\ LimbStart(2) = 2 * (2 * W - 1)
        /\ LimbStart(3) = 2 * (3 * W - 1) /\ LimbStart(4) = 2 * (4 * W - 1)
  BY <1>1 DEF LimbStart
<1>4. i = 0 \/ i = 1 \/ i = 2 \/ i = 3
  OBVIOUS
<1>5. /\ 0 + 1 = 1 /\ 1 + 1 = 2 /\ 2 + 1 = 3 /\ 3 + 1 = 4
  OBVIOUS
<1>6. /\ LimbMask(2 * b, 0) <=> b < W - 1
      /\ LimbMask(2 * b, 1) <=> W - 1 <= b /\ b < 2 * W - 1
      /\ LimbMask(2 * b, 2) <=> 2 * W - 1 <= b /\ b < 3 * W - 1
      /\ LimbMask(2 * b, 3) <=> 3 * W - 1 <= b
  <2> HIDE DEF W
  <2> QED BY <1>1, <1>2, <1>3, <1>5 DEF LimbMask
<1>7. CASE b < W - 1
  <2>1. WordFed(b) = 0
    BY <1>7 DEF WordFed
  <2> HIDE DEF W
  <2> QED BY <1>1, <1>4, <1>6, <1>7, <2>1
<1>8. CASE ~(b < W - 1)
  <2>1. WordFed(b) = q + 1
    BY <1>8 DEF WordFed
  <2>2. c \in Nat /\ W \in Nat \ {0} /\ c = b + 1 - W
    BY <1>1, <1>8
  <2> HIDE DEF W, c
  <2>3. CASE b < 2 * W - 1
    <3>1. c \div W = 0
      BY <1>1, <2>2, <2>3
    <3> QED BY <1>1, <1>4, <1>6, <1>8, <2>1, <2>3, <3>1
  <2>4. CASE 2 * W - 1 <= b /\ b < 3 * W - 1
    <3> DEFINE s == c - W
    <3>1. c = W * 1 + s /\ s \in 0 .. (W - 1)
      BY <1>1, <2>2, <2>4
    <3> HIDE DEF s
    <3>2. c \div W = 1
      BY <2>2, <3>1
    <3> QED BY <1>1, <1>4, <1>6, <1>8, <2>1, <2>4, <3>2
  <2>5. CASE 3 * W - 1 <= b
    <3> DEFINE s == c - 2 * W
    <3>1. c = W * 2 + s /\ s \in 0 .. (W - 1)
      BY <1>1, <1>2, <2>2, <2>5
    <3> HIDE DEF s
    <3>2. c \div W = 2
      BY <2>2, <3>1
    <3> QED BY <1>1, <1>4, <1>6, <1>8, <2>1, <2>5, <3>2
  <2> QED BY <1>1, <2>3, <2>4, <2>5
<1> QED BY <1>7, <1>8

(* The bits a row was given stay for the sum that follows.                 *)
BitsKept ==
  row % 2 = 1 /\ row < ScalarMulLength =>
    /\ regs.sG.bit = ScalarBit(signature.s, BitLength - 1 - (row \div 2))
    /\ regs.hP.bit = HashBit(h, BitLength - 1 - (row \div 2))

LEMMA BitsInvariant == Spec => []BitsKept
<1>1. Init => BitsKept
  BY DEF Init, BitsKept
<1>2. Typed /\ BitsKept /\ [Next]_vars => BitsKept'
  <2> SUFFICES ASSUME Typed, BitsKept, [Next]_vars PROVE BitsKept'
    OBVIOUS
  <2>1. CASE Update
    <3> DEFINE b == row \div 2
    <3>1. row \in Nat /\ row' = row + 1 /\ h' = h /\ signature' = signature
            /\ regs' = UpdateRow(row, regs) /\ regs \in RowType
      BY <2>1, RowsCounted DEF Typed, Update
    <3>2. ScalarMulLength \in Int
      BY RowsCounted
    <3>3. CASE row % 2 = 0 /\ row < ScalarMulLength
      <4>1. regs' = Doubled(row, regs)
        BY <3>1, <3>3, UpdatedRow
      <4>2. /\ regs'.sG.bit = ScalarBit(signature.s, BitLength - 1 - b)
            /\ regs'.hP.bit = HashBit(h, BitLength - 1 - b)
        BY <4>1 DEF Doubled
      <4>3. row' \div 2 = b
        BY <3>1, <3>3
      <4> QED BY <3>1, <4>2, <4>3 DEF BitsKept
    <3>4. CASE row % 2 # 0 \/ ~(row < ScalarMulLength)
      <4>1. ~(row' % 2 = 1 /\ row' < ScalarMulLength)
        BY <3>1, <3>2, <3>4
      <4> QED BY <4>1 DEF BitsKept
    <3> QED BY <3>3, <3>4
  <2>2. CASE UNCHANGED vars
    BY <2>2 DEF vars, BitsKept
  <2> QED BY <2>1, <2>2 DEF Next, Filled
<1> QED BY <1>1, <1>2, TypedInvariant, PTL DEF Spec

LEMMA StepObeys ==
  ASSUME Typed, Follows, BitsKept, row < ScalarMulLength
  PROVE  TransitionHolds(row, regs, UpdateRow(row, regs), message)
<1> DEFINE new == UpdateRow(row, regs)
           b == row \div 2
           k == BitLength - 1 - b
           kb == ScalarBit(signature.s, k)
           wb == HashBit(h, k)
<1>1. row \in Nat /\ regs \in RowType /\ message \in Messages /\ h \in Digests
        /\ regs.sG \in Lane /\ regs.hP \in Lane /\ regs.limbs \in [1 .. 4 -> Field]
  BY RowsCounted, RowParts DEF Typed
<1>2. ScalarMulLength = 2 * BitLength /\ BitLength \in Nat
        /\ b \in 0 .. (BitLength - 1)
  BY <1>1, RowsCounted
<1>3. /\ HashMask(row) => EnforceRound(regs.hash, new.hash, row)
      /\ GlobalMask(row) /\ ~HashMask(row)
           => EnforceHashCopy(regs.hash, new.hash, InternalInputs(message, row))
  BY HashObeys
<1>4. G \in Affine /\ KeyOf(message) \in Affine
  <2>1. 1 \in 1 .. (Q - 1)
    BY GroupAssumption
  <2> QED BY <1>1, <2>1, KeyTyped, MultiplesTyped DEF G
<1>5. ASSUME DoublingMask(row)
      PROVE  /\ EnforcePointDoubling(regs.sG, new.sG)
             /\ EnforcePointDoubling(regs.hP, new.hP)
             /\ LimbsHold(row, regs, new)
  <2>1. new = Doubled(row, regs)
    BY <1>1, <1>5, UpdatedRow DEF DoublingMask
  <2> DEFINE word == 4 - WordFed(b)
  <2>2. /\ new.sG.point = ComputeDouble(regs.sG.point)
        /\ new.hP.point = ComputeDouble(regs.hP.point)
        /\ new.hP.bit = wb
        /\ new.limbs = [regs.limbs EXCEPT ![word] = (2 * regs.limbs[word] + wb) % P]
    BY <2>1 DEF Doubled
  <2>3. row = 2 * b
    BY <1>1, <1>5 DEF DoublingMask
  <2> HIDE DEF new, b, wb
  <2>4. WordFed(b) \in 0 .. 3
    BY <1>2, BitPlace
  <2>5. ASSUME NEW i \in 0 .. 3
        PROVE  new.limbs[4 - i] = IF LimbMask(row, i)
                                  THEN (2 * regs.limbs[4 - i] + new.hP.bit) % P
                                  ELSE regs.limbs[4 - i]
    <3>1. LimbMask(row, i) <=> i = WordFed(b)
      BY <1>2, <2>3, MaskOfWord
    <3>2. 4 - i \in 1 .. 4 /\ (4 - i = word <=> i = WordFed(b))
      BY <2>4
    <3> HIDE DEF word
    <3>3. new.limbs[4 - i] = IF 4 - i = word THEN (2 * regs.limbs[word] + wb) % P
                             ELSE regs.limbs[4 - i]
      BY <1>1, <2>2, <3>2
    <3> QED BY <2>2, <3>1, <3>2, <3>3
  <2>6. LimbsHold(row, regs, new)
    BY <2>5 DEF LimbsHold
  <2> QED BY <1>1, <2>2, <2>6, DoubledObeys
<1>6. ASSUME AdditionMask(row)
      PROVE  /\ EnforcePointAdditionMixed(regs.sG, new.sG, G)
             /\ EnforcePointAdditionMixed(regs.hP, new.hP, KeyOf(message))
             /\ new.limbs = regs.limbs
  <2>1. new = Added(row, regs)
    <3>1. row < ScalarMulLength /\ ~(row % 2 = 0)
      BY <1>1, <1>6 DEF AdditionMask
    <3> QED BY <1>1, <3>1, UpdatedRow
  <2>2. regs.sG.bit = kb /\ regs.hP.bit = wb
    BY <1>6 DEF AdditionMask, BitsKept
  <2>3. /\ new.sG = Mixed(regs.sG.point, kb, G)
        /\ new.hP = Mixed(regs.hP.point, wb, KeyOf(message))
        /\ new.limbs = regs.limbs
    BY <2>1 DEF Added
  <2> HIDE DEF new, kb, wb
  <2> QED BY <1>1, <1>4, <2>2, <2>3, MixedObeys
<1>7. ~FinalMask(row)
  BY <1>1, <1>2 DEF FinalMask
<1> HIDE DEF new
<1> QED BY <1>3, <1>5, <1>6, <1>7 DEF TransitionHolds, new

LEMMA StartAsserted ==
  ASSUME NEW x \in Fp6, NEW y \in Fp6
  PROVE  FirstAsserted(FirstRow(x), y) <=> y = x
<1> DEFINE s == x \o Zeroes(StateWidth - 6)
           z == 0
           n == 6
           m == 7
           w == 14
<1>1. s \in [1 .. 14 -> Field] /\ s = [i \in 1 .. 14 |-> IF i <= 6 THEN x[i] ELSE 0]
  BY SixPadded DEF HashState, Width, StateWidth
<1> HIDE DEF s
<1>2. s \in [1 .. w -> Field] /\ \A i \in 1 .. 14 : s[i] = IF i <= 6 THEN x[i] ELSE 0
  BY <1>1
<1>3. z \in Nat /\ n \in Nat /\ m \in Nat /\ w \in Nat /\ z + n <= w /\ n + m <= w
  OBVIOUS
<1>4. SubSeq(s, 1, 6) = x
  <2> DEFINE t == SubSeq(s, z + 1, z + n)
  <2>1. t \in [1 .. n -> Field]
    <3> HIDE DEF z, n, w
    <3> QED BY ONLY <1>2, <1>3, VectorSlice
  <2>2. ASSUME NEW k \in 1 .. n PROVE t[k] = s[z + k]
    <3> HIDE DEF z, n, w
    <3> QED BY ONLY <1>2, <1>3, k \in 1 .. n, VectorSlice
  <2>3. t = SubSeq(s, 1, 6)
    OBVIOUS
  <2> HIDE DEF t
  <2>4. \A k \in 1 .. 6 : t[k] = x[k]
    BY <1>2, <2>2
  <2>5. x \in [1 .. 6 -> Field] /\ t \in [1 .. 6 -> Field]
    BY <2>1 DEF Fp6
  <2>6. t = x
    BY <2>4, <2>5
  <2> QED BY <2>3, <2>6
<1>5. SubSeq(s, 7, 13) = Zeroes(RateWidth)
  <2> DEFINE t == SubSeq(s, n + 1, n + m)
  <2>1. t \in [1 .. m -> Field]
    <3> HIDE DEF m, n, w
    <3> QED BY ONLY <1>2, <1>3, VectorSlice
  <2>2. ASSUME NEW k \in 1 .. m PROVE t[k] = s[n + k]
    <3> HIDE DEF m, n, w
    <3> QED BY ONLY <1>2, <1>3, k \in 1 .. m, VectorSlice
  <2>3. t = SubSeq(s, 7, 13)
    OBVIOUS
  <2> HIDE DEF t
  <2>4. ASSUME NEW k \in 1 .. 7 PROVE t[k] = 0
    <3>1. 6 + k \in 1 .. 14 /\ ~(6 + k <= 6)
      OBVIOUS
    <3> QED BY <1>2, <2>2, <3>1
  <2>5. t = [k \in 1 .. 7 |-> 0]
    BY <2>1, <2>4
  <2> QED BY <2>3, <2>5 DEF Zeroes, RateWidth
<1>6. FirstRow(x).hash = s
  BY DEF FirstRow, s
<1>7. /\ FirstRow(x).sG = StartLane /\ FirstRow(x).hP = StartLane
      /\ FirstRow(x).limbs = Zeroes(4)
  BY DEF FirstRow
<1> QED BY <1>4, <1>5, <1>6, <1>7 DEF FirstAsserted

-----------------------------------------------------------------------------
(* Whom the rows convince.                                                 *)
OwnInputs == [message |-> message, x |-> signature.x]

OwnConvinced == row <= ScalarMulLength => OwnInputs \in convinced

LEMMA OwnConvincedInvariant == Spec => []OwnConvinced
<1>1. Init => OwnConvinced
  <2> SUFFICES ASSUME Init PROVE OwnInputs \in convinced
    BY DEF OwnConvinced
  <2>1. message \in Messages /\ signature \in Signatures(message)
    BY DEF Init
  <2>2. signature.x \in Fp6
    BY <2>1, SignaturesTyped
  <2>3. /\ regs = FirstRow(signature.x)
        /\ convinced = {p \in PublicInputs : FirstAsserted(regs, p.x)}
    BY DEF Init
  <2>4. OwnInputs \in PublicInputs /\ OwnInputs.x = signature.x
    BY <2>1 DEF OwnInputs, PublicInputs
  <2>5. FirstAsserted(regs, signature.x)
    BY <2>2, <2>3, StartAsserted
  <2> QED BY <2>3, <2>4, <2>5
<1>2. Typed /\ Follows /\ BitsKept /\ OwnConvinced /\ [Next]_vars => OwnConvinced'
  <2> SUFFICES ASSUME Typed, Follows, BitsKept, OwnConvinced, [Next]_vars,
                      row' <= ScalarMulLength
               PROVE  OwnInputs' \in convinced'
    BY DEF OwnConvinced
  <2>1. CASE Update
    <3>1. /\ row' = row + 1 /\ regs' = UpdateRow(row, regs)
          /\ message' = message /\ signature' = signature
          /\ convinced' =
               {p \in convinced : TransitionHolds(row, regs, regs', p.message)}
      BY <2>1 DEF Update
    <3>2. row \in Nat /\ ScalarMulLength \in Nat
      BY RowsCounted DEF Typed
    <3>3. row < ScalarMulLength
      BY <3>1, <3>2
    <3>4. TransitionHolds(row, regs, UpdateRow(row, regs), message)
      BY <3>3, StepObeys
    <3>5. OwnInputs \in convinced /\ OwnInputs.message = message
      BY <3>2, <3>3 DEF OwnConvinced, OwnInputs
    <3>6. OwnInputs \in convinced'
      BY <3>1, <3>4, <3>5
    <3>7. OwnInputs' = OwnInputs
      BY <3>1 DEF OwnInputs
    <3> QED BY <3>6, <3>7
  <2>2. CASE UNCHANGED vars
    BY <2>2 DEF vars, OwnConvinced, OwnInputs
  <2> QED BY <2>1, <2>2 DEF Next, Filled
<1> QED BY <1>1, <1>2, TypedInvariant, FollowsInvariant, BitsInvariant, PTL DEF Spec

(* The inputs that still agree have the same x, and the same chunks as far *)
(* as they were fed.                                                       *)
Agreeing ==
  \A p \in convinced :
    /\ p \in PublicInputs /\ p.x = signature.x
    /\ \A i \in 0 .. (Chunks - 1) :
         row >= Cycle * (i + 1) => Chunk(p.message, i) = Chunk(message, i)

LEMMA AgreeingInvariant == Spec => []Agreeing
<1>1. Init => Agreeing
  <2> SUFFICES ASSUME Init, NEW p \in convinced
               PROVE  /\ p \in PublicInputs /\ p.x = signature.x
                      /\ \A i \in 0 .. (Chunks - 1) : ~(row >= Cycle * (i + 1))
    BY DEF Agreeing
  <2>1. message \in Messages /\ signature \in Signatures(message)
    BY DEF Init
  <2>2. signature.x \in Fp6
    BY <2>1, SignaturesTyped
  <2>3. /\ regs = FirstRow(signature.x) /\ row = 0
        /\ p \in PublicInputs /\ FirstAsserted(regs, p.x)
    BY DEF Init
  <2>4. p.x \in Fp6
    BY <2>2, <2>3, SignatureAssumption DEF PublicInputs
  <2>5. p.x = signature.x
    BY <2>2, <2>3, <2>4, StartAsserted
  <2>6. ASSUME NEW i \in 0 .. (Chunks - 1) PROVE ~(row >= Cycle * (i + 1))
    <3> DEFINE c == Cycle
               k == i + 1
    <3>1. k \in Nat \ {0} /\ c \in Nat \ {0}
      BY CycleAssumption DEF Chunks
    <3>2. c * k \in Int /\ c * k > 0
      <4> HIDE DEF c, k
      <4> QED BY <3>1
    <3>3. row = 0
      BY <2>3
    <3> QED BY ONLY <3>2, <3>3
  <2> QED BY <2>3, <2>5, <2>6
<1>2. Typed /\ Follows /\ Agreeing /\ [Next]_vars => Agreeing'
  <2> SUFFICES ASSUME Typed, Follows, Agreeing, [Next]_vars PROVE Agreeing'
    OBVIOUS
  <2>1. CASE Update
    <3>1. /\ row' = row + 1 /\ regs' = UpdateRow(row, regs)
          /\ message' = message /\ signature' = signature
          /\ convinced' =
               {p \in convinced : TransitionHolds(row, regs, regs', p.message)}
      BY <2>1 DEF Update
    <3> SUFFICES ASSUME NEW p \in convinced'
                 PROVE  /\ p \in PublicInputs' /\ p.x = signature.x
                        /\ \A i \in 0 .. (Chunks - 1) :
                             row + 1 >= Cycle * (i + 1)
                               => Chunk(p.message, i) = Chunk(message, i)
      BY <3>1 DEF Agreeing
    <3>2. p \in convinced /\ TransitionHolds(row, regs, UpdateRow(row, regs), p.message)
      BY <3>1
    <3>3. /\ p \in PublicInputs /\ p.x = signature.x
          /\ \A i \in 0 .. (Chunks - 1) :
               row >= Cycle * (i + 1) => Chunk(p.message, i) = Chunk(message, i)
      BY <3>2 DEF Agreeing
    <3>4. PublicInputs' = PublicInputs
      BY <3>1 DEF PublicInputs
    <3>5. ASSUME NEW i \in 0 .. (Chunks - 1), row + 1 >= Cycle * (i + 1)
          PROVE  Chunk(p.message, i) = Chunk(message, i)
      <4> DEFINE new == UpdateRow(row, regs)
                 C == Cycle
      <4>1. row \in Nat /\ C \in Nat \ {0} /\ C = Rounds + 1 /\ Rounds \in Nat
              /\ i \in 0 .. 3 /\ Chunks * Cycle = 4 * C /\ TotalHashLength = 5 * C
              /\ C * (i + 1) \in Int /\ C * (i + 1) = C * i + C /\ C * i \in Int
              /\ C * (i + 1) <= 4 * C
        <5>1. C \in Nat \ {0} /\ i \in 0 .. 3
          BY CycleAssumption DEF Chunks
        <5>2. C * (i + 1) <= C * 4 /\ C * (i + 1) = C * i + C /\ C * i \in Int
          <6> HIDE DEF C
          <6> QED BY <5>1
        <5> QED BY <5>1, <5>2, RowsCounted, CycleAssumption
              DEF Typed, Chunks, TotalHashLength
      <4>2. CASE row >= C * (i + 1)
        BY <3>3, <4>2
      <4>3. CASE row + 1 = C * (i + 1)
        <5>1. row = C * i + Rounds
          BY <4>1, <4>3
        <5>2. row % C = Rounds /\ row \div C = i
          <6> HIDE DEF C
          <6> QED BY <4>1, <5>1
        <5>3. row < Chunks * Cycle
          BY <4>1, <4>3
        <5>4. GlobalMask(row) /\ ~HashMask(row)
          <6>1. TotalHashLength < ScalarMulLength /\ ScalarMulLength \in Int
            BY LengthAssumption, RowsCounted
          <6>2. row <= ScalarMulLength
            BY <4>1, <5>3, <6>1
          <6> QED BY <4>1, <5>2, <6>2 DEF GlobalMask, HashMask
        <5>5. /\ InternalInputs(p.message, row) = Chunk(p.message, i)
              /\ InternalInputs(message, row) = Chunk(message, i)
          BY <5>2, <5>3 DEF InternalInputs
        <5>6. new.hash = DigestOf(regs.hash) \o Chunk(message, i)
          BY <5>4, <5>5, HashObeys DEF EnforceHashCopy
        <5>7. new.hash = DigestOf(regs.hash) \o Chunk(p.message, i)
          BY <3>2, <5>4, <5>5 DEF TransitionHolds, EnforceHashCopy
        <5>8. /\ DigestOf(regs.hash) \in Digests
              /\ Chunk(message, i) \in Digests /\ Chunk(p.message, i) \in Digests
          <6>1. regs.hash \in HashState
            BY HashObeys
          <6>2. message \in Messages /\ p.message \in Messages
            BY <3>3 DEF Typed, PublicInputs
          <6> QED BY <6>1, <6>2, HalvesTyped, KeyTyped, ChunkTyped
        <5> HIDE DEF new
        <5> QED BY <5>6, <5>7, <5>8, HalvesJoin
      <4>4. row >= C * (i + 1) \/ row + 1 = C * (i + 1)
        BY <3>5, <4>1
      <4> QED BY <4>2, <4>3, <4>4
    <3> QED BY <3>3, <3>4, <3>5
  <2>2. CASE UNCHANGED vars
    BY <2>2 DEF vars, Agreeing, PublicInputs
  <2> QED BY <2>1, <2>2 DEF Next, Filled
<1> QED BY <1>1, <1>2, TypedInvariant, FollowsInvariant, PTL DEF Spec

LEMMA ChunksTell ==
  ASSUME NEW m \in Messages, NEW n \in Messages,
         \A i \in 0 .. (Chunks - 1) : Chunk(m, i) = Chunk(n, i)
  PROVE  m = n
<1>1. m \in [1 .. 28 -> Field] /\ n \in [1 .. 28 -> Field]
  BY KeyTyped DEF MessageWidth, Chunks, RateWidth
<1>2. ASSUME NEW j \in 1 .. 28 PROVE m[j] = n[j]
  <2> DEFINE i == (j - 1) \div 7
             k == ((j - 1) % 7) + 1
  <2>1. i \in 0 .. (Chunks - 1) /\ k \in 1 .. RateWidth /\ 7 * i + k = j
    BY DEF Chunks, RateWidth
  <2> HIDE DEF i, k
  <2>2. Chunk(m, i)[k] = m[7 * i + k] /\ Chunk(n, i)[k] = n[7 * i + k]
    BY <2>1, KeyTyped, ChunkTyped
  <2> QED BY <2>1, <2>2
<1> QED BY <1>1, <1>2

(* The rows obey the constraints of their own message and x(R) up to the   *)
(* row that adds the two lanes, and once the message is fed to the hash    *)
(* they obey those of no other (trace.rs 38-125, air.rs 146-200, 394-531). *)
OnlyOwnInputs ==
  /\ row <= ScalarMulLength => OwnInputs \in convinced
  /\ row >= Chunks * Cycle => convinced \subseteq {OwnInputs}

THEOREM SchnorrOnlyOwnInputs == Spec => []OnlyOwnInputs
<1>1. Typed /\ OwnConvinced /\ Agreeing => OnlyOwnInputs
  <2> SUFFICES ASSUME Typed, Agreeing, row >= Chunks * Cycle, NEW p \in convinced
               PROVE  p = OwnInputs
    BY DEF OnlyOwnInputs, OwnConvinced
  <2>1. p \in PublicInputs /\ p.x = signature.x /\ message \in Messages
          /\ p.message \in Messages
    BY DEF Agreeing, Typed, PublicInputs
  <2>2. ASSUME NEW i \in 0 .. (Chunks - 1)
        PROVE  Chunk(p.message, i) = Chunk(message, i)
    <3>1. row >= Cycle * (i + 1)
      <4>1. Cycle \in Nat /\ i + 1 \in Nat /\ i + 1 <= 4 /\ row \in Nat
              /\ row >= 4 * Cycle
        BY CycleAssumption, RowsCounted DEF Typed, Chunks
      <4>2. Cycle * (i + 1) <= Cycle * 4 /\ Cycle * (i + 1) \in Int
        BY <4>1
      <4> QED BY <4>1, <4>2
    <3> QED BY <3>1 DEF Agreeing
  <2>3. p.message = message
    BY <2>1, <2>2, ChunksTell
  <2>4. p = [message |-> p.message, x |-> p.x]
    BY <2>1 DEF PublicInputs
  <2> QED BY <2>1, <2>3, <2>4 DEF OwnInputs
<1> QED BY <1>1, TypedInvariant, OwnConvincedInvariant, AgreeingInvariant, PTL

-----------------------------------------------------------------------------
(* The row that adds the lanes: hash and words are as they should be, so   *)
(* that only the quotient can fail.                                        *)
LEMMA WordsMeetDigest ==
  ASSUME Typed, Follows, row = ScalarMulLength
  PROVE  DigestMatches(regs)
<1>1. row \in Nat /\ WordBits \in Nat /\ row = 2 * BitLength /\ BitLength \in Nat
        /\ h \in [1 .. 7 -> Field]
  BY RowsCounted, WordAssumption DEF Typed, Digests, RateWidth
<1>2. regs.hash = h \o Zeroes(RateWidth)
  <2>1. ~(row < TotalHashLength) /\ h = HashMessage(signature.x, message)
    BY <1>1, LengthAssumption, CycleAssumption DEF Typed, TotalHashLength, Chunks
  <2> QED BY <2>1 DEF Follows, StateOn
<1>3. \A i \in 1 .. 7 : (h \o Zeroes(RateWidth))[i] = h[i]
  <2> DEFINE n == 7
             z == Zeroes(RateWidth)
  <2>1. n \in Nat /\ h \in [1 .. n -> Field] /\ z \in [1 .. n -> Field]
    BY <1>1, HalvesTyped DEF Digests, RateWidth
  <2>2. \A i \in 1 .. n : (h \o z)[i] = h[i]
    <3> HIDE DEF n, z
    <3> QED BY ONLY <2>1, VectorJoin
  <2> QED BY <2>2
<1>4. ASSUME NEW i \in 1 .. 4 PROVE regs.limbs[i] = regs.hash[i]
  <2> DEFINE left == Left(i, row)
  <2>1. h[i] \in Int /\ h[i] = regs.hash[i]
    <3>1. i \in 1 .. 7
      OBVIOUS
    <3>2. h[i] \in Field /\ (h \o Zeroes(RateWidth))[i] = h[i]
      BY <1>1, <1>3, <3>1
    <3>3. regs.hash[i] = h[i]
      BY ONLY <1>2, <3>2
    <3> QED BY <3>2, <3>3, FieldNumbers
  <2>2. left \in Int /\ left <= 0
    <3>1. (row + 1) \div 2 = BitLength
      BY <1>1
    <3>2. WordBits * (i - 1) \in Nat
      BY <1>1
    <3> QED BY <1>1, <3>1, <3>2 DEF Left
  <2>3. regs.limbs[i] = Top(h[i], left)
    BY DEF Follows
  <2> HIDE DEF left
  <2>4. ~(left >= WordBits) /\ (IF left < 0 THEN 0 ELSE left) = 0
    BY <2>2, WordAssumption
  <2>5. Top(h[i], left) = h[i] \div 1
    BY <2>4, Pow2Steps DEF Top
  <2> QED BY <2>1, <2>3, <2>5
<1> QED BY <1>4 DEF DigestMatches

LEMMA EndObeys ==
  ASSUME Typed, Follows, row = ScalarMulLength
  PROVE  LET new == UpdateRow(row, regs)
             sum == ComputeAdd(regs.sG.point, regs.hP.point)
         IN TransitionHolds(row, regs, new, message)
              <=> MulFp6(new.sG.point.x, sum.z) = sum.x
<1> DEFINE new == UpdateRow(row, regs)
           sum == ComputeAdd(regs.sG.point, regs.hP.point)
<1>1. row \in Nat /\ regs \in RowType /\ ~(row < ScalarMulLength)
  BY RowsCounted DEF Typed
<1>2. new = Ended(row, regs)
  BY <1>1, UpdatedRow
<1>3. new.sG.point.y = sum.y /\ new.sG.point.z = sum.z
  BY <1>2 DEF Ended
<1>4. /\ HashMask(row) => EnforceRound(regs.hash, new.hash, row)
      /\ GlobalMask(row) /\ ~HashMask(row)
           => EnforceHashCopy(regs.hash, new.hash, InternalInputs(message, row))
  BY HashObeys
<1>5. DigestMatches(regs)
  BY WordsMeetDigest
<1>6. ~DoublingMask(row) /\ ~AdditionMask(row) /\ FinalMask(row)
  BY <1>1 DEF DoublingMask, AdditionMask, FinalMask
<1>7. EnforcePointAdditionReduceX(regs.sG.point, new.sG.point, regs.hP.point)
        <=> MulFp6(new.sG.point.x, sum.z) = sum.x
  BY <1>3 DEF EnforcePointAdditionReduceX
<1> HIDE DEF new, sum
<1> QED BY <1>4, <1>5, <1>6, <1>7 DEF TransitionHolds, new, sum

(* A verifier accepts the trace with the inputs it was made of if their x  *)
(* times the z of the sum of the lanes is the x of that sum, and with      *)
(* nothing else: no other constraint or assertion ever refuses it          *)
(* (trace.rs 108-122, air.rs 213-226, 507-531).                            *)
SumDecides ==
  [][row = ScalarMulLength =>
       LET sum == ComputeAdd(regs.sG.point, regs.hP.point)
       IN Accepted' = {p \in {OwnInputs} : /\ regs'.sG.point.x = p.x
                                           /\ MulFp6(p.x, sum.z) = sum.x}]_vars

THEOREM SchnorrSumDecides == Spec => SumDecides
<1> DEFINE sum == ComputeAdd(regs.sG.point, regs.hP.point)
           Decided == {p \in {OwnInputs} : /\ regs'.sG.point.x = p.x
                                           /\ MulFp6(p.x, sum.z) = sum.x}
<1>1. Typed /\ Follows /\ OnlyOwnInputs /\ [Next]_vars
        => [row = ScalarMulLength => Accepted' = Decided]_vars
  <2> SUFFICES ASSUME Typed, Follows, OnlyOwnInputs, Next, row = ScalarMulLength
               PROVE  Accepted' = Decided \/ UNCHANGED vars
    OBVIOUS
  <2>1. CASE Update
    <3> DEFINE new == UpdateRow(row, regs)
    <3>1. /\ regs' = new
          /\ convinced' = {p \in convinced : TransitionHolds(row, regs, new, p.message)}
      BY <2>1 DEF Update
    <3>2. convinced = {OwnInputs}
      <4>1. row <= ScalarMulLength /\ row >= Chunks * Cycle
        BY RowsCounted, LengthAssumption, CycleAssumption
          DEF Typed, TotalHashLength, Chunks
      <4> QED BY <4>1 DEF OnlyOwnInputs
    <3>3. OwnInputs.message = message
      BY DEF OwnInputs
    <3>4. TransitionHolds(row, regs, new, message)
            <=> MulFp6(new.sG.point.x, sum.z) = sum.x
      BY EndObeys
    <3>5. Accepted' = {p \in convinced' : regs'.sG.point.x = p.x}
      BY DEF Accepted, LastAsserted
    <3> HIDE DEF new, sum
    <3>6. ASSUME NEW p PROVE p \in Accepted' <=> p \in Decided
      BY <3>1, <3>2, <3>3, <3>4, <3>5
    <3> QED BY <3>6
  <2>2. CASE Filled
    BY <2>2 DEF Filled
  <2> QED BY <2>1, <2>2 DEF Next
<1> QED BY <1>1, TypedInvariant, FollowsInvariant, SchnorrOnlyOwnInputs, PTL
      DEF Spec, SumDecides

-----------------------------------------------------------------------------
(* The points.  First the words of the hash: the bits they are fed by are   *)
(* those of the number they make, which has no more of them than are fed.  *)
LEMMA WordsMakeNumber ==
  ASSUME NEW words \in Digests
  PROVE  /\ HashNumber(words) \in 0 .. (Pow2[BitLength] - 1)
         /\ \A k \in 0 .. (BitLength - 1) :
              HashBit(words, k) = ScalarBit(HashNumber(words), k)
<1> DEFINE W == WordBits
           A == Pow2[W]
           w(i) == words[i]
           n3 == w(3) + A * w(4)
           n2 == w(2) + A * n3
           n1 == w(1) + A * n2
<1>1. W \in Nat /\ W > 1 /\ BitLength = 4 * W - 1
  BY WordAssumption DEF BitLength
<1>2. \A i \in 1 .. 4 : w(i) \in 0 .. (A - 1) /\ w(i) \in 0 .. (Pow2[W - 1] - 1)
  <2>1. \A i \in 1 .. 4 : w(i) \in 0 .. (P - 1)
    BY DEF Digests, RateWidth, Field
  <2>2. W - 1 \in Nat /\ (W - 1) + 1 = W
    BY <1>1
  <2>3. A = 2 * Pow2[W - 1] /\ Pow2[W - 1] \in Nat
    BY <2>2, Pow2Steps
  <2> HIDE DEF A, w
  <2> QED BY <2>1, <2>3, WordAssumption, FieldAssumption
<1>3. HashNumber(words) = n1
  BY DEF HashNumber
<1>4. n3 \in 0 .. (Pow2[W + (W - 1)] - 1)
  <2>1. W - 1 \in Nat /\ w(3) \in 0 .. (A - 1) /\ w(4) \in 0 .. (Pow2[W - 1] - 1)
    BY <1>1, <1>2
  <2> DEFINE V == W - 1
  <2>2. V \in Nat /\ w(3) \in 0 .. (Pow2[W] - 1) /\ w(4) \in 0 .. (Pow2[V] - 1)
    BY <2>1
  <2> HIDE DEF V, W, w
  <2>3. w(3) + Pow2[W] * w(4) \in 0 .. (Pow2[W + V] - 1)
    BY <1>1, <2>2, PairBelow
  <2> QED BY <2>3 DEF V
<1>5. n2 \in 0 .. (Pow2[W + (W + (W - 1))] - 1)
  <2> DEFINE V == W + (W - 1)
  <2>1. V \in Nat /\ w(2) \in 0 .. (Pow2[W] - 1) /\ n3 \in 0 .. (Pow2[V] - 1)
    BY <1>1, <1>2, <1>4
  <2> HIDE DEF V, W, w, n3
  <2>2. w(2) + Pow2[W] * n3 \in 0 .. (Pow2[W + V] - 1)
    BY <1>1, <2>1, PairBelow
  <2> QED BY <2>2 DEF V
<1>6. n1 \in 0 .. (Pow2[BitLength] - 1)
  <2> DEFINE V == W + (W + (W - 1))
  <2>1. V \in Nat /\ w(1) \in 0 .. (Pow2[W] - 1) /\ n2 \in 0 .. (Pow2[V] - 1)
          /\ W + V = BitLength
    BY <1>1, <1>2, <1>5
  <2> HIDE DEF V, W, w, n2
  <2>2. w(1) + Pow2[W] * n2 \in 0 .. (Pow2[W + V] - 1)
    BY <1>1, <2>1, PairBelow
  <2> QED BY <2>1, <2>2
<1>7. n3 \in Nat /\ n2 \in Nat /\ w(4) \in Nat
  BY <1>2, <1>4, <1>5
<1>8. ASSUME NEW k \in 0 .. (BitLength - 1)
      PROVE  HashBit(words, k) = ScalarBit(n1, k)
  <2>1. /\ w(1) \in 0 .. (Pow2[W] - 1) /\ w(2) \in 0 .. (Pow2[W] - 1)
        /\ w(3) \in 0 .. (Pow2[W] - 1)
    BY <1>2
  <2> DEFINE bit(n, j) == ScalarBit(n, j)
  <2>2. /\ \A j \in Nat : bit(n1, j) = IF j < W THEN bit(w(1), j) ELSE bit(n2, j - W)
        /\ \A j \in Nat : bit(n2, j) = IF j < W THEN bit(w(2), j) ELSE bit(n3, j - W)
        /\ \A j \in Nat : bit(n3, j) = IF j < W THEN bit(w(3), j) ELSE bit(w(4), j - W)
    <3>1. \A j \in Nat : bit(n1, j) = IF j < W THEN bit(w(1), j) ELSE bit(n2, j - W)
      <4> HIDE DEF W, w, n2
      <4> QED BY <1>1, <1>7, <2>1, BitsOfPair DEF ScalarBit
    <3>2. \A j \in Nat : bit(n2, j) = IF j < W THEN bit(w(2), j) ELSE bit(n3, j - W)
      <4> HIDE DEF W, w, n3
      <4> QED BY <1>1, <1>7, <2>1, BitsOfPair DEF ScalarBit
    <3>3. \A j \in Nat : bit(n3, j) = IF j < W THEN bit(w(3), j) ELSE bit(w(4), j - W)
      <4> HIDE DEF W, w
      <4> QED BY <1>1, <1>7, <2>1, BitsOfPair DEF ScalarBit
    <3> QED BY <3>1, <3>2, <3>3
  <2>3. HashBit(words, k) = bit(w((k \div W) + 1), k % W)
    BY DEF HashBit, ScalarBit
  <2>4. k \in Nat /\ k < 4 * W
    BY <1>1
  <2> HIDE DEF W, w, n1, n2, n3, bit
  <2>5. CASE k < W
    <3>1. k \div W = 0 /\ k % W = k
      BY <1>1, <2>4, <2>5
    <3> QED BY <2>2, <2>3, <2>4, <2>5, <3>1 DEF bit
  <2>6. CASE k >= W /\ k < 2 * W
    <3> DEFINE j == k - W
    <3>1. j \in Nat /\ j < W /\ ~(k < W) /\ k = W * 1 + j
      BY <1>1, <2>4, <2>6
    <3>2. k \div W = 1 /\ k % W = j
      <4> HIDE DEF j
      <4> QED BY <1>1, <3>1
    <3> QED BY <2>2, <2>3, <2>4, <3>1, <3>2 DEF bit
  <2>7. CASE k >= 2 * W /\ k < 3 * W
    <3> DEFINE i == k - W
               j == i - W
    <3>1. i \in Nat /\ j \in Nat /\ j < W /\ ~(k < W) /\ ~(i < W) /\ k = W * 2 + j
      BY <1>1, <2>4, <2>7
    <3>2. k \div W = 2 /\ k % W = j
      <4> HIDE DEF j, i
      <4> QED BY <1>1, <3>1
    <3>3. bit(n1, k) = bit(n2, i) /\ bit(n2, i) = bit(n3, j) /\ bit(n3, j) = bit(w(3), j)
      BY <2>2, <2>4, <3>1
    <3> QED BY <2>3, <3>2, <3>3 DEF bit
  <2>8. CASE k >= 3 * W
    <3> DEFINE i == k - W
               l == i - W
               j == l - W
    <3>1. /\ i \in Nat /\ l \in Nat /\ j \in Nat /\ j < W
          /\ ~(k < W) /\ ~(i < W) /\ ~(l < W) /\ k = W * 3 + j
      BY <1>1, <2>4, <2>8
    <3>2. k \div W = 3 /\ k % W = j
      <4> HIDE DEF j, i, l
      <4> QED BY <1>1, <3>1
    <3>3. bit(n1, k) = bit(n2, i) /\ bit(n2, i) = bit(n3, l) /\ bit(n3, l) = bit(w(4), j)
      BY <2>2, <2>4, <3>1
    <3> QED BY <2>3, <3>2, <3>3 DEF bit
  <2> QED BY <1>1, <2>4, <2>5, <2>6, <2>7, <2>8
<1> QED BY <1>3, <1>6, <1>8


-----------------------------------------------------------------------------
(* The multiples a lane has reached on row n.                              *)
FedAt(number, n) ==
  LET top == number \div Pow2[BitLength - (n + 1) \div 2]
  IN IF n % 2 = 1 THEN top - (top % 2) ELSE top

LEMMA FedBounds ==
  ASSUME NEW N \in 0 .. (Pow2[BitLength] - 1)
  PROVE  FedAt(N, 0) = 0 /\ FedAt(N, ScalarMulLength) = N
<1>1. BitLength \in Nat /\ ScalarMulLength = 2 * BitLength
  BY RowsCounted
<1>2. N \in Nat /\ N < Pow2[BitLength] /\ Pow2[BitLength] \in Nat \ {0}
  BY <1>1, Pow2Positive
<1>3. FedAt(N, 0) = N \div Pow2[BitLength]
  <2>1. (0 + 1) \div 2 = 0 /\ 0 % 2 # 1 /\ BitLength - 0 = BitLength
    BY <1>1
  <2> QED BY <2>1 DEF FedAt
<1>4. N \div Pow2[BitLength] = 0
  <2> DEFINE d == Pow2[BitLength]
  <2>1. N = d * 0 + N /\ d \in Nat \ {0} /\ N \in 0 .. (d - 1)
    BY <1>2
  <2> HIDE DEF d
  <2> QED BY <2>1 DEF d
<1>5. FedAt(N, ScalarMulLength) = N
  <2> DEFINE B == BitLength
             n == ScalarMulLength
  <2>1. (n + 1) \div 2 = B /\ n % 2 # 1 /\ B - B = 0
    BY <1>1
  <2>2. FedAt(N, n) = N \div Pow2[0]
    <3> HIDE DEF B, n
    <3> QED BY <2>1 DEF FedAt, B
  <2> QED BY <1>2, <2>2, Pow2Steps
<1> QED BY <1>3, <1>4, <1>5

LEMMA FedSteps ==
  ASSUME NEW N \in Nat, NEW b \in 0 .. (BitLength - 1)
  PROVE  /\ FedAt(N, 2 * b) \in Nat /\ FedAt(N, 2 * b + 1) \in Nat
         /\ FedAt(N, 2 * b + 1) = 2 * FedAt(N, 2 * b)
         /\ FedAt(N, 2 * b + 2)
              = FedAt(N, 2 * b + 1) + ScalarBit(N, BitLength - 1 - b)
         /\ ScalarBit(N, BitLength - 1 - b) \in {0, 1}
<1> DEFINE k == BitLength - 1 - b
           t == N \div Pow2[k]
           old == N \div Pow2[k + 1]
<1>1. BitLength \in Nat /\ b \in Nat /\ k \in Nat
  BY RowsCounted
<1>2. FedAt(N, 2 * b) = old
  <2>1. (2 * b + 1) \div 2 = b /\ (2 * b) % 2 # 1 /\ BitLength - b = k + 1
    BY <1>1
  <2> QED BY <2>1 DEF FedAt
<1>3. FedAt(N, 2 * b + 1) = t - (t % 2)
  <2>1. ((2 * b + 1) + 1) \div 2 = b + 1 /\ (2 * b + 1) % 2 = 1
          /\ BitLength - (b + 1) = k
    BY <1>1
  <2> QED BY <2>1 DEF FedAt
<1>4. FedAt(N, 2 * b + 2) = t
  <2>1. ((2 * b + 2) + 1) \div 2 = b + 1 /\ (2 * b + 2) % 2 # 1
          /\ BitLength - (b + 1) = k
    BY <1>1
  <2> QED BY <2>1 DEF FedAt
<1>5. t \in Nat /\ old = t \div 2
  <2>1. Pow2[k] \in Nat \ {0} /\ N \in Nat
    BY <1>1, Pow2Positive
  <2>2. N \div Pow2[k] \in 0 .. N
    <3> HIDE DEF k
    <3> QED BY ONLY <2>1, QuotientBound
  <2>3. t \in Nat
    <3> HIDE DEF k
    <3> QED BY <2>2
  <2>4. old = t \div 2
    <3> HIDE DEF k
    <3> QED BY <1>1, HalfQuotient
  <2> QED BY <2>3, <2>4
<1>6. ScalarBit(N, k) = t % 2
  BY DEF ScalarBit
<1> HIDE DEF k, t, old
<1> QED BY <1>2, <1>3, <1>4, <1>5, <1>6 DEF k

(* A point represents a number by its residue.                             *)
LEMMA ResiduesAdd ==
  ASSUME NEW k \in Nat, NEW l \in Nat
  PROVE  /\ k % Q \in 0 .. (Q - 1) /\ (k % Q) % Q = k % Q
         /\ ((k % Q) + l) % Q = (k + l) % Q
<1>1. Q \in Nat \ {0}
  BY GroupAssumption
<1> QED BY ONLY <1>1, k \in Nat, l \in Nat, RemaindersAdd

LEMMA SameResidue ==
  ASSUME NEW p, NEW k \in Nat, NEW l \in Nat, k % Q = l % Q
  PROVE  Represents(p, k) <=> Represents(p, l)
BY DEF Represents

-----------------------------------------------------------------------------
(***************************************************************************)
(* The formulas of the curve add.  Elements of Fp6 are lifted to triples   *)
(* of polynomials in u with integer coefficients, where the laws of a      *)
(* commutative ring hold exactly; what holds of the lifted sums and        *)
(* products holds of the elements.                                         *)
(***************************************************************************)
A \oplus B == [i \in 1 .. 6 |-> A[i] + B[i]]
A \ominus B == [i \in 1 .. 6 |-> A[i] - B[i]]
k \odot A == [i \in 1 .. 6 |-> k * A[i]]
A \otimes B == Times6(A, B)

ReOf(A, i, B, j) == Re(A[i], A[i + 1], B[j], B[j + 1])
ImOf(A, i, B, j) == Im(A[i], A[i + 1], B[j], B[j + 1])

LEMMA TimesParts ==
  ASSUME NEW A, NEW B
  PROVE  A \otimes B
           = <<ReOf(A, 1, B, 1) - ReOf(A, 3, B, 5) - ReOf(A, 5, B, 3),
               ImOf(A, 1, B, 1) - ImOf(A, 3, B, 5) - ImOf(A, 5, B, 3),
               ReOf(A, 1, B, 3) + ReOf(A, 3, B, 1) - ReOf(A, 3, B, 5)
                 - ReOf(A, 5, B, 3) - ReOf(A, 5, B, 5),
               ImOf(A, 1, B, 3) + ImOf(A, 3, B, 1) - ImOf(A, 3, B, 5)
                 - ImOf(A, 5, B, 3) - ImOf(A, 5, B, 5),
               ReOf(A, 1, B, 5) + ReOf(A, 3, B, 3) + ReOf(A, 5, B, 1)
                 - ReOf(A, 5, B, 5),
               ImOf(A, 1, B, 5) + ImOf(A, 3, B, 3) + ImOf(A, 5, B, 1)
                 - ImOf(A, 5, B, 5)>>
BY DEF \otimes, Times6, ReOf, ImOf

LEMMA PartsOfTimes ==
  \A A, B \in Ints6 : \A i, j \in {1, 3, 5} :
    ReOf(A, i, B, j) \in Int /\ ImOf(A, i, B, j) \in Int
<1> TAKE A, B \in Ints6
<1> TAKE i, j \in {1, 3, 5}
<1>1. /\ A[i] \in Int /\ A[i + 1] \in Int /\ B[j] \in Int /\ B[j + 1] \in Int
  BY DEF Ints6
<1>2. \A x, y, z, w \in Int : Re(x, y, z, w) \in Int /\ Im(x, y, z, w) \in Int
  BY DEF Re, Im
<1> QED BY <1>1, <1>2 DEF ReOf, ImOf

(* A relation of the parts of three products is one of the products.       *)
LEMMA PartsDecide ==
  ASSUME NEW A \in Ints6, NEW B \in Ints6, NEW C \in Ints6, NEW D \in Ints6,
         NEW E \in Ints6, NEW F \in Ints6, NEW g \in Int, NEW k \in Int,
         \A i, j \in {1, 3, 5} :
           /\ ReOf(A, i, B, j) = g * ReOf(C, i, D, j) + k * ReOf(E, i, F, j)
           /\ ImOf(A, i, B, j) = g * ImOf(C, i, D, j) + k * ImOf(E, i, F, j)
  PROVE  A \otimes B = (g \odot (C \otimes D)) \oplus (k \odot (E \otimes F))
<1>1. \A i, j \in {1, 3, 5} :
        /\ ReOf(C, i, D, j) \in Int /\ ImOf(C, i, D, j) \in Int
        /\ ReOf(E, i, F, j) \in Int /\ ImOf(E, i, F, j) \in Int
  BY PartsOfTimes
<1> QED BY <1>1, TimesParts DEF \oplus, \odot

LEMMA TimesCommutes ==
  ASSUME NEW A \in Ints6, NEW B \in Ints6
  PROVE  A \otimes B = B \otimes A
<1>1. \A x, y, z, w \in Int : /\ Re(x, y, z, w) = Re(z, w, x, y)
                             /\ Im(x, y, z, w) = Im(z, w, x, y)
  BY DEF Re, Im
<1>2. \A i, j \in {1, 3, 5} :
        /\ ReOf(A, i, B, j) = ReOf(B, j, A, i) /\ ImOf(A, i, B, j) = ImOf(B, j, A, i)
  <2> TAKE i, j \in {1, 3, 5}
  <2> DEFINE x == A[i]  y == A[i + 1]  z == B[j]  w == B[j + 1]
  <2>1. x \in Int /\ y \in Int /\ z \in Int /\ w \in Int
    BY DEF Ints6
  <2> HIDE DEF x, y, z, w
  <2>2. Re(x, y, z, w) = Re(z, w, x, y) /\ Im(x, y, z, w) = Im(z, w, x, y)
    BY <1>1, <2>1
  <2> QED BY <2>2 DEF ReOf, ImOf, x, y, z, w
<1>3. \A i, j \in {1, 3, 5} : ReOf(B, i, A, j) \in Int /\ ImOf(B, i, A, j) \in Int
  BY PartsOfTimes
<1> QED BY <1>2, <1>3, TimesParts

LEMMA TimesDistributes ==
  ASSUME NEW A \in Ints6, NEW B \in Ints6, NEW C \in Ints6, NEW g \in Int, NEW k \in Int
  PROVE  A \otimes ((g \odot B) \oplus (k \odot C))
           = (g \odot (A \otimes B)) \oplus (k \odot (A \otimes C))
<1> DEFINE D == (g \odot B) \oplus (k \odot C)
<1>1. /\ D \in Ints6
      /\ \A i \in 1 .. 6 : D[i] = g * B[i] + k * C[i]
  BY DEF \oplus, \odot, Ints6
<1> HIDE DEF D
<1>3. \A i, j \in {1, 3, 5} :
        /\ ReOf(A, i, D, j) = g * ReOf(A, i, B, j) + k * ReOf(A, i, C, j)
        /\ ImOf(A, i, D, j) = g * ImOf(A, i, B, j) + k * ImOf(A, i, C, j)
  <2> TAKE i, j \in {1, 3, 5}
  <2> DEFINE x == A[i]  y == A[i + 1]  z == B[j]  w == B[j + 1]
             u == C[j]  v == C[j + 1]
  <2>1. /\ x \in Int /\ y \in Int /\ z \in Int /\ w \in Int /\ u \in Int /\ v \in Int
        /\ D[j] = g * z + k * u /\ D[j + 1] = g * w + k * v
    BY <1>1 DEF Ints6
  <2>2. ReOf(A, i, B, j) = Re(x, y, z, w) /\ ImOf(A, i, B, j) = Im(x, y, z, w)
    BY DEF ReOf, ImOf
  <2>3. ReOf(A, i, C, j) = Re(x, y, u, v) /\ ImOf(A, i, C, j) = Im(x, y, u, v)
    BY DEF ReOf, ImOf
  <2>4. /\ ReOf(A, i, D, j) = Re(x, y, g * z + k * u, g * w + k * v)
        /\ ImOf(A, i, D, j) = Im(x, y, g * z + k * u, g * w + k * v)
    BY <2>1 DEF ReOf, ImOf
  <2> HIDE DEF x, y, z, w, u, v
  <2>5. /\ Re(x, y, g * z + k * u, g * w + k * v)
             = g * Re(x, y, z, w) + k * Re(x, y, u, v)
        /\ Im(x, y, g * z + k * u, g * w + k * v)
             = g * Im(x, y, z, w) + k * Im(x, y, u, v)
    BY <2>1 DEF Re, Im
  <2> QED BY <2>2, <2>3, <2>4, <2>5
<1>4. A \otimes D = (g \odot (A \otimes B)) \oplus (k \odot (A \otimes C))
  BY ONLY <1>1, <1>3, PartsDecide, A \in Ints6, B \in Ints6, C \in Ints6,
          g \in Int, k \in Int
<1> QED BY <1>4 DEF D

LEMMA RingLaws ==
  ASSUME NEW A \in Ints6, NEW B \in Ints6, NEW C \in Ints6, NEW k \in Int
  PROVE  /\ A \otimes B \in Ints6
         /\ A \oplus B \in Ints6 /\ A \ominus B \in Ints6 /\ k \odot A \in Ints6
         /\ A \otimes B = B \otimes A
         /\ (A \otimes B) \otimes C = A \otimes (B \otimes C)
         /\ A \otimes (B \oplus C) = (A \otimes B) \oplus (A \otimes C)
         /\ A \otimes (B \ominus C) = (A \otimes B) \ominus (A \otimes C)
         /\ A \otimes (k \odot B) = k \odot (A \otimes B)
<1>1. A \otimes B \in Ints6 /\ A \otimes C \in Ints6
  BY TimesTyped DEF \otimes
<1>2. A \oplus B \in Ints6 /\ A \ominus B \in Ints6 /\ k \odot A \in Ints6
  BY DEF Ints6, \oplus, \ominus, \odot
<1>3. (A \otimes B) \otimes C = A \otimes (B \otimes C)
  BY TimesAssociates DEF \otimes
<1>4. ASSUME NEW D \in Ints6, NEW E \in Ints6
      PROVE  /\ (1 \odot D) \oplus (1 \odot E) = D \oplus E
             /\ (1 \odot D) \oplus ((-1) \odot E) = D \ominus E
             /\ (k \odot D) \oplus (0 \odot E) = k \odot D
  BY DEF Ints6, \oplus, \ominus, \odot
<1>5. A \otimes (B \oplus C) = (A \otimes B) \oplus (A \otimes C)
  <2>1. A \otimes ((1 \odot B) \oplus (1 \odot C))
          = (1 \odot (A \otimes B)) \oplus (1 \odot (A \otimes C))
    BY TimesDistributes
  <2> QED BY <1>1, <1>4, <2>1
<1>6. A \otimes (B \ominus C) = (A \otimes B) \ominus (A \otimes C)
  <2>1. A \otimes ((1 \odot B) \oplus ((-1) \odot C))
          = (1 \odot (A \otimes B)) \oplus ((-1) \odot (A \otimes C))
    BY TimesDistributes
  <2> QED BY <1>1, <1>4, <2>1
<1>7. A \otimes (k \odot B) = k \odot (A \otimes B)
  <2>1. A \otimes ((k \odot B) \oplus (0 \odot C))
          = (k \odot (A \otimes B)) \oplus (0 \odot (A \otimes C))
    BY TimesDistributes
  <2> QED BY <1>1, <1>4, <2>1
<1> QED BY <1>1, <1>2, <1>3, <1>5, <1>6, <1>7, TimesCommutes

LEMMA TimesSwaps ==
  ASSUME NEW A \in Ints6, NEW B \in Ints6, NEW C \in Ints6
  PROVE  A \otimes (B \otimes C) = B \otimes (A \otimes C)
<1>1. /\ (A \otimes B) \otimes C = A \otimes (B \otimes C)
      /\ (B \otimes A) \otimes C = B \otimes (A \otimes C)
  BY RingLaws, 0 \in Int
<1> QED BY <1>1, TimesCommutes

LEMMA TimesTurns ==
  ASSUME NEW A \in Ints6, NEW B \in Ints6, NEW C \in Ints6
  PROVE  A \otimes (B \otimes C) = C \otimes (B \otimes A)
<1>1. A \otimes (B \otimes C) = B \otimes (A \otimes C)
  BY TimesSwaps
<1>2. B \otimes (C \otimes A) = C \otimes (B \otimes A)
  BY TimesSwaps
<1> QED BY <1>1, <1>2, TimesCommutes

LEMMA SixTyped ==
  /\ \A A, B \in Ints6 : A \otimes B \in Ints6 /\ A \oplus B \in Ints6 /\ A \ominus B \in Ints6
  /\ \A A \in Ints6, k \in Int : k \odot A \in Ints6
BY RingLaws, 0 \in Int

LEMMA TimesOver ==
  /\ \A A, B, C \in Ints6 :
       /\ A \otimes (B \oplus C) = (A \otimes B) \oplus (A \otimes C)
       /\ A \otimes (B \ominus C) = (A \otimes B) \ominus (A \otimes C)
  /\ \A A, B \in Ints6, k \in Int : A \otimes (k \odot B) = k \odot (A \otimes B)
<1>1. ASSUME NEW A \in Ints6, NEW B \in Ints6, NEW C \in Ints6
      PROVE  /\ A \otimes (B \oplus C) = (A \otimes B) \oplus (A \otimes C)
             /\ A \otimes (B \ominus C) = (A \otimes B) \ominus (A \otimes C)
  BY RingLaws, 0 \in Int
<1>2. ASSUME NEW A \in Ints6, NEW B \in Ints6, NEW k \in Int
      PROVE  A \otimes (k \odot B) = k \odot (A \otimes B)
  BY RingLaws
<1> QED BY <1>1, <1>2

(* A line y = l.x + c that meets the curve at x1, x2 and t: s and m are the *)
(* sum and the product of x1 and x2, e the sum of y1 and y2, f that of     *)
(* x1.y2 and x2.y1, a is 3.m + 1, and the one has the value the slope      *)
(* gives it.                                                               *)
IsLine(l, c, s, m, t, e, f, one, a) ==
  /\ l \in Ints6 /\ c \in Ints6 /\ s \in Ints6 /\ m \in Ints6
  /\ t \in Ints6 /\ t = (l \otimes l) \ominus s
  /\ e \in Ints6 /\ e = (l \otimes s) \oplus (2 \odot c)
  /\ f \in Ints6 /\ f = (2 \odot (l \otimes m)) \oplus (c \otimes s)
  /\ one \in Ints6 /\ one = ((l \otimes e) \ominus (s \otimes s)) \oplus m
  /\ a \in Ints6 /\ a = (3 \odot m) \oplus one

LEMMA LineSlope ==
  ASSUME NEW l, NEW c, NEW s, NEW m, NEW t, NEW e, NEW f, NEW one, NEW a,
         IsLine(l, c, s, m, t, e, f, one, a)
  PROVE  /\ l \otimes a = (2 \odot f) \oplus (t \otimes e)
         /\ a = ((4 \odot m) \oplus (s \otimes t)) \oplus (2 \odot (l \otimes c))
<1> DEFINE ll == l \otimes l  ls == l \otimes s  lc == l \otimes c  lm == l \otimes m
           le == l \otimes e  ss == s \otimes s  sc == s \otimes c
           lle == l \otimes le  lss == l \otimes ss  lls == l \otimes ls
           la == l \otimes a  te == t \otimes e  st == s \otimes t
<1>1. /\ l \in Ints6 /\ c \in Ints6 /\ s \in Ints6 /\ m \in Ints6
      /\ t \in Ints6 /\ e \in Ints6 /\ f \in Ints6 /\ one \in Ints6 /\ a \in Ints6
      /\ 2 \in Int /\ 3 \in Int
  BY DEF IsLine
<1>2. /\ ll \in Ints6 /\ ls \in Ints6 /\ lc \in Ints6 /\ lm \in Ints6 /\ le \in Ints6
      /\ ss \in Ints6 /\ sc \in Ints6 /\ lle \in Ints6 /\ lss \in Ints6 /\ lls \in Ints6
      /\ la \in Ints6 /\ te \in Ints6 /\ st \in Ints6
      /\ 2 \odot c \in Ints6 /\ 3 \odot m \in Ints6 /\ le \ominus ss \in Ints6
  BY <1>1, SixTyped
<1>3. /\ t = ll \ominus s /\ e = ls \oplus (2 \odot c) /\ f = (2 \odot lm) \oplus sc
      /\ one = (le \ominus ss) \oplus m /\ a = (3 \odot m) \oplus one
  BY <1>1, TimesCommutes DEF IsLine
<1>4. la = (3 \odot lm) \oplus ((lle \ominus lss) \oplus lm)
  <2>1. la = (l \otimes (3 \odot m)) \oplus (l \otimes one)
    BY <1>1, <1>2, <1>3, TimesOver
  <2>2. l \otimes one = (l \otimes (le \ominus ss)) \oplus lm
    BY <1>1, <1>2, <1>3, TimesOver
  <2>3. l \otimes (le \ominus ss) = lle \ominus lss /\ l \otimes (3 \odot m) = 3 \odot lm
    BY <1>1, <1>2, TimesOver
  <2> QED BY <2>1, <2>2, <2>3
<1>5. te = lle \ominus (lss \oplus (2 \odot sc))
  <2>1. te = (e \otimes ll) \ominus (e \otimes s)
    <3>1. te = e \otimes (ll \ominus s)
      BY <1>1, <1>3, TimesCommutes
    <3> QED BY <1>1, <1>2, <3>1, TimesOver
  <2>2. e \otimes ll = lle
    BY <1>1, TimesSwaps, TimesCommutes
  <2>3. e \otimes s = (s \otimes ls) \oplus (s \otimes (2 \odot c))
    BY <1>1, <1>2, <1>3, TimesOver, TimesCommutes
  <2>4. s \otimes ls = lss /\ s \otimes (2 \odot c) = 2 \odot sc
    BY <1>1, TimesOver, TimesSwaps
  <2> QED BY <2>1, <2>2, <2>3, <2>4
<1>6. le = lls \oplus (2 \odot lc)
  BY <1>1, <1>2, <1>3, TimesOver
<1>7. st = lls \ominus ss
  <2>1. s \otimes ll = lls
    BY <1>1, TimesSwaps, TimesCommutes
  <2> QED BY <1>1, <1>2, <1>3, <2>1, TimesOver
<1> HIDE DEF ll, ls, lc, lm, le, ss, sc, lle, lss, lls, la, te, st
<1>8. la = (2 \odot f) \oplus te
  BY ONLY <1>1, <1>2, <1>3, <1>4, <1>5 DEF Ints6, \oplus, \ominus, \odot
<1>9. a = ((4 \odot m) \oplus st) \oplus (2 \odot lc)
  BY ONLY <1>1, <1>2, <1>3, <1>6, <1>7 DEF Ints6, \oplus, \ominus, \odot
<1> QED BY <1>8, <1>9 DEF la, te, st, lc

LEMMA LineSquare ==
  ASSUME NEW l, NEW c, NEW s, NEW m, NEW t, NEW e, NEW f, NEW one, NEW a,
         IsLine(l, c, s, m, t, e, f, one, a)
  PROVE  a \otimes a
           = (((4 \odot (m \otimes a)) \oplus (t \otimes (s \otimes a)))
                \oplus (4 \odot (c \otimes f))) \oplus (2 \odot (t \otimes (c \otimes e)))
<1> DEFINE aa == a \otimes a  ma == m \otimes a  st == s \otimes t  lc == l \otimes c
           sta == t \otimes (s \otimes a)  cf == c \otimes f  tce == t \otimes (c \otimes e)
           te == t \otimes e  ca == c \otimes (l \otimes a)
<1>1. /\ l \in Ints6 /\ c \in Ints6 /\ s \in Ints6 /\ m \in Ints6
      /\ t \in Ints6 /\ e \in Ints6 /\ f \in Ints6 /\ one \in Ints6 /\ a \in Ints6
      /\ 2 \in Int /\ 4 \in Int
  BY DEF IsLine
<1>2. /\ aa \in Ints6 /\ ma \in Ints6 /\ st \in Ints6 /\ lc \in Ints6 /\ sta \in Ints6
      /\ cf \in Ints6 /\ tce \in Ints6 /\ te \in Ints6 /\ ca \in Ints6
      /\ 4 \odot m \in Ints6 /\ 2 \odot lc \in Ints6 /\ (4 \odot m) \oplus st \in Ints6
      /\ 2 \odot f \in Ints6
  BY <1>1, SixTyped
<1>3. a = ((4 \odot m) \oplus st) \oplus (2 \odot lc) /\ l \otimes a = (2 \odot f) \oplus te
  BY LineSlope
<1>4. aa = ((4 \odot ma) \oplus sta) \oplus (2 \odot ca)
  <2>1. aa = (a \otimes ((4 \odot m) \oplus st)) \oplus (a \otimes (2 \odot lc))
    <3> DEFINE u == (4 \odot m) \oplus st  v == 2 \odot lc
    <3>1. a = u \oplus v /\ a \in Ints6 /\ u \in Ints6 /\ v \in Ints6
      BY <1>1, <1>2, <1>3
    <3> HIDE DEF u, v
    <3>2. a \otimes (u \oplus v) = (a \otimes u) \oplus (a \otimes v)
      BY ONLY <3>1, TimesOver
    <3> QED BY <3>1, <3>2 DEF u, v
  <2>2. a \otimes ((4 \odot m) \oplus st) = (a \otimes (4 \odot m)) \oplus (a \otimes st)
    BY <1>1, <1>2, TimesOver
  <2>3. /\ a \otimes (4 \odot m) = 4 \odot (a \otimes m)
        /\ a \otimes (2 \odot lc) = 2 \odot (a \otimes lc)
    BY <1>1, <1>2, TimesOver
  <2>4. a \otimes m = ma
    BY <1>1, TimesCommutes
  <2>5. a \otimes st = sta
    <3>1. a \otimes st = a \otimes (t \otimes s)
      BY <1>1, TimesCommutes
    <3>2. a \otimes (t \otimes s) = t \otimes (a \otimes s)
      BY <1>1, TimesSwaps
    <3> QED BY <1>1, <3>1, <3>2, TimesCommutes
  <2>6. a \otimes lc = ca
    <3>1. a \otimes lc = l \otimes (a \otimes c)
      BY <1>1, TimesSwaps
    <3>2. a \otimes c = c \otimes a
      BY <1>1, TimesCommutes
    <3>3. l \otimes (c \otimes a) = c \otimes (l \otimes a)
      BY <1>1, TimesSwaps
    <3> QED BY <3>1, <3>2, <3>3
  <2> QED BY <2>1, <2>2, <2>3, <2>4, <2>5, <2>6
<1>5. ca = (2 \odot cf) \oplus tce
  <2>1. ca = (c \otimes (2 \odot f)) \oplus (c \otimes te)
    BY <1>1, <1>2, <1>3, TimesOver
  <2>2. c \otimes (2 \odot f) = 2 \odot cf
    BY <1>1, TimesOver
  <2>3. c \otimes te = tce
    BY <1>1, TimesSwaps
  <2> QED BY <2>1, <2>2, <2>3
<1> HIDE DEF aa, ma, st, lc, sta, cf, tce, te, ca
<1>6. aa = (((4 \odot ma) \oplus sta) \oplus (4 \odot cf)) \oplus (2 \odot tce)
  BY ONLY <1>1, <1>2, <1>4, <1>5 DEF Ints6, \oplus, \ominus, \odot
<1> QED BY <1>6 DEF aa, ma, sta, cf, tce

(* What the formulas compute from them: n is the product of y1 and y2, b   *)
(* three times the B of the curve.                                         *)
IsSum(l, c, s, m, t, one, n, b, plus, minus, last) ==
  /\ n = ((l \otimes (l \otimes m)) \oplus (l \otimes (c \otimes s))) \oplus (c \otimes c)
  /\ b = 3 \odot ((c \otimes c) \ominus (m \otimes t))
  /\ plus = n \oplus (b \oplus (s \otimes one))
  /\ minus = n \ominus (b \oplus (s \otimes one))
  /\ last = (b \otimes s) \oplus (one \otimes (m \ominus one))

LEMMA LineSums ==
  ASSUME NEW l, NEW c, NEW s, NEW m, NEW t, NEW e, NEW f, NEW one, NEW a,
         IsLine(l, c, s, m, t, e, f, one, a),
         NEW n, NEW b, NEW plus, NEW minus, NEW last,
         IsSum(l, c, s, m, t, one, n, b, plus, minus, last)
  PROVE  /\ plus = ((s \otimes a) \ominus (l \otimes f)) \oplus (2 \odot (c \otimes e))
         /\ minus = ((t \otimes a) \ominus (t \otimes (l \otimes e))) \ominus (c \otimes e)
         /\ last = ((4 \odot (m \otimes a)) \ominus (a \otimes a)) \oplus (3 \odot (c \otimes f))
<1> DEFINE ll == l \otimes l  lm == l \otimes m  cs == c \otimes s  cc == c \otimes c
           llm == l \otimes lm  lcs == l \otimes cs  mt == m \otimes t  sm == s \otimes m
           sa == s \otimes a  so == s \otimes one  lf == l \otimes f  ce == c \otimes e
           ta == t \otimes a  te == t \otimes e  tle == t \otimes (l \otimes e)
           la == l \otimes a
<1>1. /\ l \in Ints6 /\ c \in Ints6 /\ s \in Ints6 /\ m \in Ints6
      /\ t \in Ints6 /\ e \in Ints6 /\ f \in Ints6 /\ one \in Ints6 /\ a \in Ints6
      /\ 2 \in Int /\ 3 \in Int
  BY DEF IsLine
<1>2. /\ ll \in Ints6 /\ lm \in Ints6 /\ cs \in Ints6 /\ cc \in Ints6 /\ llm \in Ints6
      /\ lcs \in Ints6 /\ mt \in Ints6 /\ sm \in Ints6 /\ sa \in Ints6 /\ so \in Ints6
      /\ lf \in Ints6 /\ ce \in Ints6 /\ ta \in Ints6 /\ te \in Ints6 /\ tle \in Ints6
      /\ la \in Ints6 /\ 2 \odot c \in Ints6 /\ 3 \odot m \in Ints6 /\ 2 \odot lm \in Ints6
      /\ 2 \odot f \in Ints6
  BY <1>1, SixTyped
<1>3. /\ t = ll \ominus s /\ e = (l \otimes s) \oplus (2 \odot c)
      /\ f = (2 \odot lm) \oplus cs /\ a = (3 \odot m) \oplus one
      /\ n = (llm \oplus lcs) \oplus cc /\ b = 3 \odot (cc \ominus mt)
      /\ plus = n \oplus (b \oplus so) /\ minus = n \ominus (b \oplus so)
      /\ last = (b \otimes s) \oplus (one \otimes (m \ominus one))
  BY DEF IsLine, IsSum
<1>4. mt = llm \ominus sm
  <2>1. m \otimes ll = llm
    BY <1>1, TimesSwaps, TimesCommutes
  <2>2. mt = (m \otimes ll) \ominus (m \otimes s)
    BY <1>1, <1>2, <1>3, TimesOver
  <2> QED BY <1>1, <2>1, <2>2, TimesCommutes
<1>5. lf = (2 \odot llm) \oplus lcs
  <2>1. lf = (l \otimes (2 \odot lm)) \oplus lcs
    BY <1>1, <1>2, <1>3, TimesOver
  <2> QED BY <1>1, <1>2, <2>1, TimesOver
<1>6. ce = lcs \oplus (2 \odot cc)
  <2>1. ce = (c \otimes (l \otimes s)) \oplus (c \otimes (2 \odot c))
    <3>1. e = (l \otimes s) \oplus (2 \odot c) /\ l \otimes s \in Ints6
      BY <1>1, <1>3, SixTyped
    <3> QED BY <1>1, <1>2, <3>1, TimesOver
  <2>2. c \otimes (l \otimes s) = lcs /\ c \otimes (2 \odot c) = 2 \odot cc
    BY <1>1, TimesSwaps, TimesOver
  <2> QED BY <2>1, <2>2
<1>7. sa = (3 \odot sm) \oplus so
  <2>1. sa = (s \otimes (3 \odot m)) \oplus so
    BY <1>1, <1>2, <1>3, TimesOver
  <2> QED BY <1>1, <2>1, TimesOver
<1>8. ta = ((2 \odot lf) \oplus tle) \ominus sa
  <2>1. ta = (a \otimes ll) \ominus sa
    <3>1. ta = a \otimes (ll \ominus s) /\ sa = a \otimes s
      BY <1>1, <1>3, TimesCommutes
    <3> QED BY <1>1, <1>2, <3>1, TimesOver
  <2>2. a \otimes ll = l \otimes la
    BY <1>1, TimesSwaps, TimesCommutes
  <2>3. l \otimes la = (l \otimes (2 \odot f)) \oplus (l \otimes te)
    BY <1>1, <1>2, LineSlope, TimesOver
  <2>4. l \otimes (2 \odot f) = 2 \odot lf /\ l \otimes te = tle
    BY <1>1, TimesOver, TimesSwaps
  <2> QED BY <2>1, <2>2, <2>3, <2>4
<1> HIDE DEF ll, lm, cs, cc, llm, lcs, mt, sm, sa, so, lf, ce, ta, te, tle, la
<1>9. /\ plus = (sa \ominus lf) \oplus (2 \odot ce)
      /\ minus = (ta \ominus tle) \ominus ce
  <2>1. n \in Ints6 /\ b \in Ints6 /\ cc \ominus mt \in Ints6
    BY <1>2, <1>3, SixTyped
  <2>2. /\ n = (llm \oplus lcs) \oplus cc /\ b = 3 \odot (cc \ominus mt)
        /\ plus = n \oplus (b \oplus so) /\ minus = n \ominus (b \oplus so)
    BY <1>3
  <2>3. plus = (sa \ominus lf) \oplus (2 \odot ce)
    BY ONLY <1>1, <1>2, <1>4, <1>5, <1>6, <1>7, <2>1, <2>2 DEF Ints6, \oplus, \ominus, \odot
  <2>4. 2 \odot n = lf \oplus ce
    BY ONLY <1>2, <1>5, <1>6, <2>1, <2>2 DEF Ints6, \oplus, \ominus, \odot
  <2>5. minus = (2 \odot n) \ominus plus
    BY ONLY <1>2, <2>1, <2>2 DEF Ints6, \oplus, \ominus, \odot
  <2>6. minus = ((2 \odot lf) \ominus ce) \ominus sa
    BY ONLY <1>2, <2>3, <2>4, <2>5 DEF Ints6, \oplus, \ominus, \odot
  <2>7. minus = (ta \ominus tle) \ominus ce
    BY ONLY <1>2, <1>8, <2>6 DEF Ints6, \oplus, \ominus, \odot
  <2> QED BY <2>3, <2>7
<1> DEFINE mm == m \otimes m  mo == m \otimes one  oo == one \otimes one  cf == c \otimes f
           ma == m \otimes a  oa == one \otimes a  aa == a \otimes a  bs == b \otimes s
           mlc == m \otimes (l \otimes c)  mst == m \otimes (s \otimes t)  ccs == c \otimes cs
           om == one \otimes (m \ominus one)  lc == l \otimes c  st == s \otimes t
           smt == s \otimes mt
<1>10. /\ mm \in Ints6 /\ mo \in Ints6 /\ oo \in Ints6 /\ cf \in Ints6 /\ ma \in Ints6
       /\ oa \in Ints6 /\ aa \in Ints6 /\ mlc \in Ints6 /\ mst \in Ints6 /\ ccs \in Ints6
       /\ b \in Ints6 /\ bs \in Ints6 /\ lc \in Ints6 /\ st \in Ints6 /\ smt \in Ints6
       /\ cc \ominus mt \in Ints6 /\ 4 \odot m \in Ints6 /\ 2 \odot lc \in Ints6
       /\ (4 \odot m) \oplus st \in Ints6 /\ om \in Ints6 /\ 4 \in Int
  BY <1>1, <1>2, <1>3, SixTyped
<1>11. om = mo \ominus oo
  BY <1>1, TimesOver, TimesCommutes
<1>12. aa = (3 \odot ma) \oplus oa /\ ma = (3 \odot mm) \oplus mo /\ oa = (3 \odot mo) \oplus oo
  <2>1. \A x \in Ints6 : x \otimes a = (3 \odot (x \otimes m)) \oplus (x \otimes one)
    <3> TAKE x \in Ints6
    <3>1. x \otimes a = (x \otimes (3 \odot m)) \oplus (x \otimes one)
      BY <1>1, <1>2, <1>3, TimesOver
    <3> QED BY <1>1, <3>1, TimesOver
  <2> QED BY <1>1, <2>1, TimesCommutes
<1>13. ma = ((4 \odot mm) \oplus mst) \oplus (2 \odot mlc)
  <2>1. a = ((4 \odot m) \oplus st) \oplus (2 \odot lc)
    BY LineSlope
  <2>2. ma = (m \otimes ((4 \odot m) \oplus st)) \oplus (m \otimes (2 \odot lc))
    BY <1>1, <1>10, <2>1, TimesOver
  <2>3. m \otimes ((4 \odot m) \oplus st) = (m \otimes (4 \odot m)) \oplus mst
    BY <1>1, <1>10, TimesOver
  <2>4. m \otimes (4 \odot m) = 4 \odot mm /\ m \otimes (2 \odot lc) = 2 \odot mlc
    BY <1>1, <1>10, TimesOver
  <2> QED BY <2>2, <2>3, <2>4
<1>14. cf = (2 \odot mlc) \oplus ccs
  <2>1. cf = (c \otimes (2 \odot lm)) \oplus ccs
    BY <1>1, <1>2, <1>3, TimesOver
  <2>2. c \otimes (2 \odot lm) = 2 \odot (c \otimes lm)
    BY <1>1, <1>2, TimesOver
  <2>3. c \otimes lm = mlc
    <3>1. c \otimes lm = l \otimes (c \otimes m)
      BY <1>1, TimesSwaps DEF lm
    <3>2. mlc = l \otimes (m \otimes c)
      BY <1>1, TimesSwaps
    <3> QED BY <1>1, <3>1, <3>2, TimesCommutes
  <2> QED BY <2>1, <2>2, <2>3
<1>15. bs = 3 \odot (ccs \ominus mst)
  <2>1. bs = s \otimes b
    BY <1>1, <1>10, TimesCommutes
  <2>2. s \otimes b = 3 \odot (s \otimes (cc \ominus mt))
    BY <1>1, <1>3, <1>10, TimesOver
  <2>3. s \otimes (cc \ominus mt) = (s \otimes cc) \ominus smt
    BY <1>1, <1>2, TimesOver
  <2>4. s \otimes cc = ccs
    <3>1. s \otimes cc = c \otimes (s \otimes c)
      BY <1>1, TimesSwaps DEF cc
    <3> QED BY <1>1, <3>1, TimesCommutes DEF cs
  <2>5. smt = mst
    BY <1>1, TimesSwaps DEF mt
  <2> QED BY <2>1, <2>2, <2>3, <2>4, <2>5
<1> HIDE DEF mm, mo, oo, cf, ma, oa, aa, bs, mlc, mst, ccs, om, lc, st, smt
<1>16. last = ((4 \odot ma) \ominus aa) \oplus (3 \odot cf)
  <2>1. last = bs \oplus om
    BY <1>3 DEF bs, om
  <2> QED BY ONLY <1>10, <1>11, <1>12, <1>13, <1>14, <1>15, <2>1 DEF Ints6, \oplus, \ominus, \odot
<1> QED BY <1>9, <1>16 DEF sa, lf, ce, ta, tle, ma, aa, cf

(* The formulas' third point of the line, mirrored, times z.               *)
LEMMA LineThird ==
  ASSUME NEW l, NEW c, NEW s, NEW m, NEW t, NEW e, NEW f, NEW one, NEW a,
         IsLine(l, c, s, m, t, e, f, one, a),
         NEW n, NEW b, NEW plus, NEW minus, NEW last,
         IsSum(l, c, s, m, t, one, n, b, plus, minus, last),
         NEW z, z = (e \otimes plus) \oplus (f \otimes a)
  PROVE  /\ (f \otimes minus) \ominus (e \otimes last) = t \otimes z
         /\ (minus \otimes plus) \oplus (a \otimes last)
              = (-1) \odot (((l \otimes t) \oplus c) \otimes z)
<1> DEFINE le == l \otimes e  lf == l \otimes f  ma == m \otimes a  sa == s \otimes a
           ta == t \otimes a  fa == f \otimes a  ce == c \otimes e  cf == c \otimes f
           aa == a \otimes a  tle == t \otimes le  tsa == t \otimes sa  tce == t \otimes ce
           ep == e \otimes plus  tp == t \otimes plus  tlf == t \otimes lf
<1>1. /\ l \in Ints6 /\ c \in Ints6 /\ s \in Ints6 /\ m \in Ints6
      /\ t \in Ints6 /\ e \in Ints6 /\ f \in Ints6 /\ one \in Ints6 /\ a \in Ints6
      /\ -1 \in Int /\ 2 \in Int /\ 3 \in Int /\ 4 \in Int
  BY DEF IsLine
<1>2. /\ le \in Ints6 /\ lf \in Ints6 /\ ma \in Ints6 /\ sa \in Ints6 /\ ta \in Ints6
      /\ fa \in Ints6 /\ ce \in Ints6 /\ cf \in Ints6 /\ aa \in Ints6 /\ tle \in Ints6
      /\ tsa \in Ints6 /\ tce \in Ints6 /\ tlf \in Ints6
      /\ sa \ominus lf \in Ints6 /\ 2 \odot ce \in Ints6 /\ ta \ominus tle \in Ints6
      /\ 4 \odot ma \in Ints6 /\ (4 \odot ma) \ominus aa \in Ints6 /\ 3 \odot cf \in Ints6
      /\ 4 \odot cf \in Ints6 /\ 2 \odot tce \in Ints6 /\ (4 \odot ma) \oplus tsa \in Ints6
      /\ ((4 \odot ma) \oplus tsa) \oplus (4 \odot cf) \in Ints6
  BY <1>1, SixTyped
<1>3. /\ plus = (sa \ominus lf) \oplus (2 \odot ce)
      /\ minus = (ta \ominus tle) \ominus ce
      /\ last = ((4 \odot ma) \ominus aa) \oplus (3 \odot cf)
  BY LineSums
<1>4. aa = (((4 \odot ma) \oplus tsa) \oplus (4 \odot cf)) \oplus (2 \odot tce)
  BY LineSquare
<1>5. /\ plus \in Ints6 /\ minus \in Ints6 /\ last \in Ints6
      /\ ep \in Ints6 /\ tp \in Ints6 /\ z = ep \oplus fa /\ z \in Ints6
  BY <1>1, <1>2, <1>3, SixTyped
<1>6. \A x \in Ints6 :
        /\ x \otimes plus = ((x \otimes sa) \ominus (x \otimes lf)) \oplus (2 \odot (x \otimes ce))
        /\ x \otimes minus = ((x \otimes ta) \ominus (x \otimes tle)) \ominus (x \otimes ce)
  <2> TAKE x \in Ints6
  <2>1. x \otimes plus = (x \otimes (sa \ominus lf)) \oplus (x \otimes (2 \odot ce))
    BY ONLY <1>2, <1>3, TimesOver, x \in Ints6
  <2>2. x \otimes minus = (x \otimes (ta \ominus tle)) \ominus (x \otimes ce)
    BY ONLY <1>2, <1>3, TimesOver, x \in Ints6
  <2>3. /\ x \otimes (sa \ominus lf) = (x \otimes sa) \ominus (x \otimes lf)
        /\ x \otimes (2 \odot ce) = 2 \odot (x \otimes ce)
        /\ x \otimes (ta \ominus tle) = (x \otimes ta) \ominus (x \otimes tle)
    BY <1>1, <1>2, TimesOver
  <2> QED BY <2>1, <2>2, <2>3
<1>7. (f \otimes minus) \ominus (e \otimes last) = t \otimes z
  <2> DEFINE v1 == t \otimes fa  v2 == t \otimes (e \otimes lf)  v3 == e \otimes cf
             v4 == e \otimes ma  v5 == t \otimes (e \otimes sa)  v6 == t \otimes (e \otimes ce)
             v7 == e \otimes aa
             esa == e \otimes sa  elf == e \otimes lf  ece == e \otimes ce
             fm == f \otimes minus  el == e \otimes last  tz == t \otimes z
  <2>1. /\ v1 \in Ints6 /\ v2 \in Ints6 /\ v3 \in Ints6 /\ v4 \in Ints6 /\ v5 \in Ints6
        /\ v6 \in Ints6 /\ v7 \in Ints6 /\ esa \in Ints6 /\ elf \in Ints6 /\ ece \in Ints6
        /\ esa \ominus elf \in Ints6 /\ 2 \odot ece \in Ints6
        /\ fm \in Ints6 /\ el \in Ints6 /\ tz \in Ints6
    BY <1>1, <1>2, <1>5, SixTyped
  <2>2. fm = (v1 \ominus v2) \ominus v3
    <3>1. f \otimes ta = v1
      BY <1>1, TimesSwaps
    <3>2. f \otimes tle = v2
      <4>1. f \otimes tle = t \otimes (f \otimes le)
        BY <1>1, <1>2, TimesSwaps
      <4>2. f \otimes le = e \otimes lf
        BY <1>1, TimesTurns
      <4> QED BY <4>1, <4>2
    <3>3. f \otimes ce = v3
      BY <1>1, TimesTurns
    <3> QED BY <1>1, <1>6, <3>1, <3>2, <3>3
  <2>3. el = ((4 \odot v4) \ominus v7) \oplus (3 \odot v3)
    <3>1. el = (e \otimes ((4 \odot ma) \ominus aa)) \oplus (e \otimes (3 \odot cf))
      BY <1>1, <1>2, <1>3, TimesOver
    <3>2. e \otimes ((4 \odot ma) \ominus aa) = (e \otimes (4 \odot ma)) \ominus v7
      BY <1>1, <1>2, TimesOver
    <3>3. e \otimes (4 \odot ma) = 4 \odot v4 /\ e \otimes (3 \odot cf) = 3 \odot v3
      BY <1>1, <1>2, TimesOver
    <3> QED BY <3>1, <3>2, <3>3
  <2>4. v7 = (((4 \odot v4) \oplus v5) \oplus (4 \odot v3)) \oplus (2 \odot v6)
    <3>1. v7 = (e \otimes (((4 \odot ma) \oplus tsa) \oplus (4 \odot cf))) \oplus (e \otimes (2 \odot tce))
      BY <1>1, <1>2, <1>4, TimesOver
    <3>2. e \otimes (((4 \odot ma) \oplus tsa) \oplus (4 \odot cf))
            = (e \otimes ((4 \odot ma) \oplus tsa)) \oplus (e \otimes (4 \odot cf))
      BY <1>1, <1>2, TimesOver
    <3>3. e \otimes ((4 \odot ma) \oplus tsa) = (e \otimes (4 \odot ma)) \oplus (e \otimes tsa)
      BY <1>1, <1>2, TimesOver
    <3>4. /\ e \otimes (4 \odot ma) = 4 \odot v4 /\ e \otimes (4 \odot cf) = 4 \odot v3
          /\ e \otimes (2 \odot tce) = 2 \odot (e \otimes tce)
      BY <1>1, <1>2, TimesOver
    <3>5. e \otimes tsa = v5 /\ e \otimes tce = v6
      BY <1>1, <1>2, TimesSwaps
    <3> QED BY <3>1, <3>2, <3>3, <3>4, <3>5
  <2>5. tz = ((v5 \ominus v2) \oplus (2 \odot v6)) \oplus v1
    <3>1. tz = (t \otimes ep) \oplus v1
      BY <1>1, <1>2, <1>5, TimesOver
    <3>2. ep = (esa \ominus elf) \oplus (2 \odot ece)
      BY <1>1, <1>6
    <3>3. t \otimes ep = (t \otimes (esa \ominus elf)) \oplus (t \otimes (2 \odot ece))
      BY <1>1, <2>1, <3>2, TimesOver
    <3>4. t \otimes (esa \ominus elf) = v5 \ominus v2 /\ t \otimes (2 \odot ece) = 2 \odot v6
      BY <1>1, <2>1, TimesOver
    <3> QED BY <3>1, <3>3, <3>4
  <2> HIDE DEF v1, v2, v3, v4, v5, v6, v7, fm, el, tz
  <2>6. el = (((-1) \odot v5) \ominus v3) \ominus (2 \odot v6)
    BY ONLY <2>1, <2>3, <2>4 DEF Ints6, \oplus, \ominus, \odot
  <2>7. fm \ominus el = tz
    BY ONLY <2>1, <2>2, <2>5, <2>6 DEF Ints6, \oplus, \ominus, \odot
  <2> QED BY <2>7 DEF fm, el, tz
<1>8. (minus \otimes plus) \oplus (a \otimes last)
        = (-1) \odot (((l \otimes t) \oplus c) \otimes z)
  <2> DEFINE lt == l \otimes t  w1 == a \otimes tp  w2 == a \otimes tlf  w3 == a \otimes cf
             w4 == lt \otimes ep  w5 == c \otimes ep
             mp == minus \otimes plus  al == a \otimes last  gz == (lt \oplus c) \otimes z
  <2>1. /\ lt \in Ints6 /\ w1 \in Ints6 /\ w2 \in Ints6 /\ w3 \in Ints6 /\ w4 \in Ints6
        /\ w5 \in Ints6 /\ mp \in Ints6 /\ al \in Ints6 /\ gz \in Ints6
        /\ lt \oplus c \in Ints6 /\ tp \oplus tlf \in Ints6 /\ (tp \oplus tlf) \oplus cf \in Ints6
    BY <1>1, <1>2, <1>5, SixTyped
  <2>2. mp = (w1 \ominus w4) \ominus w5
    <3>1. mp = plus \otimes minus
      BY <1>5, TimesCommutes
    <3>2. plus \otimes ta = w1
      <4>1. plus \otimes ta = a \otimes (t \otimes plus)
        BY <1>1, <1>5, TimesTurns
      <4> QED BY <4>1
    <3>3. plus \otimes tle = w4
      <4>1. tle = e \otimes lt
        BY <1>1, TimesTurns, TimesCommutes
      <4>2. plus \otimes (e \otimes lt) = lt \otimes (e \otimes plus)
        BY <1>1, <1>5, <2>1, TimesTurns
      <4> QED BY <4>1, <4>2
    <3>4. plus \otimes ce = w5
      <4>1. plus \otimes (c \otimes e) = c \otimes (plus \otimes e)
        BY <1>1, <1>5, TimesSwaps
      <4> QED BY <1>1, <1>5, <4>1, TimesCommutes
    <3> QED BY <1>5, <1>6, <3>1, <3>2, <3>3, <3>4
  <2>3. gz = (w4 \oplus w2) \oplus (w5 \oplus w3)
    <3>1. gz = (z \otimes lt) \oplus (z \otimes c)
      <4>1. z \in Ints6 /\ lt \in Ints6 /\ c \in Ints6 /\ lt \oplus c \in Ints6
        BY <1>1, <1>5, <2>1
      <4> QED BY ONLY <4>1, TimesCommutes, TimesOver
    <3>2. \A x \in Ints6 : z \otimes x = (x \otimes ep) \oplus (x \otimes fa)
      BY <1>2, <1>5, TimesCommutes, TimesOver
    <3>3. lt \otimes fa = w2
      <4>1. lt \otimes (f \otimes a) = a \otimes (f \otimes lt)
        BY <1>1, <2>1, TimesTurns
      <4>2. f \otimes (l \otimes t) = t \otimes (l \otimes f)
        BY <1>1, TimesTurns
      <4> QED BY <4>1, <4>2
    <3>4. c \otimes fa = w3
      <4>1. c \otimes (f \otimes a) = a \otimes (f \otimes c)
        BY <1>1, TimesTurns
      <4> QED BY <1>1, <4>1, TimesCommutes
    <3> QED BY <1>1, <2>1, <3>1, <3>2, <3>3, <3>4
  <2>4. last = (-1) \odot ((tp \oplus tlf) \oplus cf)
    <3>1. tp = (tsa \ominus tlf) \oplus (2 \odot tce)
      BY <1>1, <1>6
    <3> HIDE DEF ma, aa, tsa, tce, tlf, tp, cf
    <3>2. /\ ma \in Ints6 /\ aa \in Ints6 /\ tsa \in Ints6 /\ tce \in Ints6 /\ cf \in Ints6
          /\ last = ((4 \odot ma) \ominus aa) \oplus (3 \odot cf)
      BY <1>2, <1>3
    <3>3. last = (((-1) \odot tsa) \ominus (2 \odot tce)) \ominus cf
      BY ONLY <3>2, <1>4 DEF Ints6, \oplus, \ominus, \odot
    <3> QED BY ONLY <1>2, <1>5, <3>1, <3>3 DEF Ints6, \oplus, \ominus, \odot
  <2>5. al = (-1) \odot ((w1 \oplus w2) \oplus w3)
    <3>1. al = (-1) \odot (a \otimes ((tp \oplus tlf) \oplus cf))
      BY <1>1, <2>1, <2>4, TimesOver
    <3>2. a \otimes ((tp \oplus tlf) \oplus cf) = (a \otimes (tp \oplus tlf)) \oplus w3
      <4>1. a \in Ints6 /\ tp \oplus tlf \in Ints6 /\ cf \in Ints6
        BY <1>1, <1>2, <2>1
      <4> QED BY ONLY <4>1, TimesOver
    <3>3. a \otimes (tp \oplus tlf) = w1 \oplus w2
      BY <1>1, <1>2, <1>5, TimesOver
    <3> QED BY <3>1, <3>2, <3>3
  <2> HIDE DEF w1, w2, w3, w4, w5, mp, al, gz
  <2>6. mp \oplus al = (-1) \odot gz
    BY ONLY <2>1, <2>2, <2>3, <2>5 DEF Ints6, \oplus, \ominus, \odot
  <2> QED BY <2>6 DEF mp, al, gz, lt
<1> QED BY <1>7, <1>8

(* Seen from the line through the point with x1 and the mirror of the one  *)
(* with x2, whose x differ by d: z is the cube of d times the y of its     *)
(* third point.                                                            *)
LEMMA LineAcross ==
  ASSUME NEW l, NEW c, NEW s, NEW m, NEW t, NEW e, NEW f, NEW one, NEW a,
         IsLine(l, c, s, m, t, e, f, one, a),
         NEW n, NEW b, NEW plus, NEW minus, NEW last,
         IsSum(l, c, s, m, t, one, n, b, plus, minus, last),
         NEW d \in Ints6, d \otimes d = (l \otimes e) \ominus a
  PROVE  (((l \otimes d) \otimes ((-1) \odot minus)) \oplus (((-1) \odot (c \otimes d)) \otimes a))
           = d \otimes ((d \otimes d) \otimes ((l \otimes t) \oplus c))
<1> DEFINE ld == l \otimes d  cd == c \otimes d  dd == d \otimes d  le == l \otimes e
           ce == c \otimes e  ta == t \otimes a  tle == t \otimes le  lt == l \otimes t
           tdd == t \otimes dd  nm == (-1) \odot minus  nc == (-1) \odot cd
<1>1. /\ l \in Ints6 /\ c \in Ints6 /\ s \in Ints6 /\ m \in Ints6
      /\ t \in Ints6 /\ e \in Ints6 /\ f \in Ints6 /\ one \in Ints6 /\ a \in Ints6
      /\ -1 \in Int
  BY DEF IsLine
<1>2. /\ ld \in Ints6 /\ cd \in Ints6 /\ dd \in Ints6 /\ le \in Ints6 /\ ce \in Ints6
      /\ ta \in Ints6 /\ tle \in Ints6 /\ lt \in Ints6 /\ tdd \in Ints6 /\ nc \in Ints6
      /\ ta \ominus tle \in Ints6 /\ lt \oplus c \in Ints6
  BY <1>1, SixTyped
<1>3. minus = (ta \ominus tle) \ominus ce
  BY LineSums
<1>4. tdd = tle \ominus ta
  BY <1>1, <1>2, TimesOver
<1>5. nm = tdd \oplus ce
  <2> HIDE DEF tdd, ta, tle, ce
  <2> QED BY ONLY <1>2, <1>3, <1>4 DEF Ints6, \oplus, \ominus, \odot, nm
<1> DEFINE u1 == d \otimes (dd \otimes lt)  u2 == d \otimes (dd \otimes c)  u3 == ld \otimes ce
           p1 == ld \otimes nm  p2 == nc \otimes a  q == d \otimes (dd \otimes (lt \oplus c))
<1>6. u1 \in Ints6 /\ u2 \in Ints6 /\ u3 \in Ints6 /\ dd \otimes lt \in Ints6 /\ dd \otimes c \in Ints6
  BY <1>1, <1>2, SixTyped
<1>7. p1 = u1 \oplus u3
  <2>1. p1 = (ld \otimes tdd) \oplus u3
    BY <1>2, <1>5, TimesOver
  <2>2. ld \otimes tdd = u1
    <3>1. ld = d \otimes l
      BY <1>1, TimesCommutes
    <3>2. (d \otimes l) \otimes tdd = d \otimes (l \otimes tdd)
      BY <1>1, <1>2, RingLaws
    <3>3. l \otimes (t \otimes dd) = dd \otimes (t \otimes l)
      BY <1>1, <1>2, TimesTurns
    <3> QED BY <1>1, <3>1, <3>2, <3>3, TimesCommutes
  <2> QED BY <2>1, <2>2
<1>8. p2 = u2 \ominus u3
  <2>1. p2 = a \otimes nc /\ a \otimes nc = (-1) \odot (a \otimes cd)
    BY <1>1, <1>2, TimesCommutes, TimesOver
  <2>2. a \otimes cd = cd \otimes a
    BY <1>1, <1>2, TimesCommutes
  <2>3. cd \otimes dd = (cd \otimes le) \ominus (cd \otimes a)
    BY <1>1, <1>2, TimesOver
  <2>4. cd \otimes dd = u2
    <3>1. cd = d \otimes c
      BY <1>1, TimesCommutes
    <3>2. (d \otimes c) \otimes dd = d \otimes (c \otimes dd)
      BY <1>1, <1>2, RingLaws
    <3> QED BY <1>1, <1>2, <3>1, <3>2, TimesCommutes
  <2>5. cd \otimes le = u3
    <3>1. (d \otimes c) \otimes le = d \otimes (c \otimes le) /\ (d \otimes l) \otimes ce = d \otimes (l \otimes ce)
      BY <1>1, <1>2, RingLaws
    <3>2. c \otimes le = l \otimes ce
      BY <1>1, TimesSwaps
    <3>3. cd = d \otimes c /\ ld = d \otimes l
      BY <1>1, TimesCommutes
    <3> QED BY <3>1, <3>2, <3>3
  <2> DEFINE r == cd \otimes a
  <2>6. r \in Ints6 /\ u2 = u3 \ominus r /\ p2 = (-1) \odot r
    BY <1>1, <1>2, <2>1, <2>2, <2>3, <2>4, <2>5, SixTyped
  <2> HIDE DEF u2, u3, r, p2
  <2> QED BY ONLY <1>6, <2>6 DEF Ints6, \oplus, \ominus, \odot
<1>9. q = u1 \oplus u2
  <2>1. dd \otimes (lt \oplus c) = (dd \otimes lt) \oplus (dd \otimes c)
    BY <1>1, <1>2, TimesOver
  <2> QED BY <1>6, <2>1, TimesOver
<1> HIDE DEF u1, u2, u3, p1, p2, q
<1>10. p1 \oplus p2 = q
  BY ONLY <1>6, <1>7, <1>8, <1>9 DEF Ints6, \oplus, \ominus, \odot
<1> QED BY <1>10 DEF p1, p2, q, ld, nm, nc, cd, dd, lt

(* Sums, lifted.                                                           *)
LEMMA LiftsSums ==
  ASSUME NEW a, NEW A, Lifts6(a, A), NEW b, NEW B, Lifts6(b, B)
  PROVE  /\ Lifts6(Add(a, b), A \oplus B) /\ Lifts6(Sub(a, b), A \ominus B)
         /\ Lifts6(Neg(a), (-1) \odot A) /\ Lifts6(Double(a), 2 \odot A)
         /\ Lifts6(Triple(a), 3 \odot A)
<1>1. /\ a \in Fp6 /\ b \in Fp6 /\ A \in Ints6 /\ B \in Ints6
      /\ DOMAIN a = 1 .. 6 /\ -1 \in Int /\ 2 \in Int /\ 3 \in Int
  BY DEF Lifts6, Fp6
<1>2. /\ A \oplus B \in Ints6 /\ A \ominus B \in Ints6 /\ (-1) \odot A \in Ints6
      /\ 2 \odot A \in Ints6 /\ 3 \odot A \in Ints6
  BY <1>1, SixTyped
<1>3. /\ Add(a, b) \in Fp6 /\ Sub(a, b) \in Fp6 /\ Neg(a) \in Fp6 /\ Double(a) \in Fp6
      /\ Triple(a) \in Fp6
  BY <1>1, Fp6Typed DEF Triple
<1>4. ASSUME NEW i \in 1 .. 6
      PROVE  /\ Alike(Add(a, b)[i], (A \oplus B)[i]) /\ Alike(Sub(a, b)[i], (A \ominus B)[i])
             /\ Alike(Neg(a)[i], ((-1) \odot A)[i]) /\ Alike(Double(a)[i], (2 \odot A)[i])
             /\ Alike(Triple(a)[i], (3 \odot A)[i])
  <2> DEFINE x == a[i]  y == b[i]  X == A[i]  Y == B[i]
  <2>1. x \in Int /\ y \in Int /\ X \in Int /\ Y \in Int /\ Alike(x, X) /\ Alike(y, Y)
    BY <1>1, FieldNumbers DEF Lifts6, Ints6, Fp6
  <2>2. /\ Add(a, b)[i] = (x + y) % P /\ Sub(a, b)[i] = (x - y) % P /\ Neg(a)[i] = (-x) % P
        /\ Double(a)[i] = (x + x) % P
    BY <1>1 DEF Add, Sub, Neg, Double
  <2>3. Triple(a)[i] = (((x + x) % P) + x) % P
    <3>1. DOMAIN Double(a) = 1 .. 6
      BY <1>3 DEF Fp6
    <3> QED BY <2>2, <3>1 DEF Triple, Add
  <2>4. /\ (A \oplus B)[i] = X + Y /\ (A \ominus B)[i] = X - Y /\ ((-1) \odot A)[i] = 0 - X
        /\ (2 \odot A)[i] = X + X /\ (3 \odot A)[i] = (X + X) + X
    BY <2>1 DEF \oplus, \ominus, \odot
  <2>5. 0 - x = -x
    BY <2>1
  <2> HIDE DEF x, y, X, Y
  <2>6. /\ Alike((x + y) % P, X + Y) /\ Alike((x - y) % P, X - Y)
        /\ Alike((0 - x) % P, 0 - X) /\ Alike((x + x) % P, X + X)
        /\ Alike((((x + x) % P) + x) % P, (X + X) + X)
    <3>1. /\ Alike(x + y, X + Y) /\ Alike(x - y, X - Y) /\ Alike(x + x, X + X)
      BY <2>1, AlikeOps
    <3>2. Alike(0 - x, 0 - X)
      <4>1. Alike(0, 0)
        BY DEF Alike
      <4> QED BY <2>1, <4>1, AlikeOps
    <3>3. \A u, U \in Int : Alike(u, U) => u % P \in Int /\ Alike(u % P, U)
      BY AlikeMeans, Residue, FieldNumbers DEF Alike
    <3>4. x + y \in Int /\ x - y \in Int /\ 0 - x \in Int /\ x + x \in Int
            /\ X + Y \in Int /\ X - Y \in Int /\ 0 - X \in Int /\ X + X \in Int
      BY <2>1
    <3>5. /\ Alike((x + y) % P, X + Y) /\ Alike((x - y) % P, X - Y)
          /\ Alike((0 - x) % P, 0 - X) /\ Alike((x + x) % P, X + X) /\ (x + x) % P \in Int
      BY <3>1, <3>2, <3>3, <3>4
    <3> DEFINE r == (x + x) % P
               R == X + X
    <3>6. r \in Int /\ R \in Int /\ Alike(r, R)
      BY <3>4, <3>5
    <3> HIDE DEF r, R
    <3>7. Alike(r + x, R + X) /\ r + x \in Int /\ R + X \in Int
      BY <2>1, <3>6, AlikeOps
    <3>8. Alike((r + x) % P, R + X)
      BY <3>3, <3>7
    <3> QED BY <3>5, <3>8 DEF r, R
  <2> QED BY <2>2, <2>3, <2>4, <2>5, <2>6
<1> QED BY <1>1, <1>2, <1>3, <1>4 DEF Lifts6

LEMMA LiftsTimes ==
  ASSUME NEW a, NEW A, Lifts6(a, A), NEW b, NEW B, Lifts6(b, B)
  PROVE  Lifts6(MulFp6(a, b), A \otimes B)
BY LiftsMul DEF \otimes

(* Fp6 is a field.                                                         *)
LEMMA FieldLaws ==
  ASSUME NEW a \in Fp6, NEW b \in Fp6, NEW c \in Fp6
  PROVE  /\ MulFp6(a, b) = MulFp6(b, a)
         /\ MulFp6(a, Add(b, c)) = Add(MulFp6(a, b), MulFp6(a, c))
         /\ MulFp6(a, Sub(b, c)) = Sub(MulFp6(a, b), MulFp6(a, c))
         /\ MulFp6(a, Neg(b)) = Neg(MulFp6(a, b))
         /\ MulFp6(a, Double(b)) = Double(MulFp6(a, b))
         /\ MulFp6(a, Triple(b)) = Triple(MulFp6(a, b))
<1>1. Lifts6(a, a) /\ Lifts6(b, b) /\ Lifts6(c, c) /\ a \in Ints6 /\ b \in Ints6 /\ c \in Ints6
  BY LiftsOwn DEF Lifts6
<1>2. /\ Lifts6(MulFp6(a, b), a \otimes b) /\ Lifts6(MulFp6(b, a), b \otimes a)
      /\ Lifts6(MulFp6(a, c), a \otimes c)
  BY <1>1, LiftsTimes
<1>3. /\ Lifts6(Add(b, c), b \oplus c) /\ Lifts6(Sub(b, c), b \ominus c)
      /\ Lifts6(Neg(b), (-1) \odot b) /\ Lifts6(Double(b), 2 \odot b) /\ Lifts6(Triple(b), 3 \odot b)
  BY <1>1, LiftsSums
<1>4. MulFp6(a, b) = MulFp6(b, a)
  BY <1>1, <1>2, TimesCommutes, LiftsSame
<1>5. MulFp6(a, Add(b, c)) = Add(MulFp6(a, b), MulFp6(a, c))
  <2>1. Lifts6(MulFp6(a, Add(b, c)), a \otimes (b \oplus c))
    BY <1>1, <1>3, LiftsTimes
  <2>2. Lifts6(Add(MulFp6(a, b), MulFp6(a, c)), (a \otimes b) \oplus (a \otimes c))
    BY <1>2, LiftsSums
  <2> QED BY <1>1, <2>1, <2>2, TimesOver, LiftsSame
<1>6. MulFp6(a, Sub(b, c)) = Sub(MulFp6(a, b), MulFp6(a, c))
  <2>1. Lifts6(MulFp6(a, Sub(b, c)), a \otimes (b \ominus c))
    BY <1>1, <1>3, LiftsTimes
  <2>2. Lifts6(Sub(MulFp6(a, b), MulFp6(a, c)), (a \otimes b) \ominus (a \otimes c))
    BY <1>2, LiftsSums
  <2> QED BY <1>1, <2>1, <2>2, TimesOver, LiftsSame
<1>7. /\ MulFp6(a, Neg(b)) = Neg(MulFp6(a, b))
      /\ MulFp6(a, Double(b)) = Double(MulFp6(a, b))
      /\ MulFp6(a, Triple(b)) = Triple(MulFp6(a, b))
  <2>1. /\ Lifts6(MulFp6(a, Neg(b)), a \otimes ((-1) \odot b))
        /\ Lifts6(MulFp6(a, Double(b)), a \otimes (2 \odot b))
        /\ Lifts6(MulFp6(a, Triple(b)), a \otimes (3 \odot b))
    BY <1>1, <1>3, LiftsTimes
  <2>2. /\ Lifts6(Neg(MulFp6(a, b)), (-1) \odot (a \otimes b))
        /\ Lifts6(Double(MulFp6(a, b)), 2 \odot (a \otimes b))
        /\ Lifts6(Triple(MulFp6(a, b)), 3 \odot (a \otimes b))
    BY <1>2, LiftsSums
  <2>3. -1 \in Int /\ 2 \in Int /\ 3 \in Int
    OBVIOUS
  <2> QED BY <1>1, <2>1, <2>2, <2>3, TimesOver, LiftsSame
<1> QED BY <1>4, <1>5, <1>6, <1>7

LEMMA MulCancels ==
  ASSUME NEW a \in Fp6, NEW b \in Fp6, NEW c \in Fp6 \ {Zero6},
         MulFp6(a, c) = MulFp6(b, c)
  PROVE  a = b
BY InvertFp6Inverts

LEMMA MulNotZero ==
  ASSUME NEW a \in Fp6 \ {Zero6}, NEW b \in Fp6 \ {Zero6}
  PROVE  MulFp6(a, b) \in Fp6 \ {Zero6}
<1>1. MulFp6(a, b) \in Fp6 /\ Zero6 \in Fp6
  BY Fp6Typed, ZeroTyped
<1>2. MulFp6(Zero6, b) = Zero6
  BY MulUnits
<1> QED BY <1>1, <1>2, MulCancels

LEMMA MulDivides ==
  ASSUME NEW a \in Fp6, NEW b \in Fp6 \ {Zero6}
  PROVE  \E l \in Fp6 : MulFp6(l, b) = a
<1> DEFINE i == InvertFp6(b)
           l == MulFp6(a, i)
<1>1. i \in Fp6 /\ l \in Fp6
  BY Fp6Typed
<1>2. MulFp6(l, b) = MulFp6(a, MulFp6(i, b)) /\ MulFp6(i, b) = MulFp6(b, i)
  BY <1>1, MulAssociates, FieldLaws
<1>3. MulFp6(a, MulFp6(b, i)) = MulFp6(MulFp6(a, b), i)
  BY <1>1, MulAssociates
<1>4. MulFp6(MulFp6(a, b), i) = a
  BY InvertFp6Inverts
<1> QED BY <1>1, <1>2, <1>3, <1>4

(* Neither two nor three is zero: u^2 - 2u - 2 has no root 0 and no root 1.*)
LEMMA TwoAndThree ==
  ASSUME NEW a \in Fp6
  PROVE  /\ Double(a) = Zero6 => a = Zero6
         /\ \A b \in Fp6 : Triple(a) = Triple(b) => a = b
<1> DEFINE two == Double(One6)
           three == Triple(One6)
<1>1. One6 \in Fp6 /\ Zero6 \in Fp6 /\ two \in Fp6 /\ three \in Fp6 /\ One6[1] = 1 /\ Zero6[1] = 0
  <2>1. One6[1] = 1 /\ Zero6[1] = 0
    BY DEF One6, Zero6
  <2> QED BY <2>1, ZeroTyped, Fp6Typed DEF Triple
<1>2. two # Zero6 /\ three # Zero6
  <2>1. /\ Lifts6(two, 2 \odot One6) /\ Lifts6(three, 3 \odot One6)
    BY <1>1, LiftsOwn, LiftsSums
  <2>2. (2 \odot One6)[1] = 2 /\ (3 \odot One6)[1] = 3
    BY <1>1 DEF \odot
  <2>3. Alike(two[1], 2) /\ Alike(three[1], 3)
    BY <2>1, <2>2 DEF Lifts6
  <2>4. ~Alike(0, 2) /\ ~Alike(0, 3)
    <3>1. 0 \in Field /\ 1 \in Field
      BY FieldAssumption DEF Field
    <3>2. (0 * 0 - 2 * 0 - 2) % P # 0 /\ (1 * 1 - 2 * 1 - 2) % P # 0
      BY <3>1, RootAssumption
    <3>3. 0 * 0 - 2 * 0 - 2 = -2 /\ 1 * 1 - 2 * 1 - 2 = -3
      OBVIOUS
    <3>4. (-2) % P # 0 /\ (-3) % P # 0
      BY <3>2, <3>3
    <3>5. P \in Nat \ {0} /\ 0 % P = 0
      BY FieldAssumption
    <3>6. ASSUME NEW n \in Int, Alike(0, n) PROVE (0 - n) % P = 0
      <4>1. Alike(n - n, 0 - n)
        BY <3>6, AlikeOps DEF Alike
      <4>2. n - n = 0
        OBVIOUS
      <4> QED BY <3>5, <4>1, <4>2 DEF Alike
    <3>7. 0 - 2 = -2 /\ 0 - 3 = -3 /\ 2 \in Int /\ 3 \in Int
      OBVIOUS
    <3> QED BY <3>4, <3>6, <3>7
  <2> QED BY <1>1, <2>3, <2>4
<1>3. \A x \in Fp6 : Double(x) = MulFp6(x, two) /\ Triple(x) = MulFp6(x, three)
  BY <1>1, FieldLaws, MulUnits
<1>4. Double(a) = Zero6 => a = Zero6
  BY <1>1, <1>2, <1>3, MulNotZero
<1>5. \A b \in Fp6 : Triple(a) = Triple(b) => a = b
  BY <1>1, <1>2, <1>3, MulCancels
<1> QED BY <1>4, <1>5

(* The points of a line, their sums and products, lifted.                  *)
LEMMA LineParts ==
  ASSUME NEW x \in Ints6, NEW x2 \in Ints6, NEW l \in Ints6, NEW c \in Ints6,
         NEW s, s = x \oplus x2, NEW m, m = x \otimes x2, NEW t, NEW e, NEW f, NEW one, NEW a,
         IsLine(l, c, s, m, t, e, f, one, a),
         NEW y, y = (l \otimes x) \oplus c, NEW y2, y2 = (l \otimes x2) \oplus c
  PROVE  /\ y \oplus y2 = e /\ (x \otimes y2) \oplus (y \otimes x2) = f
         /\ y \otimes y2 = ((l \otimes (l \otimes m)) \oplus (l \otimes (c \otimes s))) \oplus (c \otimes c)
         /\ (3 \odot (y \otimes y)) \ominus (3 \odot (((x \otimes x) \otimes x) \oplus (x \otimes one)))
              = 3 \odot ((c \otimes c) \ominus (m \otimes t))
         /\ (x \ominus x2) \otimes (x \ominus x2) = (l \otimes e) \ominus a
         /\ y \ominus y2 = l \otimes (x \ominus x2)
         /\ (y \otimes x2) \ominus (x \otimes y2) = (-1) \odot (c \otimes (x \ominus x2))
<1> DEFINE lx == l \otimes x  lz == l \otimes x2  ls == l \otimes s  lm == l \otimes m
           cx == c \otimes x  cz == c \otimes x2  cs == c \otimes s  cc == c \otimes c
           xx == x \otimes x  zz == x2 \otimes x2  ss == s \otimes s  le == l \otimes e
           mt == m \otimes t  xo == x \otimes one  xxx == xx \otimes x  yy == y \otimes y
           d == x \ominus x2
<1>1. /\ s \in Ints6 /\ m \in Ints6 /\ t \in Ints6 /\ e \in Ints6 /\ f \in Ints6
      /\ one \in Ints6 /\ a \in Ints6 /\ -1 \in Int /\ 2 \in Int /\ 3 \in Int
  BY DEF IsLine
<1>2. /\ lx \in Ints6 /\ lz \in Ints6 /\ ls \in Ints6 /\ lm \in Ints6 /\ cx \in Ints6
      /\ cz \in Ints6 /\ cs \in Ints6 /\ cc \in Ints6 /\ xx \in Ints6 /\ zz \in Ints6
      /\ ss \in Ints6 /\ le \in Ints6 /\ mt \in Ints6 /\ xo \in Ints6 /\ y \in Ints6
      /\ y2 \in Ints6 /\ d \in Ints6 /\ 2 \odot c \in Ints6 /\ le \ominus ss \in Ints6
  BY <1>1, SixTyped
<1>3. /\ y = lx \oplus c /\ y2 = lz \oplus c /\ s = x \oplus x2
      /\ t = (l \otimes l) \ominus s /\ e = ls \oplus (2 \odot c) /\ f = (2 \odot lm) \oplus cs
      /\ one = (le \ominus ss) \oplus m /\ a = (3 \odot m) \oplus one
  BY DEF IsLine
<1>4. ls = lx \oplus lz /\ cs = cx \oplus cz
  BY TimesOver
<1>5. ss = (xx \oplus (2 \odot m)) \oplus zz
  <2>1. ss = (s \otimes x) \oplus (s \otimes x2)
    BY <1>1, TimesOver
  <2>2. s \otimes x = xx \oplus m
    BY <1>1, TimesOver, TimesCommutes
  <2>3. s \otimes x2 = m \oplus zz
    BY <1>1, TimesOver, TimesCommutes
  <2> HIDE DEF xx, zz, ss
  <2> QED BY ONLY <1>1, <1>2, <2>1, <2>2, <2>3 DEF Ints6, \oplus, \ominus, \odot
<1>6. y \oplus y2 = e
  <2>1. /\ y = lx \oplus c /\ y2 = lz \oplus c /\ e = (lx \oplus lz) \oplus (2 \odot c)
        /\ lx \in Ints6 /\ lz \in Ints6 /\ c \in Ints6
    BY <1>2, <1>3, <1>4
  <2> HIDE DEF lx, lz
  <2>2. (lx \oplus c) \oplus (lz \oplus c) = (lx \oplus lz) \oplus (2 \odot c)
    BY ONLY <2>1 DEF Ints6, \oplus, \odot
  <2> QED BY ONLY <2>1, <2>2
<1>7. x \otimes y2 = lm \oplus cx /\ y \otimes x2 = lm \oplus cz
  <2>1. x \otimes y2 = (x \otimes lz) \oplus (x \otimes c)
    BY <1>2, <1>3, TimesOver
  <2>2. y \otimes x2 = (x2 \otimes lx) \oplus (x2 \otimes c)
    BY <1>2, <1>3, TimesOver, TimesCommutes
  <2>3. x \otimes lz = lm
    BY <1>1, TimesSwaps
  <2>4. x2 \otimes lx = lm
    BY <1>1, TimesSwaps, TimesCommutes
  <2> QED BY <2>1, <2>2, <2>3, <2>4, TimesCommutes
<1>8. /\ (x \otimes y2) \oplus (y \otimes x2) = f
      /\ (y \otimes x2) \ominus (x \otimes y2) = (-1) \odot (c \otimes d)
  <2> DEFINE u == x \otimes y2
             v == y \otimes x2
             cd == c \otimes d
  <2>1. u = lm \oplus cx /\ v = lm \oplus cz /\ u \in Ints6 /\ v \in Ints6
    BY <1>2, <1>7, SixTyped
  <2>2. cd = cx \ominus cz
    BY TimesOver
  <2>3. f = (2 \odot lm) \oplus cs /\ cs = cx \oplus cz /\ cd \in Ints6
    BY <1>2, <1>3, <1>4, SixTyped
  <2> HIDE DEF u, v, cd, lm, cx, cz, cs
  <2>5. u \oplus v = f
    BY ONLY <1>1, <1>2, <2>1, <2>3 DEF Ints6, \oplus, \ominus, \odot
  <2>4. v \ominus u = (-1) \odot cd
    BY ONLY <1>1, <1>2, <2>1, <2>2, <2>3 DEF Ints6, \oplus, \ominus, \odot
  <2> QED BY <2>4, <2>5 DEF u, v, cd
<1>9. y \ominus y2 = l \otimes d
  <2>1. l \otimes d = lx \ominus lz
    BY TimesOver
  <2>2. y = lx \oplus c /\ y2 = lz \oplus c /\ c \in Ints6
    BY <1>3
  <2> HIDE DEF lx, lz
  <2>3. y \ominus y2 = lx \ominus lz
    BY ONLY <1>2, <2>2 DEF Ints6, \oplus, \ominus, \odot
  <2> QED BY <2>1, <2>3
<1>10. \A u, v \in Ints6 :
         ((l \otimes u) \oplus c) \otimes ((l \otimes v) \oplus c)
           = ((l \otimes (l \otimes (u \otimes v))) \oplus (l \otimes (c \otimes (u \oplus v)))) \oplus cc
  <2> TAKE u, v \in Ints6
  <2> DEFINE lu == l \otimes u  lv == l \otimes v  p == lu \oplus c  q == lv \oplus c
             luv == l \otimes (l \otimes (u \otimes v))  lcu == l \otimes (c \otimes u)
             lcv == l \otimes (c \otimes v)  lcs == l \otimes (c \otimes (u \oplus v))
             pq == p \otimes q  r == p \otimes lv  w == p \otimes c
  <2>1. /\ lu \in Ints6 /\ lv \in Ints6 /\ p \in Ints6 /\ q \in Ints6 /\ luv \in Ints6
        /\ lcu \in Ints6 /\ lcv \in Ints6 /\ pq \in Ints6 /\ r \in Ints6 /\ w \in Ints6
        /\ c \otimes u \in Ints6 /\ c \otimes v \in Ints6
    BY SixTyped
  <2>2. pq = r \oplus w
    BY <2>1, TimesOver
  <2>3. r = luv \oplus lcv
    <3>1. r = (lv \otimes lu) \oplus (lv \otimes c)
      BY <2>1, TimesOver, TimesCommutes
    <3>2. lv \otimes lu = luv
      <4>1. lv \otimes lu = l \otimes (lv \otimes u)
        BY <2>1, TimesSwaps
      <4>2. lv \otimes u = u \otimes lv /\ u \otimes lv = l \otimes (u \otimes v)
        BY <2>1, TimesCommutes, TimesSwaps
      <4> QED BY <4>1, <4>2
    <3>3. lv \otimes c = lcv
      <4>1. lv \otimes c = c \otimes lv /\ c \otimes lv = l \otimes (c \otimes v)
        BY <2>1, TimesCommutes, TimesSwaps
      <4> QED BY <4>1
    <3> QED BY <3>1, <3>2, <3>3
  <2>4. w = lcu \oplus cc
    <3>1. w = (c \otimes lu) \oplus cc
      BY <2>1, TimesOver, TimesCommutes
    <3>2. c \otimes lu = lcu
      BY TimesSwaps
    <3> QED BY <3>1, <3>2
  <2>5. lcs = lcu \oplus lcv
    BY <2>1, TimesOver
  <2> HIDE DEF luv, lcu, lcv, lcs, pq, r, w, cc
  <2>6. pq = (luv \oplus lcs) \oplus cc
    BY ONLY <1>2, <2>1, <2>2, <2>3, <2>4, <2>5 DEF Ints6, \oplus, \ominus, \odot
  <2> QED BY <2>6 DEF pq, luv, lcs
<1>11. y \otimes y2 = ((l \otimes lm) \oplus (l \otimes cs)) \oplus cc
  BY <1>10
<1>12. d \otimes d = le \ominus a
  <2> DEFINE dd == d \otimes d  dx == d \otimes x  dz == d \otimes x2
  <2>1. dd \in Ints6 /\ dx \in Ints6 /\ dz \in Ints6
    BY <1>2, SixTyped
  <2>2. dd = dx \ominus dz
    BY <1>2, TimesOver
  <2>3. dx = xx \ominus m
    BY <1>2, TimesOver, TimesCommutes
  <2>4. dz = m \ominus zz
    BY <1>2, TimesOver, TimesCommutes
  <2> HIDE DEF dd, dx, dz, xx, zz, ss, le, d
  <2>5. dd = (xx \ominus (2 \odot m)) \oplus zz
    BY ONLY <1>1, <1>2, <2>1, <2>2, <2>3, <2>4 DEF Ints6, \oplus, \ominus, \odot
  <2>6. /\ le \in Ints6 /\ ss \in Ints6 /\ m \in Ints6 /\ one \in Ints6 /\ a \in Ints6
        /\ xx \in Ints6 /\ zz \in Ints6 /\ dd \in Ints6
    BY ONLY <1>1, <1>2, <2>1
  <2>7. le \ominus a = ss \ominus (4 \odot m)
    <3>1. one = (le \ominus ss) \oplus m /\ a = (3 \odot m) \oplus one
      BY ONLY <1>3
    <3>2. (3 \odot m) \oplus ((le \ominus ss) \oplus m) = (le \ominus ss) \oplus (4 \odot m)
      BY ONLY <2>6 DEF Ints6, \oplus, \ominus, \odot
    <3>3. le \ominus ((le \ominus ss) \oplus (4 \odot m)) = ss \ominus (4 \odot m)
      BY ONLY <2>6 DEF Ints6, \oplus, \ominus, \odot
    <3> QED BY ONLY <3>1, <3>2, <3>3
  <2>8. dd = ss \ominus (4 \odot m)
    <3>1. ((xx \oplus (2 \odot m)) \oplus zz) \ominus (4 \odot m)
            = (xx \ominus (2 \odot m)) \oplus zz
      BY ONLY <2>6 DEF Ints6, \oplus, \ominus, \odot
    <3> QED BY ONLY <1>5, <2>5, <3>1
  <2> QED BY ONLY <2>7, <2>8 DEF dd, le
<1> DEFINE llxx == l \otimes (l \otimes xx)  lcx == l \otimes cx  llm == l \otimes lm
           xm == x \otimes m  sxx == s \otimes xx  sm == s \otimes m  xle == x \otimes le
           xss == x \otimes ss  lls == l \otimes ls
<1>13. /\ llxx \in Ints6 /\ lcx \in Ints6 /\ llm \in Ints6 /\ xm \in Ints6 /\ sxx \in Ints6
       /\ sm \in Ints6 /\ xle \in Ints6 /\ xss \in Ints6 /\ xxx \in Ints6 /\ yy \in Ints6
       /\ l \otimes xx \in Ints6 /\ 2 \odot x \in Ints6
  BY <1>1, <1>2, SixTyped
<1>14. yy = (llxx \oplus (2 \odot lcx)) \oplus cc
  <2>1. yy = (llxx \oplus (l \otimes (c \otimes (x \oplus x)))) \oplus cc
    BY <1>10
  <2>2. x \oplus x = 2 \odot x
    BY DEF Ints6, \oplus, \odot
  <2>3. c \otimes (2 \odot x) = 2 \odot cx /\ l \otimes (2 \odot cx) = 2 \odot lcx
    BY <1>2, TimesOver
  <2> QED BY <2>1, <2>2, <2>3
<1>15. mt = llm \ominus sm
  <2>1. m \otimes (l \otimes l) = llm
    BY <1>1, TimesSwaps, TimesCommutes
  <2>2. mt = (m \otimes (l \otimes l)) \ominus (m \otimes s)
    BY <1>1, <1>3, TimesOver, SixTyped
  <2> QED BY <1>1, <2>1, <2>2, TimesCommutes
<1>16. sm = (x \otimes m) \oplus (x2 \otimes m)
  BY <1>1, TimesOver, TimesCommutes
<1>17. xo = (xle \ominus xss) \oplus xm
  <2>1. xo = (x \otimes (le \ominus ss)) \oplus xm
    BY <1>1, <1>2, <1>3, TimesOver
  <2> QED BY <1>2, <2>1, TimesOver
<1>18. xle = (llxx \oplus llm) \oplus (2 \odot lcx)
  <2>1. le = lls \oplus (l \otimes (2 \odot c))
    BY <1>2, <1>3, TimesOver
  <2>2. l \otimes (2 \odot c) = 2 \odot (l \otimes c)
    BY <1>1, TimesOver
  <2>3. xle = (x \otimes lls) \oplus (2 \odot (x \otimes (l \otimes c)))
    <3>1. lls \in Ints6 /\ l \otimes c \in Ints6 /\ 2 \odot (l \otimes c) \in Ints6
      BY <1>1, <1>2, SixTyped
    <3>2. xle = (x \otimes lls) \oplus (x \otimes (2 \odot (l \otimes c)))
      BY <2>1, <2>2, <3>1, TimesOver
    <3> QED BY <1>1, <3>1, <3>2, TimesOver
  <2>4. x \otimes (l \otimes c) = lcx
    <3>1. x \otimes (l \otimes c) = l \otimes (x \otimes c)
      BY TimesSwaps
    <3> QED BY <3>1, TimesCommutes
  <2>5. x \otimes lls = llxx \oplus llm
    <3>1. x \otimes lls = l \otimes (x \otimes ls) /\ x \otimes ls = l \otimes (x \otimes s)
      BY <1>1, <1>2, TimesSwaps
    <3>2. x \otimes s = xx \oplus m
      BY <1>3, TimesOver
    <3>3. l \otimes (xx \oplus m) = (l \otimes xx) \oplus lm
      BY <1>1, <1>2, TimesOver
    <3>4. l \otimes ((l \otimes xx) \oplus lm) = llxx \oplus llm
      BY <1>2, <1>13, TimesOver
    <3> QED BY <3>1, <3>2, <3>3, <3>4
  <2> QED BY <2>3, <2>4, <2>5
<1>19. xss = (sxx \oplus sm) /\ sxx = xxx \oplus xm
  <2>1. xss = s \otimes (x \otimes s)
    BY <1>1, TimesSwaps
  <2>2. x \otimes s = xx \oplus m
    BY <1>3, TimesOver
  <2>3. s \otimes (xx \oplus m) = sxx \oplus sm
    <3>1. s \in Ints6 /\ xx \in Ints6 /\ m \in Ints6
      BY <1>1, <1>2
    <3> QED BY ONLY <3>1, TimesOver
  <2>4. sxx = (xx \otimes x) \oplus (xx \otimes x2)
    BY <1>1, <1>2, <1>3, TimesOver, TimesCommutes
  <2>5. xx \otimes x2 = xm
    BY RingLaws, 0 \in Int
  <2> QED BY <2>1, <2>2, <2>3, <2>4, <2>5
<1> HIDE DEF xx, xxx, xo, yy, cc, mt, llxx, lcx, llm, xm, sxx, sm, xle, xss
<1>20. xo = ((((llxx \oplus llm) \oplus (2 \odot lcx)) \ominus sxx) \ominus sm) \oplus xm
  BY ONLY <1>2, <1>13, <1>17, <1>18, <1>19 DEF Ints6, \oplus, \ominus, \odot
<1>21. (yy \ominus xxx) \ominus xo = cc \ominus mt
  <2>1. yy \ominus xo = ((cc \ominus llm) \oplus (sxx \oplus sm)) \ominus xm
    BY ONLY <1>2, <1>13, <1>14, <1>20 DEF Ints6, \oplus, \ominus, \odot
  <2>2. cc \ominus mt = (cc \ominus llm) \oplus sm
    BY ONLY <1>2, <1>13, <1>15 DEF Ints6, \oplus, \ominus, \odot
  <2> DEFINE u == yy \ominus xo
             v == cc \ominus mt
  <2>3. u \in Ints6 /\ v \in Ints6 /\ (yy \ominus xxx) \ominus xo = u \ominus xxx
    BY ONLY <1>2, <1>13 DEF Ints6, \oplus, \ominus, \odot
  <2>4. u = ((cc \ominus llm) \oplus (sxx \oplus sm)) \ominus xm /\ v = (cc \ominus llm) \oplus sm
        /\ sxx = xxx \oplus xm
    BY <1>19, <2>1, <2>2
  <2> HIDE DEF u, v
  <2>5. u \ominus xxx = v
    BY ONLY <1>2, <1>13, <2>3, <2>4 DEF Ints6, \oplus, \ominus, \odot
  <2> QED BY <2>3, <2>5 DEF v
<1>22. (3 \odot yy) \ominus (3 \odot (xxx \oplus xo)) = 3 \odot (cc \ominus mt)
  <2> DEFINE v == cc \ominus mt
  <2>1. (3 \odot yy) \ominus (3 \odot (xxx \oplus xo)) = 3 \odot ((yy \ominus xxx) \ominus xo)
    BY ONLY <1>2, <1>13 DEF Ints6, \oplus, \ominus, \odot
  <2> QED BY <1>21, <2>1
<1> QED BY <1>6, <1>8, <1>9, <1>11, <1>12, <1>22 DEF yy, xxx, xo, xx, cc, mt

(* Two points of the line y = l.x + c, of which the first is on the curve, *)
(* and the slope a line has that meets the curve in both.                  *)
Meets(l, c, x, y, x2, y2) ==
  /\ l \in Fp6 /\ c \in Fp6 /\ x \in Fp6 /\ y \in Fp6 /\ x2 \in Fp6 /\ y2 \in Fp6
  /\ y = Add(MulFp6(l, x), c) /\ y2 = Add(MulFp6(l, x2), c)
  /\ OnCurve([x |-> x, y |-> y])
  /\ One6 = Add(Sub(MulFp6(l, Add(y, y2)), MulFp6(Add(x, x2), Add(x, x2))),
                MulFp6(x, x2))

LEMMA LiftsLine ==
  ASSUME NEW l, NEW c, NEW x, NEW y, NEW x2, NEW y2, Meets(l, c, x, y, x2, y2)
  PROVE  \E s, m, t, e, f, one, a :
           /\ IsLine(l, c, s, m, t, e, f, one, a)
           /\ s = x \oplus x2 /\ m = x \otimes x2
           /\ Lifts6(y, (l \otimes x) \oplus c) /\ Lifts6(y2, (l \otimes x2) \oplus c)
           /\ Lifts6(One6, one)
           /\ Lifts6(B3, 3 \odot ((c \otimes c) \ominus (m \otimes t)))
<1> DEFINE s == x \oplus x2
           m == x \otimes x2
           t == (l \otimes l) \ominus s
           e == (l \otimes s) \oplus (2 \odot c)
           f == (2 \odot (l \otimes m)) \oplus (c \otimes s)
           one == ((l \otimes e) \ominus (s \otimes s)) \oplus m
           a == (3 \odot m) \oplus one
           Y == (l \otimes x) \oplus c
           Y2 == (l \otimes x2) \oplus c
<1>1. /\ l \in Fp6 /\ c \in Fp6 /\ x \in Fp6 /\ y \in Fp6 /\ x2 \in Fp6 /\ y2 \in Fp6
      /\ Lifts6(l, l) /\ Lifts6(c, c) /\ Lifts6(x, x) /\ Lifts6(x2, x2)
      /\ l \in Ints6 /\ c \in Ints6 /\ x \in Ints6 /\ x2 \in Ints6 /\ B3 \in Fp6
      /\ 2 \in Int /\ 3 \in Int
  BY LiftsOwn, CurveAssumption DEF Meets, Lifts6
<1>2. s \in Ints6 /\ m \in Ints6 /\ Lifts6(Add(x, x2), s) /\ Lifts6(MulFp6(x, x2), m)
  BY <1>1, SixTyped, LiftsSums, LiftsTimes
<1>3. Lifts6(y, Y) /\ Lifts6(y2, Y2) /\ Y \in Ints6 /\ Y2 \in Ints6
  <2>1. Lifts6(MulFp6(l, x), l \otimes x) /\ Lifts6(MulFp6(l, x2), l \otimes x2)
    BY <1>1, LiftsTimes
  <2>2. Lifts6(y, Y) /\ Lifts6(y2, Y2)
    BY <1>1, <2>1, LiftsSums DEF Meets
  <2> QED BY <2>2 DEF Lifts6
<1> HIDE DEF s, m
<1>4. t \in Ints6 /\ e \in Ints6 /\ f \in Ints6
  BY <1>1, <1>2, SixTyped
<1> HIDE DEF t, e, f
<1>5. one \in Ints6
  BY <1>1, <1>2, <1>4, SixTyped
<1> HIDE DEF one
<1>6. a \in Ints6
  BY <1>1, <1>2, <1>5, SixTyped
<1> HIDE DEF a
<1>7. IsLine(l, c, s, m, t, e, f, one, a)
  BY <1>1, <1>2, <1>4, <1>5, <1>6 DEF IsLine, t, e, f, one, a
<1>8. /\ Y \oplus Y2 = e
      /\ (3 \odot (Y \otimes Y)) \ominus (3 \odot (((x \otimes x) \otimes x) \oplus (x \otimes one)))
           = 3 \odot ((c \otimes c) \ominus (m \otimes t))
  BY <1>1, <1>7, LineParts DEF s, m
<1>9. Lifts6(One6, one)
  <2>1. Lifts6(Add(y, y2), e)
    BY <1>3, <1>8, LiftsSums
  <2>2. Lifts6(MulFp6(l, Add(y, y2)), l \otimes e)
    BY <1>1, <2>1, LiftsTimes
  <2>3. Lifts6(MulFp6(Add(x, x2), Add(x, x2)), s \otimes s)
    BY <1>2, LiftsTimes
  <2>4. Lifts6(Sub(MulFp6(l, Add(y, y2)), MulFp6(Add(x, x2), Add(x, x2))),
               (l \otimes e) \ominus (s \otimes s))
    BY <2>2, <2>3, LiftsSums
  <2>5. Lifts6(Add(Sub(MulFp6(l, Add(y, y2)), MulFp6(Add(x, x2), Add(x, x2))),
                   MulFp6(x, x2)), one)
    BY <1>2, <2>4, LiftsSums DEF one
  <2> QED BY <2>5 DEF Meets
<1>10. Lifts6(B3, 3 \odot ((c \otimes c) \ominus (m \otimes t)))
  <2> DEFINE xx == MulFp6(x, x)
             xxx == MulFp6(xx, x)
             left == Triple(MulFp6(y, y))
             right == Triple(Add(xxx, x))
             XXX == (x \otimes x) \otimes x
             L == 3 \odot (Y \otimes Y)
             R == 3 \odot (XXX \oplus (x \otimes one))
  <2>1. xx \in Fp6 /\ xxx \in Fp6 /\ MulFp6(y, y) \in Fp6
    BY <1>1, Fp6Typed
  <2>2. left = Add(right, B3)
    <3>1. Square(y) = MulFp6(y, y) /\ Square(x) = xx /\ Product(xx, x) = xxx
      BY <1>1, <2>1, MulFp6IsProduct DEF Square
    <3>2. OnCurve([x |-> x, y |-> y])
      BY DEF Meets
    <3> QED BY <3>1, <3>2 DEF OnCurve
  <2>3. Lifts6(left, L)
    <3>1. Lifts6(MulFp6(y, y), Y \otimes Y)
      BY <1>3, LiftsTimes
    <3> QED BY <3>1, LiftsSums
  <2>4. Lifts6(right, R)
    <3>1. Lifts6(xx, x \otimes x)
      BY <1>1, LiftsTimes
    <3>2. Lifts6(xxx, XXX)
      BY <1>1, <3>1, LiftsTimes
    <3>3. Lifts6(MulFp6(x, One6), x \otimes one) /\ MulFp6(x, One6) = x
      BY <1>1, <1>9, LiftsTimes, MulUnits
    <3>4. Lifts6(Add(xxx, x), XXX \oplus (x \otimes one))
      BY <3>2, <3>3, LiftsSums
    <3> QED BY <3>4, LiftsSums
  <2> HIDE DEF left, right, L, R
  <2>5. Lifts6(B3, B3) /\ L \in Ints6 /\ R \in Ints6
    BY <1>1, <2>3, <2>4, LiftsOwn DEF Lifts6
  <2>6. Lifts6(left, R \oplus B3)
    BY <2>2, <2>4, <2>5, LiftsSums
  <2>7. Lifts6(Sub(left, right), L \ominus R)
    BY <2>3, <2>4, LiftsSums
  <2>8. Lifts6(Sub(left, right), (R \oplus B3) \ominus R)
    BY <2>4, <2>6, LiftsSums
  <2>9. (R \oplus B3) \ominus R = B3
    <3> DEFINE b == B3
    <3>1. b \in Ints6
      BY <2>5 DEF Lifts6
    <3> HIDE DEF b
    <3>2. (R \oplus b) \ominus R = b
      BY ONLY <2>5, <3>1 DEF Ints6, \oplus, \ominus
    <3> QED BY <3>2 DEF b
  <2>10. Sub(left, right) = B3
    BY <2>5, <2>8, <2>9, LiftsSame
  <2> QED BY <1>8, <2>7, <2>10 DEF L, R
<1> QED BY <1>3, <1>7, <1>9, <1>10 DEF s, m

(* The end of the formulas, lifted, where z is one.                        *)
LEMMA LiftsProducts ==
  ASSUME NEW xx, NEW yy, NEW xy, NEW xz, NEW yz, NEW m, NEW n, NEW f, NEW s, NEW e,
         NEW one, NEW b,
         Lifts6(xx, m), Lifts6(yy, n), Lifts6(xy, f), Lifts6(xz, s), Lifts6(yz, e),
         Lifts6(One6, one), Lifts6(B3, b)
  PROVE  LET p == SumOfProducts(xx, yy, One6, xy, xz, yz)
             a == (3 \odot m) \oplus one
             plus == n \oplus (b \oplus (s \otimes one))
             minus == n \ominus (b \oplus (s \otimes one))
             last == (b \otimes s) \oplus (one \otimes (m \ominus one))
         IN /\ Lifts6(p.x, (f \otimes minus) \ominus (e \otimes last))
            /\ Lifts6(p.y, (minus \otimes plus) \oplus (a \otimes last))
            /\ Lifts6(p.z, (e \otimes plus) \oplus (f \otimes a))
<1> DEFINE a == (3 \odot m) \oplus one
           w == b \oplus (s \otimes one)
           plus == n \oplus w
           minus == n \ominus w
           last == (b \otimes s) \oplus (one \otimes (m \ominus one))
           s6 == Add(MulFp6(B3, One6), xz)
           t6 == Add(MulFp6(B3, xz), Sub(xx, One6))
           u6 == Add(Add(Double(xx), xx), One6)
           X == Sub(MulFp6(xy, Sub(yy, s6)), MulFp6(yz, t6))
           Y == Add(MulFp6(Sub(yy, s6), Add(yy, s6)), MulFp6(u6, t6))
           Z == Add(MulFp6(yz, Add(yy, s6)), MulFp6(xy, u6))
<1>1. SumOfProducts(xx, yy, One6, xy, xz, yz) = [x |-> X, y |-> Y, z |-> Z]
  BY DEF SumOfProducts
<1>2. /\ xx \in Fp6 /\ yy \in Fp6 /\ xy \in Fp6 /\ xz \in Fp6 /\ yz \in Fp6 /\ B3 \in Fp6
      /\ One6 \in Fp6
  BY DEF Lifts6
<1>3. Lifts6(s6, w)
  <2>1. MulFp6(B3, One6) = B3 /\ MulFp6(xz, One6) = xz
    BY <1>2, MulUnits
  <2>2. Lifts6(xz, s \otimes one)
    BY <2>1, LiftsTimes
  <2> QED BY <2>1, <2>2, LiftsSums
<1>4. Lifts6(t6, last)
  <2>1. Lifts6(MulFp6(B3, xz), b \otimes s)
    BY LiftsTimes
  <2>2. Lifts6(Sub(xx, One6), m \ominus one) /\ Sub(xx, One6) \in Fp6
    BY LiftsSums DEF Lifts6
  <2>3. MulFp6(One6, Sub(xx, One6)) = Sub(xx, One6)
    <3> DEFINE v == Sub(xx, One6)
    <3>1. v \in Fp6
      BY <2>2
    <3> HIDE DEF v
    <3>2. MulFp6(One6, v) = v
      BY <1>2, <3>1, FieldLaws, MulUnits
    <3> QED BY <3>2 DEF v
  <2>4. Lifts6(Sub(xx, One6), one \otimes (m \ominus one))
    BY <2>2, <2>3, LiftsTimes
  <2> QED BY <2>1, <2>4, LiftsSums
<1>5. Lifts6(u6, a)
  <2>1. Lifts6(Triple(xx), 3 \odot m)
    BY LiftsSums
  <2> QED BY <2>1, LiftsSums DEF Triple
<1> HIDE DEF s6, t6, u6, w, last, a
<1>6. Lifts6(Sub(yy, s6), minus) /\ Lifts6(Add(yy, s6), plus)
  BY <1>3, LiftsSums
<1> DEFINE d6 == Sub(yy, s6)
           e6 == Add(yy, s6)
<1>7. Lifts6(d6, minus) /\ Lifts6(e6, plus)
  BY <1>6
<1> HIDE DEF minus, plus
<1>8. Lifts6(X, (f \otimes minus) \ominus (e \otimes last))
  <2> HIDE DEF d6
  <2>1. Lifts6(MulFp6(xy, d6), f \otimes minus) /\ Lifts6(MulFp6(yz, t6), e \otimes last)
    BY <1>4, <1>7, LiftsTimes
  <2> QED BY <2>1, LiftsSums DEF d6
<1>9. Lifts6(Y, (minus \otimes plus) \oplus (a \otimes last))
  <2> HIDE DEF d6, e6
  <2>1. Lifts6(MulFp6(d6, e6), minus \otimes plus) /\ Lifts6(MulFp6(u6, t6), a \otimes last)
    BY <1>4, <1>5, <1>7, LiftsTimes
  <2> QED BY <2>1, LiftsSums DEF d6, e6
<1>10. Lifts6(Z, (e \otimes plus) \oplus (f \otimes a))
  <2> HIDE DEF e6
  <2>1. Lifts6(MulFp6(yz, e6), e \otimes plus) /\ Lifts6(MulFp6(xy, u6), f \otimes a)
    BY <1>5, <1>7, LiftsTimes
  <2> QED BY <2>1, LiftsSums DEF e6
<1> HIDE DEF X, Y, Z
<1> QED BY <1>1, <1>8, <1>9, <1>10 DEF plus, minus, a, last, w

(* The sum of the two points, by the formulas, is the third point of the   *)
(* line, mirrored, times their z.                                          *)
LEMMA SumOnLine ==
  ASSUME NEW l, NEW c, NEW x, NEW y, NEW x2, NEW y2, Meets(l, c, x, y, x2, y2)
  PROVE  LET t == Sub(MulFp6(l, l), Add(x, x2))
             p == SumOfProducts(MulFp6(x, x2), MulFp6(y, y2), One6,
                                Add(MulFp6(x, y2), MulFp6(y, x2)), Add(x, x2), Add(y, y2))
         IN /\ p.x = MulFp6(t, p.z)
            /\ p.y = MulFp6(Neg(Add(MulFp6(l, t), c)), p.z)
<1> DEFINE t6 == Sub(MulFp6(l, l), Add(x, x2))
           xx == MulFp6(x, x2)
           yy == MulFp6(y, y2)
           xy == Add(MulFp6(x, y2), MulFp6(y, x2))
           xz == Add(x, x2)
           yz == Add(y, y2)
           p == SumOfProducts(xx, yy, One6, xy, xz, yz)
           Y == (l \otimes x) \oplus c
           Y2 == (l \otimes x2) \oplus c
<1>1. /\ Lifts6(l, l) /\ Lifts6(c, c) /\ Lifts6(x, x) /\ Lifts6(x2, x2)
      /\ l \in Ints6 /\ c \in Ints6 /\ x \in Ints6 /\ x2 \in Ints6
  BY LiftsOwn DEF Meets, Lifts6
<1>2. PICK s, m, t, e, f, one, a :
        /\ IsLine(l, c, s, m, t, e, f, one, a)
        /\ s = x \oplus x2 /\ m = x \otimes x2
        /\ Lifts6(y, Y) /\ Lifts6(y2, Y2) /\ Lifts6(One6, one)
        /\ Lifts6(B3, 3 \odot ((c \otimes c) \ominus (m \otimes t)))
  BY LiftsLine
<1> DEFINE n == ((l \otimes (l \otimes m)) \oplus (l \otimes (c \otimes s))) \oplus (c \otimes c)
           b == 3 \odot ((c \otimes c) \ominus (m \otimes t))
           plus == n \oplus (b \oplus (s \otimes one))
           minus == n \ominus (b \oplus (s \otimes one))
           last == (b \otimes s) \oplus (one \otimes (m \ominus one))
           z == (e \otimes plus) \oplus (f \otimes a)
<1>3. Y \oplus Y2 = e /\ (x \otimes Y2) \oplus (Y \otimes x2) = f /\ Y \otimes Y2 = n
  BY <1>1, <1>2, LineParts
<1> HIDE DEF Y, Y2
<1>4. Lifts6(xx, m) /\ Lifts6(yy, n) /\ Lifts6(xz, s) /\ Lifts6(yz, e)
  BY <1>1, <1>2, <1>3, LiftsTimes, LiftsSums
<1>5. Lifts6(xy, f)
  <2>1. Lifts6(MulFp6(x, y2), x \otimes Y2) /\ Lifts6(MulFp6(y, x2), Y \otimes x2)
    BY <1>1, <1>2, LiftsTimes
  <2> QED BY <1>3, <2>1, LiftsSums
<1>6. Lifts6(t6, t)
  <2>1. Lifts6(MulFp6(l, l), l \otimes l)
    BY <1>1, LiftsTimes
  <2>2. t = (l \otimes l) \ominus s
    BY <1>2 DEF IsLine
  <2> QED BY <1>4, <2>1, <2>2, LiftsSums
<1>7. IsSum(l, c, s, m, t, one, n, b, plus, minus, last)
  BY DEF IsSum
<1>8. Lifts6(B3, b) /\ a = (3 \odot m) \oplus one
  BY <1>2 DEF IsLine
<1> HIDE DEF xx, yy, xy, xz, yz, n, b, t6
<1>9. /\ Lifts6(p.x, (f \otimes minus) \ominus (e \otimes last))
      /\ Lifts6(p.y, (minus \otimes plus) \oplus (a \otimes last))
      /\ Lifts6(p.z, z)
  BY <1>2, <1>4, <1>5, <1>8, LiftsProducts
<1> HIDE DEF p, plus, minus, last
<1>10. /\ (f \otimes minus) \ominus (e \otimes last) = t \otimes z
       /\ (minus \otimes plus) \oplus (a \otimes last)
            = (-1) \odot (((l \otimes t) \oplus c) \otimes z)
  BY <1>2, <1>7, LineThird
<1> HIDE DEF z
<1>11. p.x = MulFp6(t6, p.z)
  BY <1>6, <1>9, <1>10, LiftsTimes, LiftsSame
<1>12. p.y = MulFp6(Neg(Add(MulFp6(l, t6), c)), p.z)
  <2> DEFINE g == Add(MulFp6(l, t6), c)
             G6 == (l \otimes t) \oplus c
  <2>1. Lifts6(MulFp6(l, t6), l \otimes t)
    BY <1>1, <1>6, LiftsTimes
  <2>2. Lifts6(g, G6)
    BY <1>1, <2>1, LiftsSums
  <2> HIDE DEF g, G6
  <2>3. Lifts6(MulFp6(g, p.z), G6 \otimes z) /\ g \in Fp6 /\ p.z \in Fp6
    BY <1>9, <2>2, LiftsTimes DEF Lifts6
  <2>4. Lifts6(Neg(MulFp6(g, p.z)), (-1) \odot (G6 \otimes z))
    BY <2>3, LiftsSums
  <2>5. p.y = Neg(MulFp6(g, p.z))
    BY <1>9, <1>10, <2>4, LiftsSame DEF G6
  <2>6. MulFp6(Neg(g), p.z) = Neg(MulFp6(g, p.z))
    <3>1. Neg(g) \in Fp6
      BY <2>3, Fp6Typed
    <3> QED BY <2>3, <3>1, FieldLaws
  <2> QED BY <2>5, <2>6 DEF g
<1> QED BY <1>11, <1>12 DEF p, t6, xx, yy, xy, xz, yz

(* Of a point and the mirror of the other one the z is not zero unless the *)
(* difference of their x or the y of the line's third point is.            *)
LEMMA SumAcrossLine ==
  ASSUME NEW l, NEW c, NEW x, NEW y, NEW x2, NEW y2, Meets(l, c, x, y, x2, y2)
  PROVE  LET t == Sub(MulFp6(l, l), Add(x, x2))
             d == Sub(x, x2)
             p == SumOfProducts(MulFp6(x, x2), MulFp6(y, Neg(y2)), One6,
                                Add(MulFp6(x, Neg(y2)), MulFp6(y, x2)),
                                Add(x, x2), Add(y, Neg(y2)))
         IN p.z = MulFp6(d, MulFp6(MulFp6(d, d), Add(MulFp6(l, t), c)))
<1> DEFINE t6 == Sub(MulFp6(l, l), Add(x, x2))
           d6 == Sub(x, x2)
           y3 == Neg(y2)
           xx == MulFp6(x, x2)
           yy == MulFp6(y, y3)
           xy == Add(MulFp6(x, y3), MulFp6(y, x2))
           xz == Add(x, x2)
           yz == Add(y, y3)
           p == SumOfProducts(xx, yy, One6, xy, xz, yz)
           Y == (l \otimes x) \oplus c
           Y2 == (l \otimes x2) \oplus c
           d == x \ominus x2
<1>1. /\ Lifts6(l, l) /\ Lifts6(c, c) /\ Lifts6(x, x) /\ Lifts6(x2, x2)
      /\ l \in Ints6 /\ c \in Ints6 /\ x \in Ints6 /\ x2 \in Ints6
  BY LiftsOwn DEF Meets, Lifts6
<1>2. PICK s, m, t, e, f, one, a :
        /\ IsLine(l, c, s, m, t, e, f, one, a)
        /\ s = x \oplus x2 /\ m = x \otimes x2
        /\ Lifts6(y, Y) /\ Lifts6(y2, Y2) /\ Lifts6(One6, one)
        /\ Lifts6(B3, 3 \odot ((c \otimes c) \ominus (m \otimes t)))
  BY LiftsLine
<1> DEFINE n == ((l \otimes (l \otimes m)) \oplus (l \otimes (c \otimes s))) \oplus (c \otimes c)
           b == 3 \odot ((c \otimes c) \ominus (m \otimes t))
           w == b \oplus (s \otimes one)
           plus == n \oplus w
           minus == n \ominus w
           last == (b \otimes s) \oplus (one \otimes (m \ominus one))
           e2 == l \otimes d
           f2 == (-1) \odot (c \otimes d)
           n2 == (-1) \odot n
           plus2 == n2 \oplus w
           g == (l \otimes t) \oplus c
<1>3. /\ Y \otimes Y2 = n /\ d \otimes d = (l \otimes e) \ominus a
      /\ Y \ominus Y2 = e2 /\ (Y \otimes x2) \ominus (x \otimes Y2) = f2
  BY <1>1, <1>2, LineParts
<1>4. /\ s \in Ints6 /\ m \in Ints6 /\ t \in Ints6 /\ one \in Ints6 /\ d \in Ints6
      /\ a = (3 \odot m) \oplus one
      /\ Y \in Ints6 /\ Y2 \in Ints6 /\ -1 \in Int /\ 3 \in Int
  BY <1>1, <1>2, SixTyped DEF IsLine, Lifts6
<1>5. IsSum(l, c, s, m, t, one, n, b, plus, minus, last)
  BY DEF IsSum
<1>6. n \in Ints6 /\ b \in Ints6
  <2>1. /\ l \otimes (l \otimes m) \in Ints6 /\ l \otimes (c \otimes s) \in Ints6
        /\ c \otimes c \in Ints6 /\ (c \otimes c) \ominus (m \otimes t) \in Ints6
    BY <1>1, <1>4, SixTyped
  <2> QED BY <1>4, <2>1, SixTyped
<1>7. Lifts6(B3, b)
  BY <1>2
<1> HIDE DEF Y, Y2, n, b, d
<1>8. w \in Ints6 /\ e2 \in Ints6 /\ f2 \in Ints6 /\ n2 \in Ints6
  BY <1>1, <1>4, <1>6, SixTyped
<1>9. plus2 = (-1) \odot minus
  <2> HIDE DEF w
  <2> QED BY ONLY <1>6, <1>8 DEF Ints6, \oplus, \ominus, \odot, plus2, n2, minus
<1>10. Lifts6(xx, m) /\ Lifts6(xz, s) /\ Lifts6(d6, d) /\ Lifts6(y3, (-1) \odot Y2)
  BY <1>1, <1>2, LiftsTimes, LiftsSums DEF d
<1> HIDE DEF y3
<1>11. Lifts6(yz, e2)
  <2>1. Y \oplus ((-1) \odot Y2) = Y \ominus Y2
    BY ONLY <1>4 DEF Ints6, \oplus, \ominus, \odot
  <2> QED BY <1>2, <1>3, <1>10, <2>1, LiftsSums
<1>12. Lifts6(yy, n2)
  <2>1. Y \otimes ((-1) \odot Y2) = n2
    BY <1>3, <1>4, TimesOver
  <2> QED BY <1>2, <1>10, <2>1, LiftsTimes
<1>13. Lifts6(xy, f2)
  <2> DEFINE u == x \otimes Y2
             v == Y \otimes x2
  <2>1. u \in Ints6 /\ v \in Ints6 /\ x \otimes ((-1) \odot Y2) = (-1) \odot u
    BY <1>1, <1>4, SixTyped, TimesOver
  <2>2. Lifts6(MulFp6(x, y3), (-1) \odot u) /\ Lifts6(MulFp6(y, x2), v)
    BY <1>1, <1>2, <1>10, <2>1, LiftsTimes
  <2>3. v \ominus u = f2
    BY <1>3
  <2> HIDE DEF u, v
  <2>4. ((-1) \odot u) \oplus v = v \ominus u
    BY ONLY <2>1 DEF Ints6, \oplus, \ominus, \odot
  <2> QED BY <2>2, <2>3, <2>4, LiftsSums
<1> HIDE DEF xx, yy, xy, xz, yz, d6, e2, f2, n2
<1>14. Lifts6(p.z, (e2 \otimes plus2) \oplus (f2 \otimes a))
  BY <1>2, <1>4, <1>7, <1>10, <1>11, <1>12, <1>13, LiftsProducts
<1> HIDE DEF p, plus2, minus, plus, last
<1>15. (e2 \otimes plus2) \oplus (f2 \otimes a) = d \otimes ((d \otimes d) \otimes g)
  <2>1. (((l \otimes d) \otimes ((-1) \odot minus)) \oplus (((-1) \odot (c \otimes d)) \otimes a))
          = d \otimes ((d \otimes d) \otimes ((l \otimes t) \oplus c))
    BY <1>2, <1>3, <1>4, <1>5, LineAcross
  <2> QED BY <1>9, <2>1 DEF e2, f2
<1>16. Lifts6(t6, t)
  <2>1. Lifts6(MulFp6(l, l), l \otimes l)
    BY <1>1, LiftsTimes
  <2>2. t = (l \otimes l) \ominus s
    BY <1>2 DEF IsLine
  <2> QED BY <1>10, <2>1, <2>2, LiftsSums DEF xz
<1> HIDE DEF t6, g
<1>17. Lifts6(Add(MulFp6(l, t6), c), g)
  <2>1. Lifts6(MulFp6(l, t6), l \otimes t)
    BY <1>1, <1>16, LiftsTimes
  <2> QED BY <1>1, <2>1, LiftsSums DEF g
<1>18. Lifts6(MulFp6(d6, d6), d \otimes d)
  BY <1>10, LiftsTimes
<1>19. Lifts6(MulFp6(MulFp6(d6, d6), Add(MulFp6(l, t6), c)), (d \otimes d) \otimes g)
  BY <1>17, <1>18, LiftsTimes
<1>20. Lifts6(MulFp6(d6, MulFp6(MulFp6(d6, d6), Add(MulFp6(l, t6), c))),
              d \otimes ((d \otimes d) \otimes g))
  BY <1>10, <1>19, LiftsTimes
<1>21. p.z = MulFp6(d6, MulFp6(MulFp6(d6, d6), Add(MulFp6(l, t6), c)))
  BY <1>14, <1>15, <1>20, LiftsSame
<1> QED BY <1>21 DEF p, t6, d6, xx, yy, xy, xz, yz, y3

LEMMA MulSwaps ==
  ASSUME NEW a \in Fp6, NEW b \in Fp6, NEW c \in Fp6
  PROVE  MulFp6(a, MulFp6(b, c)) = MulFp6(b, MulFp6(a, c))
<1>1. /\ MulFp6(MulFp6(a, b), c) = MulFp6(a, MulFp6(b, c))
      /\ MulFp6(MulFp6(b, a), c) = MulFp6(b, MulFp6(a, c))
  BY MulAssociates
<1> QED BY <1>1, FieldLaws

LEMMA MulPairs ==
  ASSUME NEW a \in Fp6, NEW b \in Fp6, NEW c \in Fp6, NEW d \in Fp6
  PROVE  MulFp6(MulFp6(a, b), MulFp6(c, d)) = MulFp6(MulFp6(a, c), MulFp6(b, d))
<1>1. MulFp6(c, d) \in Fp6 /\ MulFp6(b, d) \in Fp6
  BY Fp6Typed
<1>2. MulFp6(MulFp6(a, b), MulFp6(c, d)) = MulFp6(a, MulFp6(b, MulFp6(c, d)))
  BY <1>1, MulAssociates
<1>3. MulFp6(b, MulFp6(c, d)) = MulFp6(c, MulFp6(b, d))
  BY MulSwaps
<1>4. MulFp6(MulFp6(a, c), MulFp6(b, d)) = MulFp6(a, MulFp6(c, MulFp6(b, d)))
  BY <1>1, MulAssociates
<1> QED BY <1>2, <1>3, <1>4

(* Sums and differences.                                                   *)
LEMMA SumLaws ==
  ASSUME NEW a \in Fp6, NEW b \in Fp6
  PROVE  /\ Add(a, b) = Add(b, a) /\ Add(a, Zero6) = a /\ Add(Zero6, a) = a
         /\ Sub(a, Zero6) = a /\ Sub(Add(a, b), b) = a /\ Add(Sub(a, b), b) = a
         /\ Neg(Neg(a)) = a /\ Neg(Zero6) = Zero6 /\ Add(a, Neg(a)) = Zero6
         /\ (Sub(a, b) = Zero6 => a = b) /\ Double(a) = Add(a, a)
<1>1. /\ Zero6 \in Fp6 /\ Zero6 \in Ints6 /\ a \in Ints6 /\ b \in Ints6
      /\ Lifts6(a, a) /\ Lifts6(b, b) /\ Lifts6(Zero6, Zero6) /\ -1 \in Int
  BY ZeroTyped, LiftsOwn DEF Lifts6
<1>2. /\ a \oplus b = b \oplus a /\ a \oplus Zero6 = a /\ Zero6 \oplus a = a
      /\ a \ominus Zero6 = a
  BY <1>1 DEF Ints6, Zero6, \oplus, \ominus
<1>3. (a \oplus b) \ominus b = a /\ (a \ominus b) \oplus b = a
  BY <1>1 DEF Ints6, \oplus, \ominus
<1>4. (-1) \odot ((-1) \odot a) = a
  BY <1>1 DEF Ints6, \odot
<1>5. (-1) \odot Zero6 = Zero6 /\ a \oplus ((-1) \odot a) = Zero6
  BY <1>1 DEF Ints6, Zero6, \oplus, \odot
<1>6. Add(a, b) = Add(b, a) /\ Add(a, Zero6) = a /\ Add(Zero6, a) = a
  <2>1. /\ Lifts6(Add(a, b), a \oplus b) /\ Lifts6(Add(b, a), b \oplus a)
        /\ Lifts6(Add(a, Zero6), a \oplus Zero6) /\ Lifts6(Add(Zero6, a), Zero6 \oplus a)
    BY <1>1, LiftsSums
  <2> QED BY <1>1, <1>2, <2>1, LiftsSame
<1>7. Sub(a, Zero6) = a /\ Sub(Add(a, b), b) = a /\ Add(Sub(a, b), b) = a
  <2>1. /\ Lifts6(Add(a, b), a \oplus b) /\ Lifts6(Sub(a, b), a \ominus b)
        /\ Lifts6(Sub(a, Zero6), a \ominus Zero6)
    BY <1>1, LiftsSums
  <2>2. /\ Lifts6(Sub(Add(a, b), b), (a \oplus b) \ominus b)
        /\ Lifts6(Add(Sub(a, b), b), (a \ominus b) \oplus b)
    BY <1>1, <2>1, LiftsSums
  <2> QED BY <1>1, <1>2, <1>3, <2>1, <2>2, LiftsSame
<1>8. Neg(Neg(a)) = a /\ Neg(Zero6) = Zero6 /\ Add(a, Neg(a)) = Zero6
  <2>1. Lifts6(Neg(a), (-1) \odot a) /\ Lifts6(Neg(Zero6), (-1) \odot Zero6)
    BY <1>1, LiftsSums
  <2>2. /\ Lifts6(Neg(Neg(a)), (-1) \odot ((-1) \odot a))
        /\ Lifts6(Add(a, Neg(a)), a \oplus ((-1) \odot a))
    BY <1>1, <2>1, LiftsSums
  <2> QED BY <1>1, <1>4, <1>5, <2>1, <2>2, LiftsSame
<1>9. Sub(a, b) = Zero6 => a = b
  <2>1. Add(Zero6, b) = b
    <3>1. Lifts6(Add(Zero6, b), Zero6 \oplus b)
      BY <1>1, LiftsSums
    <3>2. Zero6 \oplus b = b
      BY <1>1 DEF Ints6, Zero6, \oplus
    <3> QED BY <1>1, <3>1, <3>2, LiftsSame
  <2> QED BY <1>7, <2>1
<1> QED BY <1>6, <1>7, <1>8, <1>9 DEF Double

(* The coordinates of a point times g.                                     *)
Scale(g, p) == [x |-> MulFp6(g, p.x), y |-> MulFp6(g, p.y), z |-> MulFp6(g, p.z)]

LEMMA SumScales6 ==
  ASSUME NEW g \in Fp6, NEW c \in [1 .. 6 -> Fp6]
  PROVE  SumOfProducts(MulFp6(g, c[1]), MulFp6(g, c[2]), MulFp6(g, c[3]),
                       MulFp6(g, c[4]), MulFp6(g, c[5]), MulFp6(g, c[6]))
           = Scale(MulFp6(g, g), SumOfProducts(c[1], c[2], c[3], c[4], c[5], c[6]))
<1> DEFINE xx == c[1]  yy == c[2]  zz == c[3]
           xy == c[4]  xz == c[5]  yz == c[6]
<1>0. xx \in Fp6 /\ yy \in Fp6 /\ zz \in Fp6 /\ xy \in Fp6 /\ xz \in Fp6 /\ yz \in Fp6
  OBVIOUS
<1> HIDE DEF xx, yy, zz, xy, xz, yz
<1> DEFINE s == Add(MulFp6(B3, zz), xz)
           t == Add(MulFp6(B3, xz), Sub(xx, zz))
           u == Add(Add(Double(xx), xx), zz)
           d == Sub(yy, s)
           e == Add(yy, s)
           gxx == MulFp6(g, xx)  gyy == MulFp6(g, yy)  gzz == MulFp6(g, zz)
           gxy == MulFp6(g, xy)  gxz == MulFp6(g, xz)  gyz == MulFp6(g, yz)
           s2 == Add(MulFp6(B3, gzz), gxz)
           t2 == Add(MulFp6(B3, gxz), Sub(gxx, gzz))
           u2 == Add(Add(Double(gxx), gxx), gzz)
           gg == MulFp6(g, g)
<1>1. B3 \in Fp6 /\ MulFp6(B3, zz) \in Fp6 /\ MulFp6(B3, xz) \in Fp6 /\ Sub(xx, zz) \in Fp6
        /\ Double(xx) \in Fp6 /\ Add(Double(xx), xx) \in Fp6 /\ gg \in Fp6
  BY <1>0, Fp6Typed, CurveAssumption
<1>2. s \in Fp6 /\ t \in Fp6 /\ u \in Fp6
  BY <1>0, <1>1, Fp6Typed
<1>3. s2 = MulFp6(g, s)
  <2>1. MulFp6(B3, gzz) = MulFp6(g, MulFp6(B3, zz))
    BY <1>0, <1>1, MulSwaps
  <2> QED BY <1>0, <1>1, <2>1, FieldLaws
<1>4. t2 = MulFp6(g, t)
  <2>1. MulFp6(B3, gxz) = MulFp6(g, MulFp6(B3, xz)) /\ Sub(gxx, gzz) = MulFp6(g, Sub(xx, zz))
    BY <1>0, <1>1, MulSwaps, FieldLaws
  <2> QED BY <1>0, <1>1, <2>1, FieldLaws
<1>5. u2 = MulFp6(g, u)
  <2>1. Double(gxx) = MulFp6(g, Double(xx))
    BY <1>0, FieldLaws
  <2>2. Add(Double(gxx), gxx) = MulFp6(g, Add(Double(xx), xx))
    BY <1>0, <1>1, <2>1, FieldLaws
  <2> QED BY <1>0, <1>1, <2>2, FieldLaws
<1> HIDE DEF s, t, u, s2, t2, u2
<1>6. d \in Fp6 /\ e \in Fp6 /\ Sub(gyy, s2) = MulFp6(g, d) /\ Add(gyy, s2) = MulFp6(g, e)
  BY <1>0, <1>2, <1>3, FieldLaws, Fp6Typed
<1> DEFINE X == Sub(MulFp6(xy, d), MulFp6(yz, t))
           Y == Add(MulFp6(d, e), MulFp6(u, t))
           Z == Add(MulFp6(yz, e), MulFp6(xy, u))
<1>7. SumOfProducts(xx, yy, zz, xy, xz, yz) = [x |-> X, y |-> Y, z |-> Z]
  BY DEF SumOfProducts, s, t, u
<1>8. SumOfProducts(gxx, gyy, gzz, gxy, gxz, gyz)
        = [x |-> Sub(MulFp6(gxy, Sub(gyy, s2)), MulFp6(gyz, t2)),
           y |-> Add(MulFp6(Sub(gyy, s2), Add(gyy, s2)), MulFp6(u2, t2)),
           z |-> Add(MulFp6(gyz, Add(gyy, s2)), MulFp6(gxy, u2))]
  BY DEF SumOfProducts, s2, t2, u2
<1> HIDE DEF d, e
<1>9. /\ MulFp6(gxy, MulFp6(g, d)) = MulFp6(gg, MulFp6(xy, d))
      /\ MulFp6(gyz, MulFp6(g, t)) = MulFp6(gg, MulFp6(yz, t))
      /\ MulFp6(MulFp6(g, d), MulFp6(g, e)) = MulFp6(gg, MulFp6(d, e))
      /\ MulFp6(MulFp6(g, u), MulFp6(g, t)) = MulFp6(gg, MulFp6(u, t))
      /\ MulFp6(gyz, MulFp6(g, e)) = MulFp6(gg, MulFp6(yz, e))
      /\ MulFp6(gxy, MulFp6(g, u)) = MulFp6(gg, MulFp6(xy, u))
  BY <1>0, <1>2, <1>6, MulPairs
<1>10. /\ MulFp6(xy, d) \in Fp6 /\ MulFp6(yz, t) \in Fp6 /\ MulFp6(d, e) \in Fp6
       /\ MulFp6(u, t) \in Fp6 /\ MulFp6(yz, e) \in Fp6 /\ MulFp6(xy, u) \in Fp6
  BY <1>0, <1>2, <1>6, Fp6Typed
<1>11. /\ Sub(MulFp6(gxy, Sub(gyy, s2)), MulFp6(gyz, t2)) = MulFp6(gg, X)
       /\ Add(MulFp6(Sub(gyy, s2), Add(gyy, s2)), MulFp6(u2, t2)) = MulFp6(gg, Y)
       /\ Add(MulFp6(gyz, Add(gyy, s2)), MulFp6(gxy, u2)) = MulFp6(gg, Z)
  <2> HIDE DEF gg, gxy, gyz, gyy
  <2>1. Sub(MulFp6(gxy, Sub(gyy, s2)), MulFp6(gyz, t2)) = MulFp6(gg, X)
    BY <1>0, <1>1, <1>4, <1>6, <1>9, <1>10, FieldLaws
  <2>2. Add(MulFp6(Sub(gyy, s2), Add(gyy, s2)), MulFp6(u2, t2)) = MulFp6(gg, Y)
    BY <1>0, <1>1, <1>4, <1>5, <1>6, <1>9, <1>10, FieldLaws
  <2>3. Add(MulFp6(gyz, Add(gyy, s2)), MulFp6(gxy, u2)) = MulFp6(gg, Z)
    BY <1>0, <1>1, <1>5, <1>6, <1>9, <1>10, FieldLaws
  <2> QED BY <2>1, <2>2, <2>3
<1> HIDE DEF X, Y, Z, gg
<1>12. SumOfProducts(gxx, gyy, gzz, gxy, gxz, gyz)
         = [x |-> MulFp6(gg, X), y |-> MulFp6(gg, Y), z |-> MulFp6(gg, Z)]
  BY <1>8, <1>11
<1> HIDE DEF gxx, gyy, gzz, gxy, gxz, gyz
<1>13. SumOfProducts(gxx, gyy, gzz, gxy, gxz, gyz)
         = Scale(gg, SumOfProducts(xx, yy, zz, xy, xz, yz))
  BY <1>7, <1>12 DEF Scale
<1> QED BY <1>13 DEF gg, gxx, gyy, gzz, gxy, gxz, gyz, xx, yy, zz, xy, xz, yz

(* One product of sums makes two products.                                 *)
LEMMA UnlikeProducts ==
  ASSUME NEW a \in Fp6, NEW b \in Fp6, NEW c \in Fp6, NEW d \in Fp6
  PROVE  Unlike(a, b, c, d, MulFp6(a, c), MulFp6(b, d)) = Add(MulFp6(a, d), MulFp6(b, c))
<1> DEFINE ac == MulFp6(a, c)  ad == MulFp6(a, d)  bc == MulFp6(b, c)  bd == MulFp6(b, d)
           left == Add(a, b)
<1>1. /\ ac \in Fp6 /\ ad \in Fp6 /\ bc \in Fp6 /\ bd \in Fp6 /\ left \in Fp6
      /\ Add(c, d) \in Fp6
  BY Fp6Typed
<1>2. MulFp6(left, Add(c, d)) = Add(Add(ac, bc), Add(ad, bd))
  <2>1. MulFp6(left, Add(c, d)) = Add(MulFp6(left, c), MulFp6(left, d))
    BY <1>1, FieldLaws
  <2>2. \A x \in Fp6 : MulFp6(left, x) = Add(MulFp6(a, x), MulFp6(b, x))
    <3> TAKE x \in Fp6
    <3>1. MulFp6(left, x) = MulFp6(x, left) /\ MulFp6(x, left) = Add(MulFp6(x, a), MulFp6(x, b))
      BY <1>1, FieldLaws
    <3> QED BY <3>1, FieldLaws
  <2> QED BY <2>1, <2>2
<1> HIDE DEF ac, ad, bc, bd
<1>3. Sub(Add(Add(ac, bc), Add(ad, bd)), Add(ac, bd)) = Add(ad, bc)
  <2>1. /\ Lifts6(ac, ac) /\ Lifts6(bc, bc) /\ Lifts6(ad, ad) /\ Lifts6(bd, bd)
        /\ ac \in Ints6 /\ bc \in Ints6 /\ ad \in Ints6 /\ bd \in Ints6
    BY <1>1, LiftsOwn DEF Lifts6
  <2>2. /\ Lifts6(Add(ac, bc), ac \oplus bc) /\ Lifts6(Add(ad, bd), ad \oplus bd)
        /\ Lifts6(Add(ac, bd), ac \oplus bd) /\ Lifts6(Add(ad, bc), ad \oplus bc)
    BY <2>1, LiftsSums
  <2>3. Lifts6(Add(Add(ac, bc), Add(ad, bd)), (ac \oplus bc) \oplus (ad \oplus bd))
    BY <2>2, LiftsSums
  <2>4. Lifts6(Sub(Add(Add(ac, bc), Add(ad, bd)), Add(ac, bd)),
               ((ac \oplus bc) \oplus (ad \oplus bd)) \ominus (ac \oplus bd))
    BY <2>2, <2>3, LiftsSums
  <2>5. ((ac \oplus bc) \oplus (ad \oplus bd)) \ominus (ac \oplus bd) = ad \oplus bc
    BY ONLY <2>1 DEF Ints6, \oplus, \ominus
  <2> QED BY <2>2, <2>4, <2>5, LiftsSame
<1> QED BY <1>2, <1>3 DEF Unlike, ac, ad, bc, bd

LEMMA AddIsSum ==
  ASSUME NEW p \in Projective, NEW r \in Projective
  PROVE  ComputeAdd(p, r)
           = SumOfProducts(MulFp6(p.x, r.x), MulFp6(p.y, r.y), MulFp6(p.z, r.z),
                           Add(MulFp6(p.x, r.y), MulFp6(p.y, r.x)),
                           Add(MulFp6(p.x, r.z), MulFp6(p.z, r.x)),
                           Add(MulFp6(p.y, r.z), MulFp6(p.z, r.y)))
<1>1. /\ p.x \in Fp6 /\ p.y \in Fp6 /\ p.z \in Fp6
      /\ r.x \in Fp6 /\ r.y \in Fp6 /\ r.z \in Fp6
  BY CoordinatesTyped
<1> QED BY <1>1, UnlikeProducts DEF ComputeAdd

LEMMA AddCommutes ==
  ASSUME NEW p \in Projective, NEW r \in Projective
  PROVE  ComputeAdd(p, r) = ComputeAdd(r, p)
<1>1. /\ p.x \in Fp6 /\ p.y \in Fp6 /\ p.z \in Fp6
      /\ r.x \in Fp6 /\ r.y \in Fp6 /\ r.z \in Fp6
  BY CoordinatesTyped
<1>2. \A a, b \in Fp6 : MulFp6(a, b) = MulFp6(b, a) /\ MulFp6(a, b) \in Fp6
  BY FieldLaws, Fp6Typed
<1>3. \A a, b \in Fp6 : Add(a, b) = Add(b, a)
  BY SumLaws
<1>4. /\ Add(MulFp6(p.x, r.y), MulFp6(p.y, r.x)) = Add(MulFp6(r.x, p.y), MulFp6(r.y, p.x))
      /\ Add(MulFp6(p.x, r.z), MulFp6(p.z, r.x)) = Add(MulFp6(r.x, p.z), MulFp6(r.z, p.x))
      /\ Add(MulFp6(p.y, r.z), MulFp6(p.z, r.y)) = Add(MulFp6(r.y, p.z), MulFp6(r.z, p.y))
  BY <1>1, <1>2, <1>3
<1>5. /\ MulFp6(p.x, r.x) = MulFp6(r.x, p.x) /\ MulFp6(p.y, r.y) = MulFp6(r.y, p.y)
      /\ MulFp6(p.z, r.z) = MulFp6(r.z, p.z)
  BY <1>1, <1>2
<1> QED BY <1>4, <1>5, AddIsSum

LEMMA ScaleTyped ==
  ASSUME NEW g \in Fp6, NEW p \in Projective
  PROVE  /\ Scale(g, p) \in Projective
         /\ \A w \in Fp6 : Scale(w, Scale(g, p)) = Scale(MulFp6(w, g), p)
<1>1. p.x \in Fp6 /\ p.y \in Fp6 /\ p.z \in Fp6
  BY CoordinatesTyped
<1>2. Scale(g, p) \in Projective
  BY <1>1, Fp6Typed, PointTyped DEF Scale
<1>3. ASSUME NEW w \in Fp6 PROVE Scale(w, Scale(g, p)) = Scale(MulFp6(w, g), p)
  <2>1. /\ MulFp6(w, MulFp6(g, p.x)) = MulFp6(MulFp6(w, g), p.x)
        /\ MulFp6(w, MulFp6(g, p.y)) = MulFp6(MulFp6(w, g), p.y)
        /\ MulFp6(w, MulFp6(g, p.z)) = MulFp6(MulFp6(w, g), p.z)
    BY <1>1, MulAssociates
  <2> QED BY <2>1 DEF Scale
<1> QED BY <1>2, <1>3

LEMMA AddScales ==
  ASSUME NEW v \in Fp6, NEW w \in Fp6, NEW p \in Projective, NEW r \in Projective
  PROVE  ComputeAdd(Scale(v, p), Scale(w, r))
           = Scale(MulFp6(MulFp6(v, w), MulFp6(v, w)), ComputeAdd(p, r))
<1> DEFINE g == MulFp6(v, w)
           px == p.x  py == p.y  pz == p.z  rx == r.x  ry == r.y  rz == r.z
           xx == MulFp6(px, rx)  yy == MulFp6(py, ry)  zz == MulFp6(pz, rz)
           xy == Add(MulFp6(px, ry), MulFp6(py, rx))
           xz == Add(MulFp6(px, rz), MulFp6(pz, rx))
           yz == Add(MulFp6(py, rz), MulFp6(pz, ry))
           sp == Scale(v, p)
           sr == Scale(w, r)
<1>1. /\ px \in Fp6 /\ py \in Fp6 /\ pz \in Fp6 /\ rx \in Fp6 /\ ry \in Fp6 /\ rz \in Fp6
      /\ sp \in Projective /\ sr \in Projective /\ g \in Fp6
  BY CoordinatesTyped, ScaleTyped, Fp6Typed
<1>2. /\ sp.x = MulFp6(v, px) /\ sp.y = MulFp6(v, py) /\ sp.z = MulFp6(v, pz)
      /\ sr.x = MulFp6(w, rx) /\ sr.y = MulFp6(w, ry) /\ sr.z = MulFp6(w, rz)
  BY DEF Scale
<1>3. \A a, b \in Fp6 : MulFp6(MulFp6(v, a), MulFp6(w, b)) = MulFp6(g, MulFp6(a, b))
  BY MulPairs
<1>4. \A a, b, c, d \in Fp6 :
        Add(MulFp6(MulFp6(v, a), MulFp6(w, b)), MulFp6(MulFp6(v, c), MulFp6(w, d)))
          = MulFp6(g, Add(MulFp6(a, b), MulFp6(c, d)))
  <2> TAKE a, b, c, d \in Fp6
  <2> DEFINE ab == MulFp6(a, b)
             cd == MulFp6(c, d)
  <2>1. ab \in Fp6 /\ cd \in Fp6
    BY Fp6Typed
  <2>2. /\ MulFp6(MulFp6(v, a), MulFp6(w, b)) = MulFp6(g, ab)
        /\ MulFp6(MulFp6(v, c), MulFp6(w, d)) = MulFp6(g, cd)
    BY <1>3
  <2> HIDE DEF ab, cd, g
  <2>3. MulFp6(g, Add(ab, cd)) = Add(MulFp6(g, ab), MulFp6(g, cd))
    BY <1>1, <2>1, FieldLaws
  <2> QED BY <2>2, <2>3 DEF ab, cd
<1>5. /\ MulFp6(sp.x, sr.x) = MulFp6(g, xx) /\ MulFp6(sp.y, sr.y) = MulFp6(g, yy)
      /\ MulFp6(sp.z, sr.z) = MulFp6(g, zz)
  BY <1>1, <1>2, <1>3
<1>6. /\ Add(MulFp6(sp.x, sr.y), MulFp6(sp.y, sr.x)) = MulFp6(g, xy)
      /\ Add(MulFp6(sp.x, sr.z), MulFp6(sp.z, sr.x)) = MulFp6(g, xz)
      /\ Add(MulFp6(sp.y, sr.z), MulFp6(sp.z, sr.y)) = MulFp6(g, yz)
  <2> HIDE DEF g, sp, sr, px, py, pz, rx, ry, rz
  <2>1. Add(MulFp6(sp.x, sr.y), MulFp6(sp.y, sr.x)) = MulFp6(g, xy)
    BY <1>1, <1>2, <1>4
  <2>2. Add(MulFp6(sp.x, sr.z), MulFp6(sp.z, sr.x)) = MulFp6(g, xz)
    BY <1>1, <1>2, <1>4
  <2>3. Add(MulFp6(sp.y, sr.z), MulFp6(sp.z, sr.y)) = MulFp6(g, yz)
    BY <1>1, <1>2, <1>4
  <2> QED BY <2>1, <2>2, <2>3
<1>7. ComputeAdd(sp, sr)
        = SumOfProducts(MulFp6(g, xx), MulFp6(g, yy), MulFp6(g, zz),
                        MulFp6(g, xy), MulFp6(g, xz), MulFp6(g, yz))
  BY <1>1, <1>5, <1>6, AddIsSum
<1>8. ComputeAdd(p, r) = SumOfProducts(xx, yy, zz, xy, xz, yz)
  BY AddIsSum
<1>9. xx \in Fp6 /\ yy \in Fp6 /\ zz \in Fp6 /\ xy \in Fp6 /\ xz \in Fp6 /\ yz \in Fp6
  BY <1>1, Fp6Typed
<1> HIDE DEF xx, yy, zz, xy, xz, yz, g, sp, sr, px, py, pz, rx, ry, rz
<1> DEFINE c == <<xx, yy, zz, xy, xz, yz>>
<1>10. c \in [1 .. 6 -> Fp6]
  BY <1>9
<1>11. SumOfProducts(MulFp6(g, xx), MulFp6(g, yy), MulFp6(g, zz),
                     MulFp6(g, xy), MulFp6(g, xz), MulFp6(g, yz))
         = Scale(MulFp6(g, g), SumOfProducts(xx, yy, zz, xy, xz, yz))
  <2>1. /\ c[1] = xx /\ c[2] = yy /\ c[3] = zz /\ c[4] = xy /\ c[5] = xz /\ c[6] = yz
    OBVIOUS
  <2> HIDE DEF c
  <2>2. SumOfProducts(MulFp6(g, c[1]), MulFp6(g, c[2]), MulFp6(g, c[3]),
                      MulFp6(g, c[4]), MulFp6(g, c[5]), MulFp6(g, c[6]))
          = Scale(MulFp6(g, g), SumOfProducts(c[1], c[2], c[3], c[4], c[5], c[6]))
    BY <1>1, <1>10, SumScales6
  <2> QED BY <2>1, <2>2
<1>12. ComputeAdd(sp, sr) = Scale(MulFp6(g, g), ComputeAdd(p, r))
  BY <1>7, <1>8, <1>11
<1> QED BY <1>12 DEF g, sp, sr

(* The other point of a mixed sum has the z 1.                             *)
LEMMA MixedIsAdd ==
  ASSUME NEW p \in Projective, NEW r \in Affine
  PROVE  ComputeAddMixed(p, r) = ComputeAdd(p, [x |-> r.x, y |-> r.y, z |-> One6])
<1> DEFINE r1 == [x |-> r.x, y |-> r.y, z |-> One6]
<1>1. /\ p.x \in Fp6 /\ p.y \in Fp6 /\ p.z \in Fp6 /\ r.x \in Fp6 /\ r.y \in Fp6
      /\ One6 \in Fp6
  BY CoordinatesTyped, ZeroTyped
<1>2. r1 \in Projective /\ r1.x = r.x /\ r1.y = r.y /\ r1.z = One6
  BY <1>1, PointTyped
<1>3. /\ MulFp6(p.z, One6) = p.z /\ MulFp6(p.x, One6) = p.x /\ MulFp6(p.y, One6) = p.y
  BY <1>1, MulUnits
<1>4. /\ Add(MulFp6(r.x, p.z), p.x) = Add(p.x, MulFp6(p.z, r.x))
      /\ Add(MulFp6(r.y, p.z), p.y) = Add(p.y, MulFp6(p.z, r.y))
  <2>1. /\ MulFp6(r.x, p.z) = MulFp6(p.z, r.x) /\ MulFp6(r.y, p.z) = MulFp6(p.z, r.y)
        /\ MulFp6(p.z, r.x) \in Fp6 /\ MulFp6(p.z, r.y) \in Fp6
    BY <1>1, FieldLaws, Fp6Typed
  <2> QED BY <1>1, <2>1, SumLaws
<1>5. Unlike(p.x, p.y, r.x, r.y, MulFp6(p.x, r.x), MulFp6(p.y, r.y))
        = Add(MulFp6(p.x, r.y), MulFp6(p.y, r.x))
  BY <1>1, UnlikeProducts
<1>6. ComputeAddMixed(p, r)
        = SumOfProducts(MulFp6(p.x, r.x), MulFp6(p.y, r.y), p.z,
                        Add(MulFp6(p.x, r.y), MulFp6(p.y, r.x)),
                        Add(p.x, MulFp6(p.z, r.x)), Add(p.y, MulFp6(p.z, r.y)))
  BY <1>4, <1>5 DEF ComputeAddMixed
<1> HIDE DEF r1
<1>7. ComputeAdd(p, r1)
        = SumOfProducts(MulFp6(p.x, r.x), MulFp6(p.y, r.y), p.z,
                        Add(MulFp6(p.x, r.y), MulFp6(p.y, r.x)),
                        Add(p.x, MulFp6(p.z, r.x)), Add(p.y, MulFp6(p.z, r.y)))
  BY <1>2, <1>3, AddIsSum
<1> QED BY <1>6, <1>7 DEF r1

(* The double is the sum of a point with itself but for its z.             *)
LEMMA DoubleIsSum ==
  ASSUME NEW p \in Projective
  PROVE  /\ ComputeDouble(p).x = ComputeAdd(p, p).x
         /\ ComputeDouble(p).y = ComputeAdd(p, p).y
         /\ ComputeDouble(p).z
              = Double(Double(MulFp6(Double(MulFp6(p.y, p.z)), MulFp6(p.y, p.y))))
<1> DEFINE xx == MulFp6(p.x, p.x)  yy == MulFp6(p.y, p.y)  zz == MulFp6(p.z, p.z)
           xy == MulFp6(p.x, p.y)  xz == MulFp6(p.x, p.z)  yz == MulFp6(p.y, p.z)
           xz2 == Double(xz)
           bzz == MulFp6(B3, zz)
           bxz == MulFp6(B3, xz2)
           s == Add(xz2, bzz)
           t == Add(Sub(xx, zz), bxz)
           u == Add(Add(Double(xx), xx), zz)
           X == Sub(MulFp6(Double(xy), Sub(yy, s)), MulFp6(Double(yz), t))
           Y == Add(MulFp6(Sub(yy, s), Add(yy, s)), MulFp6(u, t))
           Z == Double(Double(MulFp6(Double(yz), yy)))
<1>1. p.x \in Fp6 /\ p.y \in Fp6 /\ p.z \in Fp6 /\ B3 \in Fp6
  BY CoordinatesTyped, CurveAssumption
<1>2. /\ SquareFp6(p.x) = xx /\ SquareFp6(p.y) = yy /\ SquareFp6(p.z) = zz
      /\ MulFp6(p.y, p.x) = xy /\ MulFp6(p.z, p.x) = xz /\ MulFp6(p.z, p.y) = yz
  BY <1>1, MulFp6IsProduct, FieldLaws DEF Square
<1>3. /\ xx \in Fp6 /\ yy \in Fp6 /\ zz \in Fp6 /\ xy \in Fp6 /\ xz \in Fp6 /\ yz \in Fp6
      /\ xz2 \in Fp6 /\ Sub(xx, zz) \in Fp6
  BY <1>1, Fp6Typed
<1>4. ComputeDouble(p) = [x |-> X, y |-> Y, z |-> Z]
  BY <1>2 DEF ComputeDouble
<1>5. ComputeAdd(p, p) = SumOfProducts(xx, yy, zz, Double(xy), xz2, Double(yz))
  BY <1>2, AddIsSum DEF Double
<1> HIDE DEF xx, yy, zz, xy, xz, yz, xz2
<1>6. Add(bzz, xz2) = s /\ Add(bxz, Sub(xx, zz)) = t
  <2>1. bzz \in Fp6 /\ bxz \in Fp6
    BY <1>1, <1>3, Fp6Typed
  <2> QED BY <1>3, <2>1, SumLaws
<1>7. /\ SumOfProducts(xx, yy, zz, Double(xy), xz2, Double(yz)).x = X
      /\ SumOfProducts(xx, yy, zz, Double(xy), xz2, Double(yz)).y = Y
  BY <1>6 DEF SumOfProducts
<1> QED BY <1>4, <1>5, <1>7 DEF yz, yy

LEMMA DoubleScales ==
  ASSUME NEW g \in Fp6, NEW p \in Projective
  PROVE  ComputeDouble(Scale(g, p))
           = Scale(MulFp6(MulFp6(g, g), MulFp6(g, g)), ComputeDouble(p))
<1> DEFINE gg == MulFp6(g, g)
           g4 == MulFp6(gg, gg)
           sp == Scale(g, p)
           yz == MulFp6(p.y, p.z)
           yy == MulFp6(p.y, p.y)
           d == ComputeDouble(p)
           sd == ComputeDouble(sp)
           a == ComputeAdd(p, p)
           sa == ComputeAdd(sp, sp)
<1>1. /\ p.x \in Fp6 /\ p.y \in Fp6 /\ p.z \in Fp6 /\ gg \in Fp6 /\ g4 \in Fp6
      /\ sp \in Projective /\ d \in Projective /\ sd \in Projective
      /\ yz \in Fp6 /\ yy \in Fp6
  BY CoordinatesTyped, Fp6Typed, ScaleTyped, DoubleTyped
<1>2. sa = Scale(g4, a)
  BY AddScales
<1>3. sd.x = MulFp6(g4, d.x) /\ sd.y = MulFp6(g4, d.y)
  <2>1. d.x = a.x /\ d.y = a.y
    BY DoubleIsSum
  <2>2. sd.x = sa.x /\ sd.y = sa.y
    BY <1>1, DoubleIsSum
  <2>3. sa.x = MulFp6(g4, a.x) /\ sa.y = MulFp6(g4, a.y)
    BY <1>2 DEF Scale
  <2> QED BY <2>1, <2>2, <2>3
<1>4. sd.z = MulFp6(g4, d.z)
  <2>1. MulFp6(sp.y, sp.z) = MulFp6(gg, yz) /\ MulFp6(sp.y, sp.y) = MulFp6(gg, yy)
    BY <1>1, MulPairs DEF Scale
  <2>2. /\ d.z = Double(Double(MulFp6(Double(yz), yy)))
        /\ sd.z = Double(Double(MulFp6(Double(MulFp6(gg, yz)), MulFp6(gg, yy))))
    BY <1>1, <2>1, DoubleIsSum
  <2> HIDE DEF yz, yy, gg, d, sd
  <2> DEFINE yz2 == Double(yz)
             q == MulFp6(yz2, yy)
  <2>3. yz2 \in Fp6 /\ q \in Fp6 /\ Double(q) \in Fp6
    BY <1>1, Fp6Typed
  <2>4. Double(MulFp6(gg, yz)) = MulFp6(gg, yz2)
    BY <1>1, FieldLaws
  <2> HIDE DEF yz2
  <2>5. MulFp6(MulFp6(gg, yz2), MulFp6(gg, yy)) = MulFp6(g4, q)
    BY <1>1, <2>3, MulPairs
  <2> HIDE DEF q, g4
  <2>6. /\ Double(MulFp6(g4, q)) = MulFp6(g4, Double(q))
        /\ Double(MulFp6(g4, Double(q))) = MulFp6(g4, Double(Double(q)))
    BY <1>1, <2>3, FieldLaws
  <2> QED BY <2>2, <2>4, <2>5, <2>6 DEF q, yz2
<1>5. sd = [x |-> sd.x, y |-> sd.y, z |-> sd.z]
  <2> HIDE DEF sd
  <2> QED BY <1>1 DEF Projective
<1> HIDE DEF sd, d
<1> QED BY <1>3, <1>4, <1>5 DEF Scale, sd, d, sp

(* The projective point of a multiple, with the z 0 or 1.                  *)
Point(k) ==
  IF k % Q = 0 THEN Infinity
  ELSE [x |-> Multiples[k % Q].x, y |-> Multiples[k % Q].y, z |-> One6]

LEMMA PointsTyped ==
  ASSUME NEW k \in Nat
  PROVE  /\ Point(k) \in Projective
         /\ k % Q # 0 => k % Q \in 1 .. (Q - 1) /\ Multiples[k % Q] \in Affine
<1> DEFINE c == k % Q
<1>1. c \in 0 .. (Q - 1)
  BY ResiduesAdd
<1>2. Zero6 \in Fp6 /\ One6 \in Fp6 /\ Q \in Nat
  BY ZeroTyped, GroupAssumption
<1> HIDE DEF c
<1>3. c # 0 => c \in 1 .. (Q - 1) /\ Multiples[c] \in Affine
  BY <1>1, <1>2, GroupAssumption
<1>4. c # 0 => Multiples[c].x \in Fp6 /\ Multiples[c].y \in Fp6
  BY <1>3, CoordinatesTyped
<1>5. CASE c = 0
  BY <1>2, <1>3, <1>5, PointTyped DEF Point, Infinity, c
<1>6. CASE c # 0
  <2>1. Point(k) = [x |-> Multiples[c].x, y |-> Multiples[c].y, z |-> One6]
    BY <1>6 DEF Point, c
  <2>2. Point(k) \in Projective
    BY <1>2, <1>4, <1>6, <2>1, PointTyped
  <2> QED BY <1>3, <2>2 DEF c
<1> QED BY <1>5, <1>6

(* What represents a multiple is its point times an element but zero.      *)
LEMMA RepresentsIsScale ==
  ASSUME NEW p \in Projective, NEW k \in Nat
  PROVE  Represents(p, k) <=> \E g \in Fp6 \ {Zero6} : p = Scale(g, Point(k))
<1> DEFINE c == k % Q
           M == Multiples[c]
<1>1. p.x \in Fp6 /\ p.y \in Fp6 /\ p.z \in Fp6 /\ p = [x |-> p.x, y |-> p.y, z |-> p.z]
  BY DEF Projective
<1>2. \A g \in Fp6 : MulFp6(g, One6) = g /\ MulFp6(g, Zero6) = Zero6
  BY MulUnits
<1>3. CASE c = 0
  <2>1. \A g \in Fp6 : Scale(g, Point(k)) = [x |-> Zero6, y |-> g, z |-> Zero6]
    BY <1>2, <1>3 DEF Scale, Point, Infinity
  <2>2. Represents(p, k) <=> p.x = Zero6 /\ p.y # Zero6 /\ p.z = Zero6
    BY <1>3 DEF Represents
  <2> QED BY <1>1, <2>1, <2>2
<1>4. CASE c # 0
  <2>1. M \in Affine /\ M.x \in Fp6 /\ M.y \in Fp6
    BY <1>4, PointsTyped, CoordinatesTyped
  <2> HIDE DEF M
  <2>2. \A g \in Fp6 : Product(M.x, g) = MulFp6(g, M.x) /\ Product(M.y, g) = MulFp6(g, M.y)
    BY <2>1, MulFp6IsProduct, FieldLaws
  <2>3. \A g \in Fp6 : Scale(g, Point(k)) = [x |-> Product(M.x, g), y |-> Product(M.y, g), z |-> g]
    BY <1>2, <1>4, <2>2 DEF Scale, Point, M
  <2>4. Represents(p, k)
          <=> p.z # Zero6 /\ p.x = Product(M.x, p.z) /\ p.y = Product(M.y, p.z)
    BY <1>4 DEF Represents, M
  <2> QED BY <1>1, <2>3, <2>4
<1> QED BY <1>3, <1>4

(* The point at infinity is neutral.                                       *)
LEMMA ZeroAdds ==
  ASSUME NEW r \in Projective, NEW i, i = Infinity
  PROVE  /\ ComputeAdd(i, r) = Scale(r.y, r) /\ ComputeAdd(r, i) = Scale(r.y, r)
         /\ ComputeDouble(i) = i
<1> DEFINE y == r.y
<1>1. /\ r.x \in Fp6 /\ y \in Fp6 /\ r.z \in Fp6 /\ Zero6 \in Fp6 /\ One6 \in Fp6
      /\ B3 \in Fp6
  BY CoordinatesTyped, ZeroTyped, CurveAssumption
<1>2. i \in Projective /\ i.x = Zero6 /\ i.y = One6 /\ i.z = Zero6
  BY <1>1, PointTyped DEF Infinity
<1>3. \A a \in Fp6 : /\ MulFp6(Zero6, a) = Zero6 /\ MulFp6(a, Zero6) = Zero6
                     /\ MulFp6(One6, a) = a /\ MulFp6(a, One6) = a
  BY <1>1, MulUnits, FieldLaws
<1>4. \A a \in Fp6 : Add(a, Zero6) = a /\ Add(Zero6, a) = a /\ Sub(a, Zero6) = a
  BY SumLaws
<1>5. ComputeAdd(i, r) = SumOfProducts(Zero6, y, Zero6, r.x, Zero6, r.z)
  <2>1. ComputeAdd(i, r)
          = SumOfProducts(Zero6, y, Zero6, Add(Zero6, r.x), Add(Zero6, Zero6), Add(r.z, Zero6))
    BY <1>1, <1>2, <1>3, AddIsSum
  <2> QED BY <1>1, <1>4, <2>1
<1>6. \A a, b, c \in Fp6 :
        SumOfProducts(Zero6, b, Zero6, a, Zero6, c)
          = [x |-> MulFp6(a, b), y |-> MulFp6(b, b), z |-> MulFp6(c, b)]
  <2> TAKE a, b, c \in Fp6
  <2>1. /\ Add(MulFp6(B3, Zero6), Zero6) = Zero6
        /\ Add(MulFp6(B3, Zero6), Sub(Zero6, Zero6)) = Zero6
        /\ Add(Add(Double(Zero6), Zero6), Zero6) = Zero6
    <3>1. MulFp6(B3, Zero6) = Zero6
      BY <1>1, <1>3
    <3>2. Double(Zero6) = Zero6
      BY <1>1, <1>4, SumLaws
    <3>3. Add(Zero6, Zero6) = Zero6 /\ Sub(Zero6, Zero6) = Zero6
      BY <1>1, <1>4
    <3> QED BY <3>1, <3>2, <3>3
  <2>2. Sub(b, Zero6) = b /\ Add(b, Zero6) = b
    BY <1>4
  <2>3. SumOfProducts(Zero6, b, Zero6, a, Zero6, c)
          = [x |-> Sub(MulFp6(a, b), MulFp6(c, Zero6)),
             y |-> Add(MulFp6(b, b), MulFp6(Zero6, Zero6)),
             z |-> Add(MulFp6(c, b), MulFp6(a, Zero6))]
    BY <2>1, <2>2 DEF SumOfProducts
  <2>4. MulFp6(a, b) \in Fp6 /\ MulFp6(b, b) \in Fp6 /\ MulFp6(c, b) \in Fp6
    BY Fp6Typed
  <2>5. MulFp6(c, Zero6) = Zero6 /\ MulFp6(Zero6, Zero6) = Zero6 /\ MulFp6(a, Zero6) = Zero6
    BY <1>1, <1>3
  <2> QED BY <1>4, <2>3, <2>4, <2>5
<1>7. ComputeAdd(i, r) = Scale(y, r)
  <2>1. MulFp6(r.x, y) = MulFp6(y, r.x) /\ MulFp6(r.z, y) = MulFp6(y, r.z)
    BY <1>1, FieldLaws
  <2>2. SumOfProducts(Zero6, y, Zero6, r.x, Zero6, r.z)
          = [x |-> MulFp6(r.x, y), y |-> MulFp6(y, y), z |-> MulFp6(r.z, y)]
    <3> HIDE DEF y
    <3> QED BY <1>1, <1>6
  <2> QED BY <1>5, <2>1, <2>2 DEF Scale
<1>8. ComputeDouble(i) = i
  <2> DEFINE d == ComputeDouble(i)
             a == ComputeAdd(i, i)
  <2>1. a = [x |-> Zero6, y |-> One6, z |-> Zero6]
    <3>1. a = SumOfProducts(Zero6, One6, Zero6, Zero6, Zero6, Zero6)
      <4>1. a = SumOfProducts(Zero6, One6, Zero6, Add(Zero6, Zero6), Add(Zero6, Zero6),
                              Add(Zero6, Zero6))
        BY <1>1, <1>2, <1>3, AddIsSum
      <4>2. Add(Zero6, Zero6) = Zero6
        BY <1>1, <1>4
      <4> QED BY <4>1, <4>2
    <3>2. MulFp6(Zero6, One6) = Zero6 /\ MulFp6(One6, One6) = One6
      BY <1>1, <1>3
    <3> QED BY <1>1, <1>6, <3>1, <3>2
  <2>2. d.z = Zero6
    <3>1. d.z = Double(Double(MulFp6(Double(MulFp6(One6, Zero6)), MulFp6(One6, One6))))
      BY <1>2, DoubleIsSum
    <3>2. Double(Zero6) = Zero6
      BY <1>1, <1>4, SumLaws
    <3>3. MulFp6(One6, Zero6) = Zero6 /\ MulFp6(One6, One6) = One6 /\ MulFp6(Zero6, One6) = Zero6
      BY <1>1, <1>3
    <3> QED BY <3>1, <3>2, <3>3
  <2>3. d.x = Zero6 /\ d.y = One6
    BY <1>2, <2>1, DoubleIsSum
  <2>4. d \in Projective
    BY <1>2, DoubleTyped
  <2> HIDE DEF d
  <2>5. d = [x |-> Zero6, y |-> One6, z |-> Zero6]
    BY <2>2, <2>3, <2>4 DEF Projective
  <2> QED BY <2>5 DEF d, Infinity
<1> QED BY <1>2, <1>7, <1>8, AddCommutes

LEMMA AddOfAffine ==
  ASSUME NEW x \in Fp6, NEW y \in Fp6, NEW x2 \in Fp6, NEW y2 \in Fp6
  PROVE  ComputeAdd([x |-> x, y |-> y, z |-> One6], [x |-> x2, y |-> y2, z |-> One6])
           = SumOfProducts(MulFp6(x, x2), MulFp6(y, y2), One6,
                           Add(MulFp6(x, y2), MulFp6(y, x2)), Add(x, x2), Add(y, y2))
<1> DEFINE p == [x |-> x, y |-> y, z |-> One6]
           r == [x |-> x2, y |-> y2, z |-> One6]
<1>1. /\ p \in Projective /\ p.x = x /\ p.y = y /\ p.z = One6
      /\ r \in Projective /\ r.x = x2 /\ r.y = y2 /\ r.z = One6 /\ One6 \in Fp6
  BY ZeroTyped, PointTyped
<1> HIDE DEF p, r
<1>2. \A a \in Fp6 : MulFp6(a, One6) = a /\ MulFp6(One6, a) = a
  BY <1>1, MulUnits, FieldLaws
<1>3. ComputeAdd(p, r)
        = SumOfProducts(MulFp6(x, x2), MulFp6(y, y2), One6,
                        Add(MulFp6(x, y2), MulFp6(y, x2)), Add(x, x2), Add(y, y2))
  BY <1>1, <1>2, AddIsSum
<1> QED BY <1>3 DEF p, r

(* The third point of a line, by OnLine and by Meets.                      *)
LEMMA ThirdOfLine ==
  ASSUME NEW l, NEW c, NEW x, NEW y, NEW x2, NEW y2, Meets(l, c, x, y, x2, y2),
         NEW r \in Affine, NEW dx \in Fp6 \ {Zero6}, NEW dy, dy = MulFp6(l, dx),
         NEW p, p.x = x, p.y = y, NEW p2, p2.x = x2,
         OnLine(p, p2, r, dx, dy)
  PROVE  LET t == Sub(MulFp6(l, l), Add(x, x2))
         IN r.x = t /\ r.y = Neg(Add(MulFp6(l, t), c))
<1> DEFINE ll == MulFp6(l, l)
           dd == MulFp6(dx, dx)
           xz == Add(x, x2)
           t == Sub(ll, xz)
           lx == MulFp6(l, x)
           lt == MulFp6(l, t)
<1>1. /\ l \in Fp6 /\ c \in Fp6 /\ x \in Fp6 /\ y \in Fp6 /\ x2 \in Fp6 /\ dx \in Fp6
      /\ r.x \in Fp6 /\ r.y \in Fp6 /\ dy \in Fp6 /\ ll \in Fp6 /\ xz \in Fp6
      /\ lx \in Fp6 /\ y = Add(lx, c)
  BY CoordinatesTyped, Fp6Typed DEF Meets
<1>2. dd \in Fp6 \ {Zero6} /\ t \in Fp6 /\ lt \in Fp6
  BY <1>1, MulNotZero, Fp6Typed
<1>3. \A a, b \in Fp6 : Product(a, b) = MulFp6(a, b) /\ Square(a) = MulFp6(a, a)
  BY MulFp6IsProduct DEF Square
<1>4. r.x = t
  <2> DEFINE a == Add(xz, r.x)
  <2>1. a \in Fp6 /\ a = Add(r.x, xz)
    BY <1>1, Fp6Typed, SumLaws
  <2>2. Product(a, Square(dx)) = Square(dy)
    BY DEF OnLine
  <2>3. Square(dy) = MulFp6(ll, dd) /\ Square(dx) = dd
    BY <1>1, <1>3, MulPairs
  <2> HIDE DEF a, ll, dd, xz, t
  <2>4. MulFp6(a, dd) = MulFp6(ll, dd)
    BY <1>2, <1>3, <2>1, <2>2, <2>3
  <2>5. a = ll
    BY <1>1, <1>2, <2>1, <2>4, MulCancels
  <2>6. Sub(a, xz) = r.x
    BY <1>1, <2>1, SumLaws
  <2> QED BY <2>5, <2>6 DEF t
<1>5. r.y = Neg(Add(lt, c))
  <2> DEFINE a == Add(r.y, y)
             b == Sub(x, r.x)
  <2>1. a \in Fp6 /\ b \in Fp6 /\ Sub(a, y) = r.y
    BY <1>1, Fp6Typed, SumLaws
  <2>2. Product(a, dx) = Product(dy, b)
    BY DEF OnLine
  <2>3. b = Sub(x, t)
    BY <1>4
  <2> HIDE DEF a, b, lx, lt, t
  <2>4. MulFp6(a, dx) = MulFp6(MulFp6(l, dx), b)
    BY <1>1, <1>3, <2>1, <2>2
  <2>5. MulFp6(MulFp6(l, dx), b) = MulFp6(MulFp6(l, b), dx)
    <3>1. MulFp6(MulFp6(l, dx), b) = MulFp6(l, MulFp6(dx, b))
      BY <1>1, <2>1, MulAssociates
    <3>2. MulFp6(MulFp6(l, b), dx) = MulFp6(l, MulFp6(b, dx))
      BY <1>1, <2>1, MulAssociates
    <3> QED BY <1>1, <2>1, <3>1, <3>2, FieldLaws
  <2>6. a = MulFp6(l, b)
    <3>1. MulFp6(l, b) \in Fp6
      BY <1>1, <2>1, Fp6Typed
    <3> QED BY <2>1, <2>4, <2>5, <3>1, MulCancels
  <2>7. a = Sub(lx, lt)
    BY <1>1, <1>2, <2>3, <2>6, FieldLaws DEF lx, lt
  <2>8. Sub(Sub(lx, lt), Add(lx, c)) = Neg(Add(lt, c))
    <3>1. /\ Lifts6(lx, lx) /\ Lifts6(lt, lt) /\ Lifts6(c, c)
          /\ lx \in Ints6 /\ lt \in Ints6 /\ c \in Ints6
      BY <1>1, <1>2, LiftsOwn DEF Lifts6
    <3>2. /\ Lifts6(Sub(lx, lt), lx \ominus lt) /\ Lifts6(Add(lx, c), lx \oplus c)
          /\ Lifts6(Add(lt, c), lt \oplus c)
      BY <3>1, LiftsSums
    <3>3. /\ Lifts6(Sub(Sub(lx, lt), Add(lx, c)), (lx \ominus lt) \ominus (lx \oplus c))
          /\ Lifts6(Neg(Add(lt, c)), (-1) \odot (lt \oplus c))
      BY <3>2, LiftsSums
    <3>4. (lx \ominus lt) \ominus (lx \oplus c) = (-1) \odot (lt \oplus c)
      BY ONLY <3>1 DEF Ints6, \oplus, \ominus, \odot
    <3> QED BY <3>3, <3>4, LiftsSame
  <2> QED BY <1>1, <2>1, <2>7, <2>8
<1> QED BY <1>4, <1>5

(* The line y = l.x + c of slope l through a point.                        *)
LEMMA LineThrough ==
  ASSUME NEW l \in Fp6, NEW x \in Fp6, NEW y \in Fp6
  PROVE  \E c \in Fp6 : /\ y = Add(MulFp6(l, x), c)
                        /\ \A x2, y2 \in Fp6 :
                             Sub(y2, y) = MulFp6(l, Sub(x2, x))
                               => y2 = Add(MulFp6(l, x2), c)
<1> DEFINE lx == MulFp6(l, x)
           c == Sub(y, lx)
<1>1. lx \in Fp6 /\ c \in Fp6
  BY Fp6Typed
<1> HIDE DEF lx
<1>2. y = Add(lx, c)
  BY <1>1, SumLaws
<1>3. ASSUME NEW x2 \in Fp6, NEW y2 \in Fp6, Sub(y2, y) = MulFp6(l, Sub(x2, x))
      PROVE  y2 = Add(MulFp6(l, x2), c)
  <2> DEFINE lz == MulFp6(l, x2)
  <2>1. lz \in Fp6 /\ Sub(y2, y) = Sub(lz, lx)
    BY <1>3, Fp6Typed, FieldLaws DEF lx
  <2> HIDE DEF lz
  <2>2. Add(Sub(y2, y), y) = y2
    BY SumLaws
  <2>3. Add(Sub(lz, lx), y) = Add(lz, c)
    <3>1. /\ Lifts6(lx, lx) /\ Lifts6(lz, lz) /\ Lifts6(y, y)
          /\ lx \in Ints6 /\ lz \in Ints6 /\ y \in Ints6
      BY <1>1, <2>1, LiftsOwn DEF Lifts6
    <3>2. Lifts6(Sub(lz, lx), lz \ominus lx) /\ Lifts6(c, y \ominus lx)
      BY <3>1, LiftsSums
    <3>3. /\ Lifts6(Add(Sub(lz, lx), y), (lz \ominus lx) \oplus y)
          /\ Lifts6(Add(lz, c), lz \oplus (y \ominus lx))
      BY <3>1, <3>2, LiftsSums
    <3>4. (lz \ominus lx) \oplus y = lz \oplus (y \ominus lx)
      BY ONLY <3>1 DEF Ints6, \oplus, \ominus
    <3> QED BY <3>3, <3>4, LiftsSame
  <2> QED BY <2>1, <2>2, <2>3 DEF lz
<1> HIDE DEF c
<1>4. \A x2, y2 \in Fp6 :
        Sub(y2, y) = MulFp6(l, Sub(x2, x)) => y2 = Add(MulFp6(l, x2), c)
  BY <1>3
<1> QED BY <1>1, <1>2, <1>4 DEF lx

LEMMA TangentMeets ==
  ASSUME NEW x \in Fp6, NEW y \in Fp6, y # Zero6, OnCurve([x |-> x, y |-> y])
  PROVE  \E l, c \in Fp6 :
           /\ Meets(l, c, x, y, x, y)
           /\ Add(Triple(Square(x)), One6) = MulFp6(l, Double(y))
           /\ Double(y) \in Fp6 \ {Zero6}
<1> DEFINE xx == MulFp6(x, x)
           y2 == Double(y)
           dy == Add(Triple(xx), One6)
<1>1. /\ xx \in Fp6 /\ One6 \in Fp6 /\ Square(x) = xx /\ y2 \in Fp6 \ {Zero6}
  BY ZeroTyped, Fp6Typed, MulFp6IsProduct, TwoAndThree DEF Square
<1> HIDE DEF xx
<1>2. dy \in Fp6
  BY <1>1, Fp6Typed DEF Triple
<1> HIDE DEF dy, y2
<1>3. PICK l \in Fp6 : MulFp6(l, y2) = dy
  BY <1>1, <1>2, MulDivides
<1>4. PICK c \in Fp6 : y = Add(MulFp6(l, x), c)
  BY LineThrough
<1>5. One6 = Add(Sub(MulFp6(l, Add(y, y)), MulFp6(Add(x, x), Add(x, x))), MulFp6(x, x))
  <2>1. MulFp6(l, Add(y, y)) = dy
    BY <1>3 DEF y2, Double
  <2>2. MulFp6(Add(x, x), Add(x, x)) = Double(Double(xx))
    <3>1. Add(x, x) = Double(x) /\ Double(x) \in Fp6
      BY Fp6Typed DEF Double
    <3>2. MulFp6(Double(x), Double(x)) = Double(MulFp6(Double(x), x))
      BY <3>1, FieldLaws
    <3>3. MulFp6(Double(x), x) = Double(xx)
      BY <3>1, FieldLaws DEF xx
    <3> QED BY <3>1, <3>2, <3>3
  <2>3. Add(Sub(dy, Double(Double(xx))), xx) = One6
    <3> DEFINE one == One6
    <3>1. Lifts6(xx, xx) /\ Lifts6(one, one) /\ xx \in Ints6 /\ one \in Ints6
      BY <1>1, LiftsOwn DEF Lifts6
    <3>2. Lifts6(Triple(xx), 3 \odot xx) /\ Lifts6(Double(xx), 2 \odot xx)
      BY <3>1, LiftsSums
    <3>3. Lifts6(dy, (3 \odot xx) \oplus one) /\ Lifts6(Double(Double(xx)), 2 \odot (2 \odot xx))
      BY <3>1, <3>2, LiftsSums DEF dy
    <3>4. Lifts6(Sub(dy, Double(Double(xx))), ((3 \odot xx) \oplus one) \ominus (2 \odot (2 \odot xx)))
      BY <3>3, LiftsSums
    <3>5. Lifts6(Add(Sub(dy, Double(Double(xx))), xx),
                 (((3 \odot xx) \oplus one) \ominus (2 \odot (2 \odot xx))) \oplus xx)
      BY <3>1, <3>4, LiftsSums
    <3> HIDE DEF one
    <3>6. (((3 \odot xx) \oplus one) \ominus (2 \odot (2 \odot xx))) \oplus xx = one
      BY ONLY <3>1 DEF Ints6, \oplus, \ominus, \odot
    <3> QED BY <3>1, <3>5, <3>6, LiftsSame DEF one
  <2> QED BY <2>1, <2>2, <2>3 DEF xx
<1>6. Meets(l, c, x, y, x, y)
  BY <1>4, <1>5 DEF Meets
<1>7. Add(Triple(Square(x)), One6) = MulFp6(l, Double(y))
  BY <1>1, <1>3 DEF dy, y2
<1> QED BY <1>1, <1>6, <1>7 DEF y2

(* Of the polynomials, (b - a)((a + b)^2 - ab) = b^3 - a^3.                *)
LEMMA CubesDiffer ==
  ASSUME NEW a \in Ints6, NEW b \in Ints6
  PROVE  (((b \ominus a) \otimes ((a \oplus b) \otimes (a \oplus b)))
            \ominus ((b \ominus a) \otimes (a \otimes b)))
           = ((b \otimes b) \otimes b) \ominus ((a \otimes a) \otimes a)
<1> DEFINE d == b \ominus a  s == a \oplus b
           aa == a \otimes a  ab == a \otimes b  bb == b \otimes b
           aaa == a \otimes aa  aab == a \otimes ab  abb == a \otimes bb  bbb == b \otimes bb
           ss == s \otimes s
<1>1. /\ d \in Ints6 /\ s \in Ints6 /\ aa \in Ints6 /\ ab \in Ints6 /\ bb \in Ints6
  BY SixTyped
<1>2. /\ aaa \in Ints6 /\ aab \in Ints6 /\ abb \in Ints6 /\ bbb \in Ints6
  BY <1>1, SixTyped
<1>3. b \otimes aa = aab /\ b \otimes ab = abb
  <2>1. b \otimes (a \otimes a) = a \otimes (b \otimes a) /\ b \otimes a = ab
    BY TimesSwaps, TimesCommutes
  <2>2. b \otimes (a \otimes b) = a \otimes (b \otimes b)
    BY TimesSwaps
  <2> QED BY <2>1, <2>2
<1>4. aa \otimes a = aaa /\ bb \otimes b = bbb
  BY <1>1, TimesCommutes
<1>5. ss = (aa \oplus ab) \oplus (ab \oplus bb)
  <2>1. a \otimes s = aa \oplus ab
    BY TimesOver
  <2>2. b \otimes s = ab \oplus bb
    <3>1. b \otimes a = ab
      BY TimesCommutes
    <3> QED BY <3>1, TimesOver
  <2>3. s \otimes a = a \otimes s /\ s \otimes b = b \otimes s
    BY <1>1, TimesCommutes
  <2> HIDE DEF aa, ab, bb
  <2>4. s \otimes s = (s \otimes a) \oplus (s \otimes b)
    <3>1. \A z \in Ints6 : z \otimes (a \oplus b) = (z \otimes a) \oplus (z \otimes b)
      BY TimesOver
    <3> HIDE DEF s
    <3>2. s \otimes (a \oplus b) = (s \otimes a) \oplus (s \otimes b)
      BY <1>1, <3>1
    <3> QED BY <3>2 DEF s
  <2> QED BY <2>1, <2>2, <2>3, <2>4
<1> HIDE DEF d, s, aa, ab, bb, aaa, aab, abb, bbb, ss
<1>6. \A z \in Ints6 : d \otimes z = (b \otimes z) \ominus (a \otimes z)
  <2> TAKE z \in Ints6
  <2>1. z \otimes (b \ominus a) = (z \otimes b) \ominus (z \otimes a)
    BY TimesOver
  <2>2. z \otimes d = d \otimes z /\ z \otimes b = b \otimes z /\ z \otimes a = a \otimes z
    BY <1>1, TimesCommutes
  <2> QED BY <2>1, <2>2 DEF d
<1>7. /\ d \otimes aa = aab \ominus aaa /\ d \otimes ab = abb \ominus aab
      /\ d \otimes bb = bbb \ominus abb
  BY <1>1, <1>3, <1>6 DEF aaa, aab, abb, bbb
<1>8. d \otimes ss = ((d \otimes aa) \oplus (d \otimes ab)) \oplus ((d \otimes ab) \oplus (d \otimes bb))
  <2> DEFINE u == aa \oplus ab
             v == ab \oplus bb
  <2>1. u \in Ints6 /\ v \in Ints6
    BY <1>1, SixTyped
  <2>2. d \otimes u = (d \otimes aa) \oplus (d \otimes ab)
    BY <1>1, TimesOver
  <2>3. d \otimes v = (d \otimes ab) \oplus (d \otimes bb)
    BY <1>1, TimesOver
  <2> HIDE DEF u, v
  <2>4. d \otimes (u \oplus v) = (d \otimes u) \oplus (d \otimes v)
    BY <1>1, <2>1, TimesOver
  <2> QED BY <1>5, <2>2, <2>3, <2>4 DEF u, v
<1>9. (((aab \ominus aaa) \oplus (abb \ominus aab)) \oplus ((abb \ominus aab) \oplus (bbb \ominus abb)))
        \ominus (abb \ominus aab) = bbb \ominus aaa
  BY ONLY <1>2 DEF Ints6, \oplus, \ominus
<1>10. (d \otimes ss) \ominus (d \otimes ab) = bbb \ominus aaa
  BY <1>7, <1>8, <1>9
<1>11. (bb \otimes b) \ominus (aa \otimes a) = bbb \ominus aaa
  BY <1>4
<1> QED BY <1>10, <1>11 DEF d, s, ss, aa, ab, bb

LEMMA ChordMeets ==
  ASSUME NEW x \in Fp6, NEW y \in Fp6, OnCurve([x |-> x, y |-> y]),
         NEW x2 \in Fp6, NEW y2 \in Fp6, OnCurve([x |-> x2, y |-> y2]), x2 # x
  PROVE  \E l, c \in Fp6 :
           /\ Meets(l, c, x, y, x2, y2)
           /\ Sub(y2, y) = MulFp6(l, Sub(x2, x))
           /\ Sub(x2, x) \in Fp6 \ {Zero6} /\ Sub(x, x2) \in Fp6 \ {Zero6}
<1> DEFINE d == Sub(x2, x)
           e == Sub(y2, y)
           s == Add(x, x2)
           f == Add(y, y2)
           m == MulFp6(x, x2)
           ss == MulFp6(s, s)
           u == MulFp6(MulFp6(x, x), x)
           u2 == MulFp6(MulFp6(x2, x2), x2)
           v == MulFp6(y, y)
           v2 == MulFp6(y2, y2)
<1>1. /\ d \in Fp6 /\ e \in Fp6 /\ s \in Fp6 /\ f \in Fp6 /\ m \in Fp6 /\ v \in Fp6 /\ v2 \in Fp6
      /\ MulFp6(x, x) \in Fp6 /\ MulFp6(x2, x2) \in Fp6 /\ Zero6 \in Fp6 /\ One6 \in Fp6
      /\ B3 \in Fp6
  BY Fp6Typed, ZeroTyped, CurveAssumption
<1>2. ss \in Fp6 /\ u \in Fp6 /\ u2 \in Fp6
  BY <1>1, Fp6Typed
<1>3. d # Zero6 /\ Sub(x, x2) \in Fp6 \ {Zero6}
  <2>1. Sub(x, x2) \in Fp6
    BY Fp6Typed
  <2> QED BY <2>1, SumLaws
<1>4. PICK l \in Fp6 : MulFp6(l, d) = e
  BY <1>1, <1>3, MulDivides
<1>5. PICK c \in Fp6 : y = Add(MulFp6(l, x), c) /\ y2 = Add(MulFp6(l, x2), c)
  <2>1. PICK c \in Fp6 :
          /\ y = Add(MulFp6(l, x), c)
          /\ \A a, b \in Fp6 : Sub(b, y) = MulFp6(l, Sub(a, x)) => b = Add(MulFp6(l, a), c)
    BY LineThrough
  <2>2. Sub(y2, y) = MulFp6(l, Sub(x2, x))
    BY <1>4
  <2>3. y2 = Add(MulFp6(l, x2), c)
    BY <2>1, <2>2
  <2> QED BY <2>1, <2>3
<1> DEFINE lf == MulFp6(l, f)
           w == Sub(lf, ss)
           one == Add(w, m)
<1>6. lf \in Fp6 /\ w \in Fp6 /\ one \in Fp6
  <2>1. lf \in Fp6
    BY <1>1, Fp6Typed
  <2>2. w \in Fp6
    BY <1>2, <2>1, Fp6Typed
  <2> QED BY <1>1, <2>1, <2>2, Fp6Typed
<1>7. MulFp6(d, one) = Add(Sub(MulFp6(e, f), MulFp6(d, ss)), MulFp6(d, m))
  <2>1. MulFp6(d, lf) = MulFp6(e, f)
    <3>1. MulFp6(MulFp6(d, l), f) = MulFp6(d, lf) /\ MulFp6(d, l) = MulFp6(l, d)
      BY <1>1, MulAssociates, FieldLaws
    <3> QED BY <1>4, <3>1
  <2> HIDE DEF d, e, f, m, ss, lf
  <2>2. MulFp6(d, w) = Sub(MulFp6(d, lf), MulFp6(d, ss))
    BY <1>1, <1>2, <1>6, FieldLaws
  <2> HIDE DEF w
  <2>3. MulFp6(d, one) = Add(MulFp6(d, w), MulFp6(d, m))
    BY <1>1, <1>6, FieldLaws
  <2> QED BY <2>1, <2>2, <2>3
<1>8. MulFp6(d, one) = Sub(Sub(v2, v), Sub(u2, u))
  <2>1. /\ Lifts6(x, x) /\ Lifts6(x2, x2) /\ Lifts6(y, y) /\ Lifts6(y2, y2)
        /\ x \in Ints6 /\ x2 \in Ints6 /\ y \in Ints6 /\ y2 \in Ints6
    BY LiftsOwn DEF Lifts6
  <2> DEFINE D == x2 \ominus x
             S == x \oplus x2
             E == y2 \ominus y
             F == y \oplus y2
             M == x \otimes x2
             U == (x \otimes x) \otimes x
             U2 == (x2 \otimes x2) \otimes x2
             V == y \otimes y
             V2 == y2 \otimes y2
  <2>2. Lifts6(d, D) /\ Lifts6(s, S) /\ Lifts6(e, E) /\ Lifts6(f, F)
    BY <2>1, LiftsSums
  <2>3. Lifts6(m, M) /\ Lifts6(v, V) /\ Lifts6(v2, V2) /\ Lifts6(ss, S \otimes S)
    BY <2>1, <2>2, LiftsTimes
  <2>4. Lifts6(u, U) /\ Lifts6(u2, U2)
    <3>1. Lifts6(MulFp6(x, x), x \otimes x) /\ Lifts6(MulFp6(x2, x2), x2 \otimes x2)
      BY <2>1, LiftsTimes
    <3> QED BY <2>1, <3>1, LiftsTimes
  <2>5. E \otimes F = V2 \ominus V
    <3> DEFINE YZ == y \otimes y2
    <3>1. E \in Ints6 /\ F \in Ints6 /\ V \in Ints6 /\ V2 \in Ints6 /\ YZ \in Ints6
      BY <2>1, SixTyped
    <3>2. F \otimes y2 = YZ \oplus V2
      <4>1. y2 \otimes F = (y2 \otimes y) \oplus V2 /\ y2 \otimes y = YZ
        BY <2>1, TimesOver, TimesCommutes
      <4>2. F \otimes y2 = y2 \otimes F
        BY <2>1, <3>1, TimesCommutes
      <4> QED BY <4>1, <4>2
    <3>3. F \otimes y = V \oplus YZ
      <4>1. y \otimes F = V \oplus YZ
        BY <2>1, TimesOver
      <4>2. F \otimes y = y \otimes F
        BY <2>1, <3>1, TimesCommutes
      <4> QED BY <4>1, <4>2
    <3>4. F \otimes E = (F \otimes y2) \ominus (F \otimes y)
      <4> HIDE DEF F
      <4> QED BY <2>1, <3>1, TimesOver
    <3>5. E \otimes F = F \otimes E
      BY <3>1, TimesCommutes
    <3> HIDE DEF V, V2, YZ, E, F
    <3>6. (YZ \oplus V2) \ominus (V \oplus YZ) = V2 \ominus V
      BY ONLY <3>1 DEF Ints6, \oplus, \ominus
    <3> QED BY <3>2, <3>3, <3>4, <3>5, <3>6
  <2>6. (D \otimes (S \otimes S)) \ominus (D \otimes M) = U2 \ominus U
    BY <2>1, CubesDiffer
  <2> HIDE DEF D, S, E, F, M, U, U2, V, V2, d, e, s, f, m, ss, u, u2, v, v2
  <2>7. /\ Lifts6(MulFp6(e, f), E \otimes F) /\ Lifts6(MulFp6(d, ss), D \otimes (S \otimes S))
        /\ Lifts6(MulFp6(d, m), D \otimes M)
    BY <2>2, <2>3, LiftsTimes
  <2> DEFINE DSS == D \otimes (S \otimes S)
             DM == D \otimes M
             EF == E \otimes F
  <2>8. Lifts6(Sub(MulFp6(e, f), MulFp6(d, ss)), EF \ominus DSS)
    BY <2>7, LiftsSums
  <2>9. Lifts6(Add(Sub(MulFp6(e, f), MulFp6(d, ss)), MulFp6(d, m)), (EF \ominus DSS) \oplus DM)
    BY <2>7, <2>8, LiftsSums
  <2>10. /\ Lifts6(Sub(v2, v), V2 \ominus V) /\ Lifts6(Sub(u2, u), U2 \ominus U)
    BY <2>3, <2>4, LiftsSums
  <2>11. Lifts6(Sub(Sub(v2, v), Sub(u2, u)), EF \ominus (DSS \ominus DM))
    BY <2>5, <2>6, <2>10, LiftsSums
  <2>12. EF \in Ints6 /\ DSS \in Ints6 /\ DM \in Ints6
    BY <2>7 DEF Lifts6
  <2> HIDE DEF EF, DSS, DM
  <2>13. (EF \ominus DSS) \oplus DM = EF \ominus (DSS \ominus DM)
    BY ONLY <2>12 DEF Ints6, \oplus, \ominus
  <2> QED BY <1>7, <2>9, <2>11, <2>13, LiftsSame
<1>9. Triple(v) = Add(Triple(Add(u, x)), B3) /\ Triple(v2) = Add(Triple(Add(u2, x2)), B3)
  <2>1. \A a, b \in Fp6 : Product(a, b) = MulFp6(a, b) /\ Square(a) = MulFp6(a, a)
    BY MulFp6IsProduct DEF Square
  <2>2. /\ Product(Square(x), x) = u /\ Square(y) = v
        /\ Product(Square(x2), x2) = u2 /\ Square(y2) = v2
    BY <1>1, <2>1
  <2> HIDE DEF u, u2, v, v2
  <2> QED BY <2>2 DEF OnCurve
<1>10. Triple(Sub(Sub(v2, v), Sub(u2, u))) = Triple(d)
  <2> DEFINE b == B3
             r == Triple(Add(u, x))
             r2 == Triple(Add(u2, x2))
             R == 3 \odot (u \oplus x)
             R2 == 3 \odot (u2 \oplus x2)
  <2> HIDE DEF u, u2, v, v2
  <2>1. /\ Lifts6(u, u) /\ Lifts6(u2, u2) /\ Lifts6(v, v) /\ Lifts6(v2, v2) /\ Lifts6(x, x)
        /\ Lifts6(x2, x2) /\ Lifts6(b, b)
    BY <1>1, <1>2, LiftsOwn
  <2>2. /\ u \in Ints6 /\ u2 \in Ints6 /\ v \in Ints6 /\ v2 \in Ints6 /\ x \in Ints6
        /\ x2 \in Ints6 /\ b \in Ints6
    BY <2>1 DEF Lifts6
  <2> HIDE DEF b
  <2>3. Lifts6(Add(u, x), u \oplus x) /\ Lifts6(Add(u2, x2), u2 \oplus x2)
    BY <2>1, LiftsSums
  <2>4. Lifts6(r, R) /\ Lifts6(r2, R2) /\ Lifts6(Triple(v), 3 \odot v) /\ Lifts6(Triple(v2), 3 \odot v2)
    BY <2>1, <2>3, LiftsSums
  <2> HIDE DEF r, r2
  <2>5. Lifts6(Triple(v), R \oplus b) /\ Lifts6(Triple(v2), R2 \oplus b)
    BY <1>9, <2>1, <2>4, LiftsSums DEF b, r, r2
  <2> DEFINE tv == Triple(v)
             tv2 == Triple(v2)
             A == (3 \odot v2) \ominus (3 \odot v)
             C == (R2 \oplus b) \ominus (R \oplus b)
             du == Triple(Sub(u2, u))
             DU == 3 \odot (u2 \ominus u)
  <2>6. Lifts6(Sub(tv2, tv), A) /\ Lifts6(Sub(tv2, tv), C)
    BY <2>4, <2>5, LiftsSums
  <2>7. Lifts6(Sub(u2, u), u2 \ominus u) /\ Lifts6(Sub(v2, v), v2 \ominus v) /\ Lifts6(d, x2 \ominus x)
    BY <2>1, LiftsSums
  <2>8. Lifts6(du, DU) /\ Lifts6(Triple(d), 3 \odot (x2 \ominus x))
    BY <2>7, LiftsSums
  <2> HIDE DEF tv, tv2, A, C, du, DU
  <2>9. Lifts6(Sub(Sub(tv2, tv), du), A \ominus DU) /\ Lifts6(Sub(Sub(tv2, tv), du), C \ominus DU)
    BY <2>6, <2>8, LiftsSums
  <2>10. Lifts6(Sub(Sub(v2, v), Sub(u2, u)), (v2 \ominus v) \ominus (u2 \ominus u))
    BY <2>7, LiftsSums
  <2>11. Lifts6(Triple(Sub(Sub(v2, v), Sub(u2, u))), 3 \odot ((v2 \ominus v) \ominus (u2 \ominus u)))
    BY <2>10, LiftsSums
  <2>12. A \ominus DU = 3 \odot ((v2 \ominus v) \ominus (u2 \ominus u))
    BY ONLY <2>2 DEF Ints6, \oplus, \ominus, \odot, A, DU
  <2>13. C \ominus DU = 3 \odot (x2 \ominus x)
    BY ONLY <2>2 DEF Ints6, \oplus, \ominus, \odot, C, DU, R, R2
  <2>14. Triple(Sub(Sub(v2, v), Sub(u2, u))) = Sub(Sub(tv2, tv), du)
    BY <2>9, <2>11, <2>12, LiftsSame
  <2>15. Triple(d) = Sub(Sub(tv2, tv), du)
    BY <2>8, <2>9, <2>13, LiftsSame
  <2> QED BY <2>14, <2>15
<1> HIDE DEF d, one
<1>11. MulFp6(d, one) = d
  <2>1. MulFp6(d, one) \in Fp6
    BY <1>1, <1>6, Fp6Typed
  <2> QED BY <1>1, <1>8, <1>10, <2>1, TwoAndThree
<1>12. one = One6
  <2>1. MulFp6(d, one) = MulFp6(one, d) /\ MulFp6(One6, d) = MulFp6(d, One6) /\ MulFp6(d, One6) = d
    BY <1>1, <1>6, FieldLaws, MulUnits
  <2>2. MulFp6(one, d) = MulFp6(One6, d) /\ d \in Fp6 \ {Zero6}
    BY <1>1, <1>3, <1>11, <2>1
  <2>3. one \in Fp6 /\ One6 \in Fp6
    BY <1>1, <1>6
  <2> HIDE DEF one
  <2> QED BY ONLY <2>2, <2>3, MulCancels
<1>13. Meets(l, c, x, y, x2, y2)
  BY <1>5, <1>12 DEF Meets, one
<1> QED BY <1>1, <1>3, <1>4, <1>13 DEF d

(* On the curve the double of an affine point is its sum with itself, and  *)
(* the z of both is 8 y^3.                                                 *)
LEMMA AffineDoubles ==
  ASSUME NEW x \in Fp6, NEW y \in Fp6, y # Zero6, OnCurve([x |-> x, y |-> y]),
         NEW p, p = [x |-> x, y |-> y, z |-> One6]
  PROVE  ComputeDouble(p) = ComputeAdd(p, p) /\ ComputeDouble(p).z \in Fp6 \ {Zero6}
<1> DEFINE xx == MulFp6(x, x)  yy == MulFp6(y, y)  xy == MulFp6(x, y)
           xxx == MulFp6(xx, x)
           y2 == Double(y)  x2 == Add(x, x)
           s == Add(B3, x2)
           u == Add(Triple(xx), One6)
           e == Add(yy, s)
           xu == Add(Triple(xxx), x)
           q == MulFp6(y2, yy)
           z == Double(Double(q))
<1>1. /\ xx \in Fp6 /\ yy \in Fp6 /\ xy \in Fp6 /\ y2 \in Fp6 /\ x2 \in Fp6 /\ B3 \in Fp6
      /\ One6 \in Fp6 /\ Zero6 \in Fp6
  BY Fp6Typed, ZeroTyped, CurveAssumption
<1>2. xxx \in Fp6 /\ q \in Fp6 /\ s \in Fp6 /\ Triple(xx) \in Fp6 /\ Double(xy) \in Fp6
  BY <1>1, Fp6Typed DEF Triple
<1>3. u \in Fp6 /\ e \in Fp6 /\ Triple(xxx) \in Fp6 /\ Double(q) \in Fp6 /\ Triple(yy) \in Fp6
  BY <1>1, <1>2, Fp6Typed DEF Triple
<1>4. xu \in Fp6
  BY <1>3, Fp6Typed
<1>5. p \in Projective /\ p.x = x /\ p.y = y /\ p.z = One6
  BY <1>1, PointTyped
<1>6. y2 # Zero6 /\ z \in Fp6 \ {Zero6}
  <2>1. y2 # Zero6 /\ yy # Zero6
    BY MulNotZero, TwoAndThree
  <2>2. q # Zero6
    BY <1>1, <2>1, MulNotZero
  <2> HIDE DEF q
  <2>3. Double(q) # Zero6
    BY <1>2, <2>2, TwoAndThree
  <2>4. Double(Double(q)) # Zero6
    BY <1>3, <2>3, TwoAndThree
  <2> QED BY <1>3, <2>1, <2>4, Fp6Typed
<1>7. ComputeDouble(p).z = z
  <2>1. MulFp6(y, One6) = y
    BY MulUnits
  <2> QED BY <1>5, <2>1, DoubleIsSum
<1>8. ComputeAdd(p, p).z = Add(MulFp6(y2, e), MulFp6(Double(xy), u))
  <2>1. ComputeAdd(p, p) = SumOfProducts(xx, yy, One6, Add(xy, MulFp6(y, x)), x2, Add(y, y))
    BY AddOfAffine
  <2>2. MulFp6(y, x) = xy /\ MulFp6(B3, One6) = B3
    BY <1>1, FieldLaws, MulUnits
  <2>3. Add(xy, MulFp6(y, x)) = Double(xy) /\ Add(y, y) = y2
    BY <2>2 DEF Double
  <2>4. ComputeAdd(p, p) = SumOfProducts(xx, yy, One6, Double(xy), x2, y2)
    BY <2>1, <2>3
  <2> HIDE DEF xx, yy, xy, x2, y2
  <2>5. SumOfProducts(xx, yy, One6, Double(xy), x2, y2).z
          = Add(MulFp6(y2, Add(yy, Add(MulFp6(B3, One6), x2))),
                MulFp6(Double(xy), Add(Add(Double(xx), xx), One6)))
    BY DEF SumOfProducts
  <2>6. Add(Add(Double(xx), xx), One6) = u
    BY DEF Triple
  <2> QED BY <2>2, <2>4, <2>5, <2>6
<1>9. MulFp6(Double(xy), u) = MulFp6(y2, xu)
  <2>1. MulFp6(Double(xy), u) = Double(MulFp6(u, xy))
    BY <1>1, <1>2, <1>3, FieldLaws
  <2>2. MulFp6(u, xy) = MulFp6(xu, y)
    <3>1. MulFp6(u, xy) = MulFp6(MulFp6(u, x), y)
      BY <1>3, MulAssociates
    <3>2. MulFp6(u, x) = xu
      <4>1. MulFp6(u, x) = MulFp6(x, u)
        BY <1>3, FieldLaws
      <4>2. MulFp6(x, u) = Add(MulFp6(x, Triple(xx)), MulFp6(x, One6))
        <5> HIDE DEF xx
        <5> QED BY <1>1, <1>2, FieldLaws
      <4>3. MulFp6(x, Triple(xx)) = Triple(MulFp6(x, xx))
        BY <1>1, FieldLaws
      <4>4. MulFp6(x, xx) = xxx /\ MulFp6(x, One6) = x
        BY <1>1, FieldLaws, MulUnits
      <4> QED BY <4>1, <4>2, <4>3, <4>4
    <3> QED BY <3>1, <3>2
  <2> HIDE DEF xu
  <2>3. Double(MulFp6(xu, y)) = MulFp6(xu, y2) /\ MulFp6(xu, y2) = MulFp6(y2, xu)
    BY <1>1, <1>4, FieldLaws
  <2> QED BY <2>1, <2>2, <2>3
<1>10. Triple(yy) = Add(Triple(Add(xxx, x)), B3)
  <2>1. \A a, b \in Fp6 : Product(a, b) = MulFp6(a, b) /\ Square(a) = MulFp6(a, a)
    BY MulFp6IsProduct DEF Square
  <2>2. Product(Square(x), x) = xxx /\ Square(y) = yy
    BY <1>1, <2>1
  <2> HIDE DEF xxx, yy
  <2> QED BY <2>2 DEF OnCurve
<1>11. Add(e, xu) = Double(Double(yy))
  <2> DEFINE b == B3
  <2> HIDE DEF xx, yy, xxx, b
  <2>1. /\ Lifts6(b, b) /\ Lifts6(x, x) /\ Lifts6(yy, yy) /\ Lifts6(xxx, xxx)
    BY <1>1, <1>2, LiftsOwn DEF b
  <2>2. b \in Ints6 /\ x \in Ints6 /\ yy \in Ints6 /\ xxx \in Ints6
    BY <2>1 DEF Lifts6
  <2>3. /\ Lifts6(x2, x \oplus x) /\ Lifts6(Triple(xxx), 3 \odot xxx)
        /\ Lifts6(Add(xxx, x), xxx \oplus x) /\ Lifts6(Double(yy), 2 \odot yy)
        /\ Lifts6(Triple(yy), 3 \odot yy)
    BY <2>1, LiftsSums
  <2>4. Lifts6(xu, (3 \odot xxx) \oplus x) /\ Lifts6(s, b \oplus (x \oplus x))
    BY <2>1, <2>3, LiftsSums DEF b
  <2>5. Lifts6(e, yy \oplus (b \oplus (x \oplus x)))
    BY <2>1, <2>4, LiftsSums
  <2> DEFINE W == (3 \odot (xxx \oplus x)) \oplus b
             E == yy \oplus (b \oplus (x \oplus x))
             XU == (3 \odot xxx) \oplus x
  <2>6. Lifts6(Triple(Add(xxx, x)), 3 \odot (xxx \oplus x))
    BY <2>3, LiftsSums
  <2>7. Lifts6(Triple(yy), W)
    BY <1>10, <2>1, <2>6, LiftsSums DEF b
  <2> DEFINE ty == Triple(yy)
             dy == Double(yy)
  <2> HIDE DEF W, e, xu, ty, dy, E, XU
  <2>8. Lifts6(Add(yy, ty), yy \oplus W) /\ Lifts6(Add(yy, ty), yy \oplus (3 \odot yy))
    BY <2>1, <2>3, <2>7, LiftsSums DEF ty
  <2>9. Lifts6(Add(e, xu), E \oplus XU) /\ Lifts6(Double(dy), 2 \odot (2 \odot yy))
    BY <2>3, <2>4, <2>5, LiftsSums DEF E, XU, dy
  <2>10. E \oplus XU = yy \oplus W
    BY ONLY <2>2 DEF Ints6, \oplus, \ominus, \odot, E, XU, W
  <2>11. yy \oplus (3 \odot yy) = 2 \odot (2 \odot yy)
    BY ONLY <2>2 DEF Ints6, \oplus, \odot
  <2>12. Add(e, xu) = Add(yy, ty) /\ Double(dy) = Add(yy, ty)
    BY <2>8, <2>9, <2>10, <2>11, LiftsSame
  <2> QED BY <2>12 DEF dy
<1>12. ComputeAdd(p, p).z = z
  <2> HIDE DEF e, xu, y2, yy, u, xy
  <2>1. MulFp6(y2, Add(e, xu)) = Add(MulFp6(y2, e), MulFp6(y2, xu))
    BY <1>1, <1>3, <1>4, FieldLaws
  <2>2. Double(yy) \in Fp6
    BY <1>1, Fp6Typed
  <2>3. /\ MulFp6(y2, Double(Double(yy))) = Double(MulFp6(y2, Double(yy)))
        /\ MulFp6(y2, Double(yy)) = Double(q)
    BY <1>1, <2>2, FieldLaws
  <2> QED BY <1>8, <1>9, <1>11, <2>1, <2>3
<1>13. ComputeDouble(p) = ComputeAdd(p, p)
  <2> DEFINE a == ComputeAdd(p, p)
             d == ComputeDouble(p)
  <2>1. a \in Projective /\ d \in Projective
    BY <1>5, SumsTyped, DoubleTyped
  <2>2. d.x = a.x /\ d.y = a.y /\ d.z = a.z
    BY <1>5, <1>7, <1>12, DoubleIsSum
  <2> HIDE DEF a, d
  <2>3. d = a
    BY <2>1, <2>2 DEF Projective
  <2> QED BY <2>3 DEF a, d
<1> QED BY <1>6, <1>7, <1>13

(* The multiples of G, of a residue but zero.                              *)
LEMMA MultipleTyped ==
  ASSUME NEW k \in 1 .. (Q - 1)
  PROVE  /\ k \in Nat /\ k % Q = k /\ k # 0 /\ Q - k \in 1 .. (Q - 1)
         /\ Multiples[k] \in Affine /\ Multiples[k].x \in Fp6 /\ Multiples[k].y \in Fp6
         /\ Multiples[k].y # Zero6
         /\ OnCurve([x |-> Multiples[k].x, y |-> Multiples[k].y])
         /\ Point(k) = [x |-> Multiples[k].x, y |-> Multiples[k].y, z |-> One6]
         /\ Multiples[Q - k].x = Multiples[k].x
         /\ Multiples[Q - k].y = Neg(Multiples[k].y)
<1> DEFINE M == Multiples[k]
<1>1. /\ Q \in Nat /\ Q > 3 /\ M \in Affine /\ OnCurve(M) /\ M.y # Zero6
      /\ Multiples[Q - k] = Opposite(M)
  BY GroupAssumption
<1>2. k \in Nat /\ k % Q = k /\ k # 0 /\ Q - k \in 1 .. (Q - 1)
  BY <1>1
<1>3. M.x \in Fp6 /\ M.y \in Fp6 /\ M = [x |-> M.x, y |-> M.y]
  BY <1>1 DEF Affine
<1>4. Opposite(M).x = M.x /\ Opposite(M).y = Neg(M.y)
  BY <1>1 DEF Opposite, Affine
<1>5. Point(k) = [x |-> M.x, y |-> M.y, z |-> One6]
  BY <1>2 DEF Point
<1> QED BY <1>1, <1>2, <1>3, <1>4, <1>5

LEMMA TangentAdds ==
  ASSUME NEW k \in 1 .. (Q - 1)
  PROVE  /\ ComputeDouble(Point(k)) = ComputeAdd(Point(k), Point(k))
         /\ (2 * k) % Q \in 1 .. (Q - 1)
         /\ \E g \in Fp6 \ {Zero6} : ComputeDouble(Point(k)) = Scale(g, Point(2 * k))
<1> DEFINE x == Multiples[k].x
           y == Multiples[k].y
           n == (2 * k) % Q
           r == Multiples[n]
           p == Point(k)
           a == ComputeAdd(p, p)
<1>1. /\ k \in Nat /\ x \in Fp6 /\ y \in Fp6 /\ y # Zero6 /\ OnCurve([x |-> x, y |-> y])
      /\ p = [x |-> x, y |-> y, z |-> One6]
  BY MultipleTyped
<1>2. n \in 1 .. (Q - 1)
  <2>1. Q \in Nat /\ Q > 3 /\ Q % 2 = 1
    BY GroupAssumption
  <2>2. n # 0
    <3>1. ASSUME 2 * k = Q PROVE FALSE
      <4>1. (2 * k) % 2 = 0
        BY <1>1
      <4> QED BY <2>1, <3>1, <4>1
    <3>2. 2 * k < Q => n = 2 * k
      BY <1>1, <2>1
    <3>3. 2 * k > Q => n = 2 * k - Q
      <4>1. 2 * k < 2 * Q
        BY <2>1
      <4>2. ASSUME 2 * k > Q PROVE (2 * k) % Q = 2 * k - Q
        <5> DEFINE v == 2 * k - Q
        <5>1. v \in 0 .. (Q - 1) /\ 2 * k = Q * 1 + v /\ v \in Int
          BY <1>1, <2>1, <4>1, <4>2
        <5> HIDE DEF v
        <5> QED BY <2>1, <5>1 DEF v
      <4> QED BY <4>2
    <3> QED BY <1>1, <2>1, <3>1, <3>2, <3>3
  <2> QED BY <1>1, <2>1, <2>2
<1>3. r \in Affine /\ r.x \in Fp6 /\ r.y \in Fp6 /\ Point(2 * k) = [x |-> r.x, y |-> r.y, z |-> One6]
  <2>1. r \in Affine /\ r.x \in Fp6 /\ r.y \in Fp6
    BY <1>2, MultipleTyped
  <2>2. n # 0
    BY <1>2
  <2> QED BY <2>1, <2>2 DEF Point
<1>4. OnLine(Multiples[k], Multiples[k], r, Double(y), Add(Triple(Square(x)), One6))
  BY GroupAssumption
<1>5. ComputeDouble(p) = a /\ a.z \in Fp6 \ {Zero6}
  <2> HIDE DEF p, x, y
  <2> QED BY <1>1, AffineDoubles
<1>6. PICK l \in Fp6, c \in Fp6 :
        /\ Meets(l, c, x, y, x, y) /\ Add(Triple(Square(x)), One6) = MulFp6(l, Double(y))
        /\ Double(y) \in Fp6 \ {Zero6}
  <2> HIDE DEF x, y
  <2> QED BY <1>1, TangentMeets
<1> DEFINE t == Sub(MulFp6(l, l), Add(x, x))
<1>7. r.x = t /\ r.y = Neg(Add(MulFp6(l, t), c))
  <2> DEFINE M == Multiples[k]
             dx == Double(y)
             dy == Add(Triple(Square(x)), One6)
  <2>1. M.x = x /\ M.y = y /\ dy = MulFp6(l, dx) /\ dx \in Fp6 \ {Zero6}
        /\ OnLine(M, M, r, dx, dy)
    BY <1>4, <1>6
  <2> HIDE DEF M, dx, dy, x, y, r
  <2> QED BY <1>3, <1>6, <2>1, ThirdOfLine
<1>8. a.x = MulFp6(t, a.z) /\ a.y = MulFp6(Neg(Add(MulFp6(l, t), c)), a.z)
  <2>1. a = SumOfProducts(MulFp6(x, x), MulFp6(y, y), One6,
                          Add(MulFp6(x, y), MulFp6(y, x)), Add(x, x), Add(y, y))
    <3> HIDE DEF x, y, p
    <3> QED BY <1>1, AddOfAffine
  <2> HIDE DEF a, x, y
  <2> QED BY <1>6, <2>1, SumOnLine
<1>9. a = Scale(a.z, Point(2 * k))
  <2>1. a \in Projective
    BY <1>1, ZeroTyped, PointTyped, SumsTyped
  <2> DEFINE g == a.z
  <2>2. g \in Fp6 /\ a.x = MulFp6(r.x, g) /\ a.y = MulFp6(r.y, g)
    BY <1>5, <1>7, <1>8
  <2> HIDE DEF a, r
  <2>3. a = [x |-> a.x, y |-> a.y, z |-> g]
    BY <2>1 DEF Projective
  <2> HIDE DEF g
  <2>4. MulFp6(g, One6) = g /\ MulFp6(r.x, g) = MulFp6(g, r.x) /\ MulFp6(r.y, g) = MulFp6(g, r.y)
    BY <1>3, <2>2, FieldLaws, MulUnits
  <2>5. a = Scale(g, Point(2 * k))
    BY <1>3, <2>2, <2>3, <2>4 DEF Scale
  <2> QED BY <2>5 DEF g
<1> HIDE DEF a, p
<1> QED BY <1>2, <1>5, <1>9 DEF p, a

(* The chord of two multiples that are neither equal nor opposite.         *)
LEMMA ChordOfMultiples ==
  ASSUME NEW k \in 1 .. (Q - 1), NEW m \in 1 .. (Q - 1), m # k, m # Q - k
  PROVE  LET x == Multiples[k].x  y == Multiples[k].y
             x2 == Multiples[m].x  y2 == Multiples[m].y
             r == Multiples[(k + m) % Q]
         IN /\ (k + m) % Q \in 1 .. (Q - 1)
            /\ \E l, c \in Fp6 :
                 LET t == Sub(MulFp6(l, l), Add(x, x2))
                 IN /\ Meets(l, c, x, y, x2, y2)
                    /\ Sub(x, x2) \in Fp6 \ {Zero6}
                    /\ r.x = t /\ r.y = Neg(Add(MulFp6(l, t), c))
<1> DEFINE M == Multiples[k]  M2 == Multiples[m]
           x == M.x  y == M.y  x2 == M2.x  y2 == M2.y
           n == (k + m) % Q
           r == Multiples[n]
           dx == Sub(x2, x)
           dy == Sub(y2, y)
<1>1. /\ x \in Fp6 /\ y \in Fp6 /\ OnCurve([x |-> x, y |-> y]) /\ k \in Nat
      /\ x2 \in Fp6 /\ y2 \in Fp6 /\ OnCurve([x |-> x2, y |-> y2]) /\ m \in Nat
  BY MultipleTyped
<1>2. n \in 1 .. (Q - 1)
  <2>1. Q \in Nat /\ Q > 3
    BY GroupAssumption
  <2>2. k + m < Q => n = k + m
    BY <1>1, <2>1
  <2>3. ASSUME k + m > Q PROVE n = k + m - Q
    <3> DEFINE v == k + m - Q
    <3>1. v \in 0 .. (Q - 1) /\ k + m = Q * 1 + v /\ v \in Int
      BY <1>1, <2>1, <2>3
    <3> HIDE DEF v
    <3> QED BY <2>1, <3>1 DEF v
  <2>4. k + m # Q
    BY <1>1, <2>1
  <2> QED BY <1>1, <2>1, <2>2, <2>3, <2>4
<1>3. r \in Affine
  BY <1>2, MultipleTyped
<1>4. x2 # x /\ OnLine(M, M2, r, dx, dy)
  <2>1. m \in (1 .. (Q - 1)) \ {k, Q - k}
    OBVIOUS
  <2> QED BY <2>1, GroupAssumption
<1>5. PICK l \in Fp6, c \in Fp6 :
        /\ Meets(l, c, x, y, x2, y2) /\ dy = MulFp6(l, dx)
        /\ dx \in Fp6 \ {Zero6} /\ Sub(x, x2) \in Fp6 \ {Zero6}
  <2> HIDE DEF x, y, x2, y2
  <2> QED BY <1>1, <1>4, ChordMeets
<1> DEFINE t == Sub(MulFp6(l, l), Add(x, x2))
<1>6. r.x = t /\ r.y = Neg(Add(MulFp6(l, t), c))
  <2>1. M.x = x /\ M.y = y /\ M2.x = x2
    OBVIOUS
  <2> HIDE DEF M, M2, dx, dy, x, y, x2, y2, r
  <2> QED BY <1>3, <1>4, <1>5, <2>1, ThirdOfLine
<1> QED BY <1>2, <1>5, <1>6

LEMMA ChordAdds ==
  ASSUME NEW k \in 1 .. (Q - 1), NEW m \in 1 .. (Q - 1), m # k, m # Q - k
  PROVE  \E g \in Fp6 \ {Zero6} : ComputeAdd(Point(k), Point(m)) = Scale(g, Point(k + m))
<1> DEFINE x == Multiples[k].x  y == Multiples[k].y
           x2 == Multiples[m].x  y2 == Multiples[m].y
           n == (k + m) % Q
           r == Multiples[n]
           j == Q - m
           p == Point(k)
           p2 == Point(m)
           a == ComputeAdd(p, p2)
<1>1. /\ x \in Fp6 /\ y \in Fp6 /\ k \in Nat /\ p = [x |-> x, y |-> y, z |-> One6]
      /\ x2 \in Fp6 /\ y2 \in Fp6 /\ m \in Nat /\ p2 = [x |-> x2, y |-> y2, z |-> One6]
  BY MultipleTyped
<1>2. /\ j \in 1 .. (Q - 1) /\ j # k /\ j # Q - k
      /\ Multiples[j].x = x2 /\ Multiples[j].y = Neg(y2)
  <2>1. Q \in Nat
    BY GroupAssumption
  <2>2. j \in 1 .. (Q - 1) /\ j # k /\ j # Q - k
    BY <1>1, <2>1
  <2>3. Multiples[Q - m].x = Multiples[m].x /\ Multiples[Q - m].y = Neg(Multiples[m].y)
    BY MultipleTyped
  <2> QED BY <2>2, <2>3
<1>3. a = SumOfProducts(MulFp6(x, x2), MulFp6(y, y2), One6,
                        Add(MulFp6(x, y2), MulFp6(y, x2)), Add(x, x2), Add(y, y2))
  <2> HIDE DEF x, y, x2, y2, p, p2
  <2> QED BY <1>1, AddOfAffine
<1>4. a \in Projective /\ a.x \in Fp6 /\ a.y \in Fp6 /\ a.z \in Fp6
  <2>1. p \in Projective /\ p2 \in Projective
    BY <1>1, PointsTyped
  <2> HIDE DEF p, p2
  <2>2. a \in Projective
    BY <2>1, SumsTyped
  <2> HIDE DEF a
  <2> QED BY <2>2, CoordinatesTyped
<1>5. a.z # Zero6
  <2> DEFINE y3 == Neg(y2)
             i == (k + j) % Q
             R == Multiples[i]
             d == Sub(x, x2)
  <2>1. /\ i \in 1 .. (Q - 1)
        /\ \E l, c \in Fp6 :
             /\ Meets(l, c, x, y, x2, y3) /\ d \in Fp6 \ {Zero6}
             /\ R.y = Neg(Add(MulFp6(l, Sub(MulFp6(l, l), Add(x, x2))), c))
    BY <1>2, ChordOfMultiples
  <2>2. PICK l \in Fp6, c \in Fp6 :
          /\ Meets(l, c, x, y, x2, y3) /\ d \in Fp6 \ {Zero6}
          /\ R.y = Neg(Add(MulFp6(l, Sub(MulFp6(l, l), Add(x, x2))), c))
    BY <2>1
  <2> DEFINE t == Sub(MulFp6(l, l), Add(x, x2))
             g == Add(MulFp6(l, t), c)
             dd == MulFp6(d, d)
  <2>3. g \in Fp6 \ {Zero6}
    <3>1. R.y # Zero6
      BY <2>1, MultipleTyped
    <3>2. MulFp6(l, l) \in Fp6 /\ Add(x, x2) \in Fp6
      BY <1>1, Fp6Typed
    <3>3. t \in Fp6
      BY <3>2, Fp6Typed
    <3> HIDE DEF t
    <3>4. MulFp6(l, t) \in Fp6
      BY <3>3, Fp6Typed
    <3>5. g \in Fp6
      BY <3>4, Fp6Typed
    <3>6. R.y = Neg(g)
      BY <2>2 DEF t
    <3>7. Neg(Zero6) = Zero6
      BY ZeroTyped, SumLaws
    <3> HIDE DEF g
    <3> QED BY <3>1, <3>5, <3>6, <3>7
  <2>4. y2 = Neg(y3)
    BY <1>1, SumLaws
  <2>5. a.z = MulFp6(d, MulFp6(dd, g))
    <3> HIDE DEF x, y, x2, y2, y3, a
    <3>1. SumOfProducts(MulFp6(x, x2), MulFp6(y, Neg(y3)), One6,
                        Add(MulFp6(x, Neg(y3)), MulFp6(y, x2)),
                        Add(x, x2), Add(y, Neg(y3))).z = MulFp6(d, MulFp6(dd, g))
      BY <2>2, SumAcrossLine
    <3> QED BY <1>3, <2>4, <3>1
  <2> HIDE DEF d, g
  <2>6. dd \in Fp6 \ {Zero6}
    BY <2>2, MulNotZero
  <2> HIDE DEF dd
  <2>7. MulFp6(dd, g) \in Fp6 \ {Zero6}
    BY <2>3, <2>6, MulNotZero
  <2>8. MulFp6(d, MulFp6(dd, g)) \in Fp6 \ {Zero6}
    BY <2>2, <2>7, MulNotZero
  <2> QED BY <2>5, <2>8
<1>6. n \in 1 .. (Q - 1)
  BY ChordOfMultiples
<1>7. r \in Affine /\ r.x \in Fp6 /\ r.y \in Fp6 /\ Point(k + m) = [x |-> r.x, y |-> r.y, z |-> One6]
  <2>1. r \in Affine /\ r.x \in Fp6 /\ r.y \in Fp6
    BY <1>6, MultipleTyped
  <2>2. n # 0
    BY <1>6
  <2> QED BY <2>1, <2>2 DEF Point
<1>8. a.x = MulFp6(r.x, a.z) /\ a.y = MulFp6(r.y, a.z)
  <2>1. PICK l \in Fp6, c \in Fp6 :
          LET t == Sub(MulFp6(l, l), Add(x, x2))
          IN Meets(l, c, x, y, x2, y2) /\ r.x = t /\ r.y = Neg(Add(MulFp6(l, t), c))
    BY ChordOfMultiples
  <2> DEFINE t == Sub(MulFp6(l, l), Add(x, x2))
  <2>2. Meets(l, c, x, y, x2, y2) /\ r.x = t /\ r.y = Neg(Add(MulFp6(l, t), c))
    BY <2>1
  <2> HIDE DEF a, x, y, x2, y2, r
  <2>3. a.x = MulFp6(t, a.z) /\ a.y = MulFp6(Neg(Add(MulFp6(l, t), c)), a.z)
    BY <1>3, <2>2, SumOnLine
  <2> QED BY <2>2, <2>3
<1>9. a = Scale(a.z, Point(k + m))
  <2> DEFINE g == a.z
  <2> HIDE DEF a, r
  <2>1. a = [x |-> a.x, y |-> a.y, z |-> g] /\ g \in Fp6
    BY <1>4 DEF Projective
  <2>2. a.x = MulFp6(r.x, g) /\ a.y = MulFp6(r.y, g)
    BY <1>8
  <2> HIDE DEF g
  <2>3. MulFp6(g, One6) = g /\ MulFp6(r.x, g) = MulFp6(g, r.x) /\ MulFp6(r.y, g) = MulFp6(g, r.y)
    BY <1>7, <2>1, FieldLaws, MulUnits
  <2>4. a = Scale(g, Point(k + m))
    BY <1>7, <2>1, <2>2, <2>3 DEF Scale
  <2> QED BY <2>4 DEF g
<1> HIDE DEF a
<1> QED BY <1>4, <1>5, <1>9 DEF a

(* Of opposite points the y of the sum is that of the double.              *)
LEMMA OppositesAdd ==
  ASSUME NEW k \in 1 .. (Q - 1)
  PROVE  \E g \in Fp6 \ {Zero6} : ComputeAdd(Point(k), Point(Q - k)) = Scale(g, Infinity)
<1> DEFINE x == Multiples[k].x  y == Multiples[k].y
           y3 == Neg(y)
           xx == MulFp6(x, x)  yy == MulFp6(y, y)  xy == MulFp6(x, y)
           ny == Neg(yy)
           x2 == Add(x, x)
           s == Add(MulFp6(B3, One6), x2)
           t == Add(MulFp6(B3, x2), Sub(xx, One6))
           u == Add(Add(Double(xx), xx), One6)
           d == Sub(yy, s)  e == Add(yy, s)
           Y == Add(MulFp6(d, e), MulFp6(u, t))
           p == Point(k)
           p2 == Point(Q - k)
           a == ComputeAdd(p, p2)
<1>1. /\ x \in Fp6 /\ y \in Fp6 /\ p = [x |-> x, y |-> y, z |-> One6]
      /\ p2 = [x |-> x, y |-> y3, z |-> One6] /\ y3 \in Fp6 /\ Q - k \in 1 .. (Q - 1)
  BY MultipleTyped, Fp6Typed
<1>2. /\ xx \in Fp6 /\ yy \in Fp6 /\ xy \in Fp6 /\ x2 \in Fp6 /\ B3 \in Fp6 /\ One6 \in Fp6
      /\ Zero6 \in Fp6 /\ MulFp6(B3, One6) \in Fp6
  BY <1>1, Fp6Typed, ZeroTyped, CurveAssumption
<1>3. /\ s \in Fp6 /\ MulFp6(B3, x2) \in Fp6 /\ Sub(xx, One6) \in Fp6 /\ Double(xx) \in Fp6
  BY <1>2, Fp6Typed
<1>4. t \in Fp6 /\ Add(Double(xx), xx) \in Fp6 /\ d \in Fp6 /\ e \in Fp6
  BY <1>2, <1>3, Fp6Typed
<1>5. u \in Fp6
  BY <1>2, <1>4, Fp6Typed
<1>6. Y \in Fp6 \ {Zero6}
  <2> DEFINE b == ComputeAdd(p, p)
             n == (2 * k) % Q
             r == Multiples[n]
  <2>1. PICK g \in Fp6 \ {Zero6} : b = Scale(g, Point(2 * k))
    BY TangentAdds
  <2>2. n \in 1 .. (Q - 1)
    BY TangentAdds
  <2>3. r.y \in Fp6 \ {Zero6} /\ n # 0
    BY <2>2, MultipleTyped
  <2>4. b.y = MulFp6(g, r.y)
    BY <2>1, <2>3 DEF Scale, Point
  <2>5. b.y \in Fp6 \ {Zero6}
    BY <2>3, <2>4, MulNotZero
  <2>6. b = SumOfProducts(xx, yy, One6, Add(xy, MulFp6(y, x)), x2, Add(y, y))
    <3> HIDE DEF x, y, p
    <3> QED BY <1>1, AddOfAffine
  <2>7. b.y = Y
    BY <2>6 DEF SumOfProducts
  <2> QED BY <2>5, <2>7
<1>7. a = SumOfProducts(xx, MulFp6(y, y3), One6, Add(MulFp6(x, y3), MulFp6(y, x)), x2, Add(y, y3))
  <2> HIDE DEF x, y, y3, p, p2
  <2> QED BY <1>1, AddOfAffine
<1>8. /\ MulFp6(y, y3) = ny /\ Add(MulFp6(x, y3), MulFp6(y, x)) = Zero6
      /\ Add(y, y3) = Zero6
  <2>1. MulFp6(x, y3) = Neg(xy) /\ MulFp6(y, x) = xy
    BY <1>1, FieldLaws
  <2> HIDE DEF xy
  <2>2. Add(xy, Neg(xy)) = Zero6 /\ Add(Neg(xy), xy) = Add(xy, Neg(xy))
    BY <1>2, Fp6Typed, SumLaws
  <2> QED BY <1>1, <2>1, <2>2, FieldLaws, SumLaws
<1> HIDE DEF xx, yy, xy, x2, x, y, y3
<1>9. a = [x |-> Sub(MulFp6(Zero6, Sub(ny, s)), MulFp6(Zero6, t)),
           y |-> Add(MulFp6(Sub(ny, s), Add(ny, s)), MulFp6(u, t)),
           z |-> Add(MulFp6(Zero6, Add(ny, s)), MulFp6(Zero6, u))]
  BY <1>7, <1>8 DEF SumOfProducts
<1> HIDE DEF s, t, u
<1>10. Sub(ny, s) = Neg(e) /\ Add(ny, s) = Neg(d)
  <2>1. Lifts6(yy, yy) /\ Lifts6(s, s) /\ yy \in Ints6 /\ s \in Ints6
    BY <1>2, <1>3, LiftsOwn DEF Lifts6
  <2>2. Lifts6(ny, (-1) \odot yy) /\ Lifts6(d, yy \ominus s) /\ Lifts6(e, yy \oplus s)
    BY <2>1, LiftsSums
  <2>3. /\ Lifts6(Sub(ny, s), ((-1) \odot yy) \ominus s) /\ Lifts6(Add(ny, s), ((-1) \odot yy) \oplus s)
        /\ Lifts6(Neg(e), (-1) \odot (yy \oplus s)) /\ Lifts6(Neg(d), (-1) \odot (yy \ominus s))
    BY <2>1, <2>2, LiftsSums
  <2>4. /\ ((-1) \odot yy) \ominus s = (-1) \odot (yy \oplus s)
        /\ ((-1) \odot yy) \oplus s = (-1) \odot (yy \ominus s)
    BY ONLY <2>1 DEF Ints6, \oplus, \ominus, \odot
  <2> QED BY <2>3, <2>4, LiftsSame
<1> HIDE DEF d, e
<1>11. MulFp6(Neg(e), Neg(d)) = MulFp6(d, e)
  <2> DEFINE ne == Neg(e)
  <2>1. ne \in Fp6 /\ MulFp6(d, e) \in Fp6
    BY <1>4, Fp6Typed
  <2>2. MulFp6(d, ne) = Neg(MulFp6(d, e))
    BY <1>4, FieldLaws
  <2> HIDE DEF ne
  <2>3. MulFp6(ne, Neg(d)) = Neg(MulFp6(ne, d)) /\ MulFp6(ne, d) = MulFp6(d, ne)
    BY <1>4, <2>1, FieldLaws
  <2>4. Neg(Neg(MulFp6(d, e))) = MulFp6(d, e)
    BY <2>1, SumLaws
  <2> QED BY <2>2, <2>3, <2>4 DEF ne
<1>12. a = [x |-> Zero6, y |-> Y, z |-> Zero6]
  <2>1. \A b \in Fp6 : MulFp6(Zero6, b) = Zero6
    BY MulUnits
  <2>2. Neg(e) \in Fp6 /\ Neg(d) \in Fp6
    BY <1>4, Fp6Typed
  <2>3. /\ MulFp6(Zero6, Neg(e)) = Zero6 /\ MulFp6(Zero6, t) = Zero6
        /\ MulFp6(Zero6, Neg(d)) = Zero6 /\ MulFp6(Zero6, u) = Zero6
    BY <1>4, <1>5, <2>1, <2>2
  <2>4. Sub(Zero6, Zero6) = Zero6 /\ Add(Zero6, Zero6) = Zero6
    BY <1>2, SumLaws
  <2> QED BY <1>9, <1>10, <1>11, <2>3, <2>4
<1> HIDE DEF Y
<1>13. Scale(Y, Infinity) = [x |-> Zero6, y |-> Y, z |-> Zero6]
  <2>1. MulFp6(Y, Zero6) = Zero6 /\ MulFp6(Y, One6) = Y
    BY <1>6, MulUnits
  <2> QED BY <2>1 DEF Scale, Infinity
<1> QED BY <1>6, <1>12, <1>13

LEMMA PointsAdd ==
  ASSUME NEW k \in 0 .. (Q - 1), NEW m \in 0 .. (Q - 1)
  PROVE  \E g \in Fp6 \ {Zero6} : ComputeAdd(Point(k), Point(m)) = Scale(g, Point(k + m))
<1>1. /\ Q \in Nat /\ Q > 3 /\ k \in Nat /\ m \in Nat /\ 0 % Q = 0 /\ k % Q = k /\ m % Q = m
      /\ Q % Q = 0
  <2>1. Q \in Nat /\ Q > 3
    BY GroupAssumption
  <2>2. \A a \in 0 .. (Q - 1) : a \in Nat /\ a % Q = a
    BY <2>1
  <2>3. Q % Q = 0
    BY <2>1
  <2>4. 0 \in 0 .. (Q - 1)
    BY <2>1
  <2> QED BY <2>1, <2>2, <2>3, <2>4
<1>2. Point(0) = Infinity
  BY <1>1 DEF Point
<1>3. One6 # Zero6 /\ One6 \in Fp6
  <2>1. One6[1] = 1 /\ Zero6[1] = 0
    BY DEF One6, Zero6
  <2> QED BY <2>1, ZeroTyped
<1>4. \A n \in 0 .. (Q - 1) :
        Point(n) \in Projective /\ Point(n).y \in Fp6 \ {Zero6}
  <2> TAKE n \in 0 .. (Q - 1)
  <2>1. n \in Nat /\ Point(n) \in Projective /\ Point(n).y \in Fp6
    BY <1>1, PointsTyped, CoordinatesTyped
  <2>2. CASE n = 0
    BY <1>2, <1>3, <2>1, <2>2 DEF Infinity
  <2>3. CASE n # 0
    <3>1. n \in 1 .. (Q - 1)
      BY <1>1, <2>3
    <3>2. Point(n) = [x |-> Multiples[n].x, y |-> Multiples[n].y, z |-> One6]
          /\ Multiples[n].y # Zero6
      BY <3>1, MultipleTyped
    <3> QED BY <2>1, <3>2
  <2> QED BY <2>2, <2>3
<1>5. CASE k = 0
  <2>1. ComputeAdd(Infinity, Point(m)) = Scale(Point(m).y, Point(m))
    BY <1>4, ZeroAdds
  <2>2. k + m = m
    BY <1>1, <1>5
  <2> QED BY <1>2, <1>4, <1>5, <2>1, <2>2
<1>6. CASE m = 0
  <2>1. ComputeAdd(Point(k), Infinity) = Scale(Point(k).y, Point(k))
    BY <1>4, ZeroAdds
  <2>2. k + m = k
    BY <1>1, <1>6
  <2> QED BY <1>2, <1>4, <1>6, <2>1, <2>2
<1>7. ASSUME k # 0, m # 0
      PROVE  \E g \in Fp6 \ {Zero6} : ComputeAdd(Point(k), Point(m)) = Scale(g, Point(k + m))
  <2>1. k \in 1 .. (Q - 1) /\ m \in 1 .. (Q - 1)
    BY <1>1, <1>7
  <2>2. CASE m = k
    <3>1. k + m = 2 * k
      BY <1>1, <2>2
    <3> QED BY <2>1, <2>2, <3>1, TangentAdds
  <2>3. CASE m = Q - k
    <3>1. k + m = Q
      BY <1>1, <2>3
    <3>2. Point(k + m) = Infinity
      BY <1>1, <3>1 DEF Point
    <3> QED BY <2>1, <2>3, <3>2, OppositesAdd
  <2>4. CASE m # k /\ m # Q - k
    BY <2>1, <2>4, ChordAdds
  <2> QED BY <2>2, <2>3, <2>4
<1> QED BY <1>5, <1>6, <1>7

(* What the formulas of utils/ecc.rs compute of multiples of G are         *)
(* multiples of G: of twice the number, and of the sum of the numbers,     *)
(* whatever the z of the points, and with no exception for the point at    *)
(* infinity, for equal points or for opposite ones.                        *)
THEOREM SchnorrFormulasAdd == GroupLaws(Projective)
<1>1. \A a \in Fp6 \ {Zero6}, b \in Fp6 \ {Zero6} : MulFp6(a, b) \in Fp6 \ {Zero6}
  BY MulNotZero
<1>2. ASSUME NEW p \in Projective, NEW k \in 0 .. (Q - 1), Represents(p, k)
      PROVE  Represents(ComputeDouble(p), 2 * k)
  <2>1. k \in Nat /\ 2 * k \in Nat /\ Point(k) \in Projective /\ Point(2 * k) \in Projective
    <3>1. k \in Nat /\ 2 * k \in Nat
      BY GroupAssumption
    <3> QED BY <3>1, PointsTyped
  <2>2. PICK v \in Fp6 \ {Zero6} : p = Scale(v, Point(k))
    BY <1>2, <2>1, RepresentsIsScale
  <2>3. PICK g \in Fp6 \ {Zero6} : ComputeDouble(Point(k)) = Scale(g, Point(2 * k))
    <3>1. CASE k = 0
      <4>1. Point(k) = Infinity /\ 2 * k = 0
        <5>1. 0 % Q = 0
          BY GroupAssumption
        <5> QED BY <3>1, <5>1 DEF Point
      <4>2. ComputeDouble(Point(k)) = Point(k)
        BY <2>1, <4>1, ZeroAdds
      <4>3. One6 \in Fp6 \ {Zero6}
        <5>1. One6[1] = 1 /\ Zero6[1] = 0
          BY DEF One6, Zero6
        <5> QED BY <5>1, ZeroTyped
      <4>4. Scale(One6, Infinity) = Infinity
        <5>1. MulFp6(One6, Zero6) = Zero6 /\ MulFp6(One6, One6) = One6
          BY ZeroTyped, MulUnits
        <5> QED BY <5>1 DEF Scale, Infinity
      <4> QED BY <3>1, <4>1, <4>2, <4>3, <4>4
    <3>2. CASE k # 0
      <4>1. k \in 1 .. (Q - 1)
        BY <3>2, GroupAssumption
      <4> QED BY <4>1, TangentAdds
    <3> QED BY <3>1, <3>2
  <2> DEFINE w == MulFp6(MulFp6(v, v), MulFp6(v, v))
  <2>4. w \in Fp6 \ {Zero6} /\ MulFp6(w, g) \in Fp6 \ {Zero6}
    BY <1>1
  <2> HIDE DEF w
  <2>5. ComputeDouble(p) = Scale(MulFp6(w, g), Point(2 * k))
    <3>1. ComputeDouble(p) = Scale(w, ComputeDouble(Point(k)))
      BY <2>1, <2>2, DoubleScales DEF w
    <3> QED BY <2>1, <2>3, <2>4, <3>1, ScaleTyped
  <2>6. ComputeDouble(p) \in Projective
    BY DoubleTyped
  <2> QED BY <2>1, <2>4, <2>5, <2>6, RepresentsIsScale
<1>3. ASSUME NEW p \in Projective, NEW k \in 0 .. (Q - 1), Represents(p, k),
             NEW r \in Projective, NEW m \in 0 .. (Q - 1), Represents(r, m)
      PROVE  Represents(ComputeAdd(p, r), k + m)
  <2>1. /\ k \in Nat /\ m \in Nat /\ k + m \in Nat
        /\ Point(k) \in Projective /\ Point(m) \in Projective /\ Point(k + m) \in Projective
    <3>1. k \in Nat /\ m \in Nat /\ k + m \in Nat
      BY GroupAssumption
    <3> QED BY <3>1, PointsTyped
  <2>2. PICK v \in Fp6 \ {Zero6} : p = Scale(v, Point(k))
    BY <1>3, <2>1, RepresentsIsScale
  <2>3. PICK w \in Fp6 \ {Zero6} : r = Scale(w, Point(m))
    BY <1>3, <2>1, RepresentsIsScale
  <2>4. PICK g \in Fp6 \ {Zero6} : ComputeAdd(Point(k), Point(m)) = Scale(g, Point(k + m))
    BY PointsAdd
  <2> DEFINE u == MulFp6(MulFp6(v, w), MulFp6(v, w))
  <2>5. u \in Fp6 \ {Zero6} /\ MulFp6(u, g) \in Fp6 \ {Zero6}
    BY <1>1
  <2> HIDE DEF u
  <2>6. ComputeAdd(p, r) = Scale(MulFp6(u, g), Point(k + m))
    <3>1. ComputeAdd(p, r) = Scale(u, ComputeAdd(Point(k), Point(m)))
      BY <2>1, <2>2, <2>3, AddScales DEF u
    <3> QED BY <2>1, <2>4, <2>5, <3>1, ScaleTyped
  <2>7. ComputeAdd(p, r) \in Projective
    BY SumsTyped
  <2> QED BY <2>1, <2>5, <2>6, <2>7, RepresentsIsScale
<1>4. ASSUME NEW p \in Projective, NEW k \in 0 .. (Q - 1), Represents(p, k), NEW m \in 1 .. (Q - 1)
      PROVE  Represents(ComputeAddMixed(p, Multiples[m]), k + m)
  <2>1. m \in Nat /\ m \in 0 .. (Q - 1) /\ Multiples[m] \in Affine
    <3>1. Q \in Nat
      BY GroupAssumption
    <3>2. m \in Nat /\ m \in 0 .. (Q - 1)
      BY <3>1
    <3>3. Multiples[m] \in Affine
      BY MultipleTyped
    <3> QED BY <3>2, <3>3
  <2>2. Point(m) = [x |-> Multiples[m].x, y |-> Multiples[m].y, z |-> One6]
    BY MultipleTyped
  <2>3. ComputeAddMixed(p, Multiples[m]) = ComputeAdd(p, Point(m))
    BY <2>1, <2>2, MixedIsAdd
  <2>4. Point(m) \in Projective /\ Represents(Point(m), m)
    <3>1. Point(m) \in Projective /\ One6 \in Fp6 \ {Zero6}
      <4>1. One6[1] = 1 /\ Zero6[1] = 0
        BY DEF One6, Zero6
      <4> QED BY <2>1, <4>1, ZeroTyped, PointsTyped
    <3>2. \A n \in Projective : Scale(One6, n) = n
      <4> TAKE n \in Projective
      <4>1. n.x \in Fp6 /\ n.y \in Fp6 /\ n.z \in Fp6 /\ n = [x |-> n.x, y |-> n.y, z |-> n.z]
        BY DEF Projective
      <4>2. \A b \in Fp6 : MulFp6(One6, b) = b
        BY ZeroTyped, FieldLaws, MulUnits
      <4> QED BY <4>1, <4>2 DEF Scale
    <3> QED BY <2>1, <3>1, <3>2, RepresentsIsScale
  <2> QED BY <1>3, <1>4, <2>1, <2>3, <2>4
<1> QED BY <1>2, <1>3, <1>4 DEF GroupLaws

LEMMA LawsRepresent ==
  ASSUME NEW p \in Projective, NEW k \in Nat, Represents(p, k)
  PROVE  /\ Represents(ComputeDouble(p), 2 * k)
         /\ \A m \in 1 .. (Q - 1) :
              Represents(ComputeAddMixed(p, Multiples[m]), k + m)
         /\ \A r \in Projective, l \in Nat :
              Represents(r, l) => Represents(ComputeAdd(p, r), k + l)
<1> DEFINE c == k % Q
<1>1. c \in 0 .. (Q - 1) /\ c \in Nat /\ c % Q = k % Q
  BY ResiduesAdd, GroupAssumption
<1>2. Represents(p, c)
  <2> HIDE DEF c
  <2> QED BY <1>1, SameResidue
<1> HIDE DEF c
<1>3. /\ Represents(ComputeDouble(p), 2 * c)
      /\ \A m \in 1 .. (Q - 1) : Represents(ComputeAddMixed(p, Multiples[m]), c + m)
      /\ \A r \in Projective, m \in 0 .. (Q - 1) :
           Represents(r, m) => Represents(ComputeAdd(p, r), c + m)
  BY <1>1, <1>2, SchnorrFormulasAdd DEF GroupLaws
<1>4. \A l \in Nat : (c + l) % Q = (k + l) % Q
  BY ResiduesAdd DEF c
<1>5. Represents(ComputeDouble(p), 2 * k)
  <2>1. (c + c) % Q = (k + c) % Q
    BY <1>1, <1>4
  <2>2. (c + k) % Q = (k + k) % Q
    BY <1>4
  <2>3. c + k = k + c /\ 2 * c = c + c /\ 2 * k = k + k /\ 2 * c \in Nat /\ 2 * k \in Nat
    BY <1>1
  <2>4. (2 * c) % Q = (2 * k) % Q
    BY <2>1, <2>2, <2>3
  <2> QED BY <1>3, <2>3, <2>4, SameResidue
<1>6. ASSUME NEW m \in 1 .. (Q - 1)
      PROVE  Represents(ComputeAddMixed(p, Multiples[m]), k + m)
  <2>1. m \in Nat /\ c + m \in Nat /\ k + m \in Nat
    BY <1>1, GroupAssumption
  <2>2. (c + m) % Q = (k + m) % Q
    BY <1>4, <2>1
  <2> QED BY <1>3, <2>1, <2>2, SameResidue
<1>7. ASSUME NEW r \in Projective, NEW l \in Nat, Represents(r, l)
      PROVE  Represents(ComputeAdd(p, r), k + l)
  <2> DEFINE d == l % Q
  <2>1. d \in 0 .. (Q - 1) /\ d \in Nat /\ d % Q = l % Q /\ (d + k) % Q = (l + k) % Q
    <3>1. d \in 0 .. (Q - 1) /\ d % Q = d /\ (d + k) % Q = (l + k) % Q
      BY ONLY ResiduesAdd, l \in Nat, k \in Nat
    <3> HIDE DEF d
    <3>2. d \in Nat
      BY <3>1, GroupAssumption
    <3> QED BY <3>1, <3>2 DEF d
  <2>2. Represents(r, d)
    <3> HIDE DEF d
    <3> QED BY <1>7, <2>1, SameResidue
  <2> HIDE DEF d
  <2>3. Represents(ComputeAdd(p, r), c + d)
    BY <1>3, <2>1, <2>2
  <2>4. (c + d) % Q = (k + d) % Q
    BY <1>4, <2>1
  <2>5. d + k = k + d /\ l + k = k + l /\ c + d \in Nat /\ k + l \in Nat
    BY <1>1, <2>1
  <2>6. (c + d) % Q = (k + l) % Q
    BY <2>1, <2>4, <2>5
  <2> QED BY <2>3, <2>5, <2>6, SameResidue
<1> QED BY <1>5, <1>6, <1>7


(* PointsAreMultiples of any row.                                          *)
PointsAt(n, r) ==
  n <= ScalarMulLength =>
    /\ Represents(r.sG.point, FedAt(signature.s, n))
    /\ Represents(r.hP.point,
                  FedAt(HashNumber(h), n) * Logarithm(KeyOf(message)))

LEMMA NumbersTyped ==
  ASSUME Typed
  PROVE  /\ signature.s \in 0 .. (Pow2[BitLength] - 1) /\ signature.s \in Nat
         /\ HashNumber(h) \in 0 .. (Pow2[BitLength] - 1) /\ HashNumber(h) \in Nat
         /\ Logarithm(KeyOf(message)) \in 1 .. (Q - 1)
         /\ Logarithm(KeyOf(message)) \in Nat
<1>1. message \in Messages /\ signature \in Signatures(message) /\ h \in Digests
  BY DEF Typed
<1>2. signature.s \in 0 .. (Q - 1)
  BY <1>1, SignaturesTyped
<1>3. Q \in Nat /\ Q <= Pow2[BitLength] /\ Pow2[BitLength] \in Nat
  BY GroupAssumption, SignatureAssumption, RowsCounted, Pow2Steps
<1>4. HashNumber(h) \in 0 .. (Pow2[BitLength] - 1) /\ HashNumber(h) \in Nat
  BY <1>1, WordsMakeNumber, NumberTyped
<1>5. Logarithm(KeyOf(message)) \in 1 .. (Q - 1)
  BY <1>1, KeyTyped
<1> QED BY <1>2, <1>3, <1>4, <1>5

LEMMA StartPoints ==
  ASSUME Typed, row = 0, regs = FirstRow(signature.x)
  PROVE  PointsAt(row, regs)
<1> DEFINE L == Logarithm(KeyOf(message))
<1>1. FedAt(signature.s, 0) = 0 /\ FedAt(HashNumber(h), 0) = 0 /\ 0 * L = 0
  BY NumbersTyped, FedBounds
<1>2. Represents(Infinity, 0)
  <2>1. 0 % Q = 0
    BY GroupAssumption
  <2>2. One6 # Zero6
    <3>1. One6[1] = 1 /\ Zero6[1] = 0
      BY DEF One6, Zero6
    <3> QED BY <3>1
  <2> QED BY <2>1, <2>2 DEF Represents, Infinity
<1>3. regs.sG.point = Infinity /\ regs.hP.point = Infinity
  BY DEF FirstRow, StartLane
<1> HIDE DEF L
<1> QED BY <1>1, <1>2, <1>3 DEF PointsAt, L

LEMMA StepPoints ==
  ASSUME Typed, PointsAt(row, regs), row < ScalarMulLength
  PROVE  PointsAt(row + 1, UpdateRow(row, regs))
<1> DEFINE b == row \div 2
           k == BitLength - 1 - b
           N == signature.s
           H == HashNumber(h)
           L == Logarithm(KeyOf(message))
           p == regs.sG.point
           r == regs.hP.point
           new == UpdateRow(row, regs)
           kb == ScalarBit(N, k)
           wb == HashBit(h, k)
           f == FedAt(N, row)
           g == FedAt(H, row)
<1>1. /\ row \in Nat /\ regs \in RowType /\ message \in Messages /\ h \in Digests
      /\ p \in Projective /\ r \in Projective
  BY RowsCounted, RowParts, LaneParts DEF Typed
<1>2. b \in 0 .. (BitLength - 1) /\ k \in 0 .. (BitLength - 1)
  BY <1>1, RowsCounted
<1>3. N \in Nat /\ H \in Nat /\ L \in 1 .. (Q - 1) /\ L \in Nat
  BY NumbersTyped
<1>4. wb = ScalarBit(H, k)
  <2> HIDE DEF k
  <2> QED BY <1>1, <1>2, WordsMakeNumber
<1>5. /\ FedAt(N, 2 * b) \in Nat /\ FedAt(N, 2 * b + 1) \in Nat
      /\ FedAt(N, 2 * b + 1) = 2 * FedAt(N, 2 * b)
      /\ FedAt(N, 2 * b + 2) = FedAt(N, 2 * b + 1) + kb /\ kb \in {0, 1}
  <2> HIDE DEF b, N
  <2> QED BY <1>2, <1>3, FedSteps
<1>6. /\ FedAt(H, 2 * b) \in Nat /\ FedAt(H, 2 * b + 1) \in Nat
      /\ FedAt(H, 2 * b + 1) = 2 * FedAt(H, 2 * b)
      /\ FedAt(H, 2 * b + 2) = FedAt(H, 2 * b + 1) + wb /\ wb \in {0, 1}
  <2> HIDE DEF b, H, wb
  <2> QED BY <1>2, <1>3, <1>4, FedSteps DEF wb
<1>7. Represents(p, f) /\ Represents(r, g * L)
  BY <1>1, RowsCounted DEF PointsAt
<1>8. CASE row % 2 = 0
  <2>1. row = 2 * b /\ row + 1 = 2 * b + 1
    BY <1>1, <1>8
  <2>2. new.sG.point = ComputeDouble(p) /\ new.hP.point = ComputeDouble(r)
    <3>1. new = Doubled(row, regs)
      BY <1>1, <1>8, UpdatedRow
    <3> QED BY <3>1 DEF Doubled
  <2>3. f \in Nat /\ g \in Nat /\ FedAt(N, row + 1) = 2 * f /\ FedAt(H, row + 1) = 2 * g
    <3> HIDE DEF b, N, H
    <3> QED BY <1>5, <1>6, <2>1
  <2> HIDE DEF f, g, p, r, new, N, H, L
  <2>4. g * L \in Nat /\ 2 * (g * L) = (2 * g) * L
    BY <1>3, <2>3
  <2>5. Represents(ComputeDouble(p), 2 * f)
    BY ONLY <1>1, <1>7, <2>3, LawsRepresent
  <2>6. Represents(ComputeDouble(r), 2 * (g * L))
    <3> DEFINE w == g * L
    <3>1. w \in Nat /\ Represents(r, w)
      BY <1>7, <2>4
    <3> HIDE DEF w
    <3>2. Represents(ComputeDouble(r), 2 * w)
      BY ONLY <1>1, <3>1, LawsRepresent
    <3> QED BY <3>2 DEF w
  <2> QED BY <2>2, <2>3, <2>4, <2>5, <2>6 DEF PointsAt, new, N, H, L
<1>9. CASE row % 2 = 1
  <2>1. row = 2 * b + 1 /\ row + 1 = 2 * b + 2 /\ ~(row % 2 = 0)
    BY <1>1, <1>9
  <2>2. /\ new.sG.point = IF kb = 1 THEN ComputeAddMixed(p, G) ELSE p
        /\ new.hP.point = IF wb = 1 THEN ComputeAddMixed(r, KeyOf(message)) ELSE r
    <3>1. new = Added(row, regs)
      BY <1>1, <2>1, UpdatedRow
    <3> QED BY <3>1 DEF Added, Mixed
  <2>3. f \in Nat /\ g \in Nat /\ FedAt(N, row + 1) = f + kb /\ FedAt(H, row + 1) = g + wb
    <3> HIDE DEF b, N, H, kb, wb
    <3> QED BY <1>5, <1>6, <2>1
  <2>4. G = Multiples[1] /\ 1 \in 1 .. (Q - 1) /\ KeyOf(message) = Multiples[L]
    BY <1>1, KeyTyped, GroupAssumption DEF G
  <2>5. kb \in {0, 1} /\ wb \in {0, 1}
    BY <1>5, <1>6
  <2> HIDE DEF f, g, p, r, new, N, H, L, kb, wb
  <2>6. /\ g * L \in Nat
        /\ (g + wb) * L = IF wb = 1 THEN g * L + L ELSE g * L
    BY <1>3, <2>3, <2>5
  <2>7. Represents(new.sG.point, f + kb)
    <3>1. Represents(ComputeAddMixed(p, Multiples[1]), f + 1)
      BY ONLY <1>1, <1>7, <2>3, <2>4, LawsRepresent
    <3>2. CASE kb = 1
      BY <2>2, <2>4, <3>1, <3>2
    <3>3. CASE kb = 0
      BY <1>7, <2>2, <2>3, <3>3
    <3> QED BY <2>5, <3>2, <3>3
  <2>8. Represents(new.hP.point, (g + wb) * L)
    <3> DEFINE w == g * L
    <3>1. w \in Nat /\ Represents(r, w)
      BY <1>7, <2>6
    <3> HIDE DEF w
    <3>2. Represents(ComputeAddMixed(r, Multiples[L]), w + L)
      BY ONLY <1>1, <1>3, <3>1, LawsRepresent
    <3>3. CASE wb = 1
      BY <2>2, <2>4, <2>6, <3>2, <3>3 DEF w
    <3>4. CASE wb = 0
      BY <1>7, <2>2, <2>6, <3>4
    <3> QED BY <2>5, <3>3, <3>4
  <2> QED BY <2>3, <2>7, <2>8 DEF PointsAt, new, N, H, L
<1>10. row % 2 = 0 \/ row % 2 = 1
  BY <1>1
<1> HIDE DEF new
<1> QED BY <1>8, <1>9, <1>10

LEMMA PointsAtRow == PointsAreMultiples <=> PointsAt(row, regs)
BY DEF PointsAreMultiples, PointsAt, Fed, FedAt

(* On every row the lanes are the multiples of G and of the key by the     *)
(* bits fed so far, for words of any length: the schedule of doubles and   *)
(* sums is right, and so are the order of the bits and the formulas        *)
(* (trace.rs 73-107, ecc.rs).                                              *)
THEOREM SchnorrPointsAreMultiples == Spec => []PointsAreMultiples
<1>1. Init /\ Typed => PointsAreMultiples
  BY StartPoints, PointsAtRow DEF Init
<1>2. Typed /\ PointsAreMultiples /\ [Next]_vars => PointsAreMultiples'
  <2> SUFFICES ASSUME Typed, PointsAreMultiples, [Next]_vars
               PROVE  PointsAreMultiples'
    OBVIOUS
  <2>1. CASE Update
    <3>1. /\ row' = row + 1 /\ regs' = UpdateRow(row, regs)
          /\ message' = message /\ signature' = signature /\ h' = h
      BY <2>1 DEF Update
    <3>2. CASE row < ScalarMulLength
      <4>1. PointsAt(row + 1, UpdateRow(row, regs))
        BY <3>2, StepPoints, PointsAtRow
      <4> HIDE DEF PointsAt
      <4> QED BY <3>1, <4>1 DEF PointsAt, PointsAreMultiples, Fed, FedAt
    <3>3. CASE ~(row < ScalarMulLength)
      <4>1. ~(row' <= ScalarMulLength)
        BY <3>1, <3>3, RowsCounted DEF Typed
      <4> QED BY <4>1 DEF PointsAreMultiples
    <3> QED BY <3>2, <3>3
  <2>2. CASE UNCHANGED vars
    BY <2>2 DEF vars, PointsAreMultiples, Fed
  <2> QED BY <2>1, <2>2 DEF Next, Filled
<1> QED BY <1>1, <1>2, TypedInvariant, PTL DEF Spec

-----------------------------------------------------------------------------
(* The end: the quotient of the sum is the x of the point it represents,   *)
(* and zero times zero is the x of the point at infinity.                  *)
LEMMA QuotientIsAbscissa ==
  ASSUME NEW p \in Projective, NEW k \in Nat, Represents(p, k)
  PROVE  /\ MulFp6(p.x, InvertFp6(p.z)) = GetX(k)
         /\ MulFp6(GetX(k), p.z) = p.x
<1>1. p.x \in Fp6 /\ p.z \in Fp6 /\ InvertFp6(p.z) \in Fp6
  BY CoordinatesTyped, Fp6Typed
<1>2. CASE k % Q = 0
  <2>1. p.x = Zero6 /\ p.z = Zero6 /\ GetX(k) = Zero6
    BY <1>2 DEF Represents, GetX
  <2>2. \A b \in Fp6 : MulFp6(Zero6, b) = Zero6
    BY MulUnits
  <2> QED BY <1>1, <2>1, <2>2
<1>3. CASE k % Q # 0
  <2> DEFINE x == Multiples[k % Q].x
  <2>1. GetX(k) = x /\ p.z # Zero6 /\ p.x = Product(x, p.z)
    BY <1>3 DEF Represents, GetX
  <2>2. x \in Fp6
    <3>1. k % Q \in 1 .. (Q - 1)
      BY <1>3, GroupAssumption
    <3> QED BY <3>1, MultiplesTyped
  <2> HIDE DEF x
  <2>3. /\ MulFp6(x, p.z) = Product(x, p.z)
        /\ MulFp6(MulFp6(x, p.z), InvertFp6(p.z)) = x
    BY <1>1, <2>1, <2>2, MulFp6IsProduct, InvertFp6Inverts
  <2> QED BY <2>1, <2>3
<1> QED BY <1>2, <1>3

(* The hash is reduced modulo Q outside of the trace, and not inside.      *)
LEMMA ReducedOrNot ==
  ASSUME NEW s \in Nat, NEW n \in Nat, NEW l \in Nat
  PROVE  GetX(s + (n % Q) * l) = GetX(s + n * l)
<1> DEFINE q == n \div Q
           r == n % Q
           w == s + r * l
           u == w \div Q
           v == w % Q
<1>1. Q \in Nat \ {0} /\ n \in Int
  BY GroupAssumption
<1>2. n = Q * q + r /\ q \in Int /\ r \in 0 .. (Q - 1)
  BY ONLY <1>1, Division
<1>3. w \in Int
  <2> HIDE DEF r
  <2> QED BY <1>1, <1>2
<1>4. w = Q * u + v /\ u \in Int /\ v \in 0 .. (Q - 1)
  <2> HIDE DEF w
  <2> QED BY ONLY <1>1, <1>3, Division
<1> HIDE DEF q, r, u, v
<1>5. s + n * l = Q * (q * l + u) + v
  <2>1. n * l = Q * (q * l) + r * l
    <3>1. (Q * q + r) * l = Q * (q * l) + r * l
      BY <1>1, <1>2
    <3> QED BY <1>2, <3>1
  <2> DEFINE a == q * l
             b == r * l
             c == n * l
  <2>2. a \in Int /\ b \in Int /\ c \in Int /\ c = Q * a + b /\ s + b = Q * u + v
    BY <1>1, <1>2, <1>4, <2>1
  <2> HIDE DEF a, b, c
  <2>3. s + c = Q * (a + u) + v
    BY <1>1, <1>4, <2>2
  <2> QED BY <2>3 DEF a, c
<1>6. (s + n * l) % Q = v
  <2> DEFINE t == q * l + u
             m == s + n * l
  <2>1. t \in Int /\ m = Q * t + v
    BY <1>2, <1>4, <1>5
  <2> HIDE DEF t, m
  <2>2. m % Q = v
    BY <1>1, <1>4, <2>1
  <2> QED BY <2>2 DEF m
<1>7. (s + r * l) % Q = (s + n * l) % Q
  BY <1>6 DEF v
<1> DEFINE m == s + n * l
<1> HIDE DEF w, m
<1>8. w % Q = m % Q
  BY <1>7 DEF w, m
<1>9. GetX(w) = GetX(m)
  BY <1>8 DEF GetX
<1> QED BY <1>9 DEF w, m, r

(* What the trace ends at.                                                 *)
EndX == GetX(signature.s + HashNumber(h) * Logarithm(KeyOf(message)))

LEMMA EndIsX ==
  ASSUME Typed, PointsAreMultiples, row = ScalarMulLength
  PROVE  LET new == UpdateRow(row, regs)
             sum == ComputeAdd(regs.sG.point, regs.hP.point)
         IN new.sG.point.x = EndX /\ MulFp6(new.sG.point.x, sum.z) = sum.x
<1> DEFINE N == signature.s
           H == HashNumber(h)
           L == Logarithm(KeyOf(message))
           p == regs.sG.point
           r == regs.hP.point
           sum == ComputeAdd(p, r)
           new == UpdateRow(row, regs)
           w == H * L
           k == N + w
<1>1. /\ row \in Nat /\ regs \in RowType /\ p \in Projective /\ r \in Projective
      /\ ~(row < ScalarMulLength) /\ row <= ScalarMulLength
  BY RowsCounted, RowParts, LaneParts DEF Typed
<1>2. N \in Nat /\ w \in Nat /\ k \in Nat
  <2>1. N \in Nat /\ H \in Nat /\ L \in Nat
    BY NumbersTyped
  <2> HIDE DEF N, H, L
  <2> QED BY <2>1
<1>3. FedAt(N, ScalarMulLength) = N /\ FedAt(H, ScalarMulLength) = H
  BY NumbersTyped, FedBounds
<1>4. Represents(p, N) /\ Represents(r, w)
  <2>1. /\ Represents(p, FedAt(N, ScalarMulLength))
        /\ Represents(r, FedAt(H, ScalarMulLength) * L)
    BY <1>1, PointsAtRow DEF PointsAt
  <2> HIDE DEF N, H, L, p, r
  <2> QED BY <1>3, <2>1
<1>5. new.sG.point.x = MulFp6(sum.x, InvertFp6(sum.z))
  <2>1. new = Ended(row, regs)
    BY <1>1, UpdatedRow
  <2> QED BY <2>1 DEF Ended
<1>6. sum \in Projective
  BY <1>1, SumsTyped
<1> HIDE DEF N, w, p, r
<1>7. Represents(sum, k)
  BY ONLY <1>1, <1>2, <1>4, LawsRepresent
<1> HIDE DEF sum, k
<1>8. MulFp6(sum.x, InvertFp6(sum.z)) = GetX(k) /\ MulFp6(GetX(k), sum.z) = sum.x
  BY ONLY <1>2, <1>6, <1>7, QuotientIsAbscissa
<1>9. EndX = GetX(k)
  BY DEF EndX, k, w, N
<1> HIDE DEF new
<1>10. new.sG.point.x = EndX /\ MulFp6(new.sG.point.x, sum.z) = sum.x
  BY <1>5, <1>8, <1>9
<1> QED BY <1>10 DEF new, sum, p, r

(* From the first row to the last the builder's rows obey the constraints  *)
(* of its own message, for every message, signature and field, also where  *)
(* the z of the sum is zero (trace.rs 38-125, air.rs 394-531).             *)
THEOREM SchnorrTraceObeys == Spec => []TraceObeysConstraints
<1>1. Spec => []PointsAreMultiples
  BY SchnorrPointsAreMultiples
<1>2. Init /\ Typed /\ OwnConvinced => TraceObeysConstraints
  <2> SUFFICES ASSUME Init, OwnConvinced PROVE TraceObeysConstraints
    OBVIOUS
  <2>1. row <= ScalarMulLength
    BY RowsCounted DEF Init
  <2> QED BY <2>1 DEF OwnConvinced, OwnInputs, TraceObeysConstraints
<1>3. Typed /\ Follows /\ BitsKept /\ PointsAreMultiples /\ TraceObeysConstraints
        /\ [Next]_vars => TraceObeysConstraints'
  <2> SUFFICES ASSUME Typed, Follows, BitsKept, PointsAreMultiples,
                      TraceObeysConstraints, [Next]_vars
               PROVE  TraceObeysConstraints'
    OBVIOUS
  <2>1. CASE Update
    <3> DEFINE own == [message |-> message, x |-> signature.x]
               new == UpdateRow(row, regs)
    <3>1. /\ row + 1 \in Rows /\ regs' = new
          /\ message' = message /\ signature' = signature
          /\ convinced' =
               {p \in convinced : TransitionHolds(row, regs, regs', p.message)}
      BY <2>1 DEF Update
    <3>2. TransitionHolds(row, regs, new, message)
      <4>1. CASE row < ScalarMulLength
        BY <4>1, StepObeys
      <4>2. CASE row = ScalarMulLength
        <5>1. MulFp6(new.sG.point.x,
                     ComputeAdd(regs.sG.point, regs.hP.point).z)
                = ComputeAdd(regs.sG.point, regs.hP.point).x
          BY <4>2, EndIsX
        <5> QED BY <4>2, <5>1, EndObeys
      <4>3. row < ScalarMulLength \/ row = ScalarMulLength
        BY <3>1, RowsCounted DEF Typed, Rows, SigCycleLength
      <4> QED BY <4>1, <4>2, <4>3
    <3>3. own \in convinced /\ own.message = message
      BY DEF TraceObeysConstraints
    <3> HIDE DEF new
    <3>4. own \in convinced'
      BY <3>1, <3>2, <3>3
    <3> QED BY <3>1, <3>4 DEF TraceObeysConstraints
  <2>2. CASE UNCHANGED vars
    BY <2>2 DEF vars, TraceObeysConstraints
  <2> QED BY <2>1, <2>2 DEF Next, Filled
<1> QED BY <1>1, <1>2, <1>3, TypedInvariant, FollowsInvariant, BitsInvariant,
          OwnConvincedInvariant, PTL DEF Spec

Ends == row = ScalarMulLength + 1 => regs.sG.point.x = EndX

(* A filled trace is accepted with the inputs it was made of, and only if  *)
(* verify_signature takes the signature, and with no others: the circuit   *)
(* decides what the code outside of it decides, for every message and      *)
(* signature (air.rs 111-300, mod.rs 183-190 and 220-245).                 *)
THEOREM SchnorrAcceptedIffVerified == Spec => []AcceptedIffVerified
<1>1. Spec => []PointsAreMultiples
  BY SchnorrPointsAreMultiples
<1>2. Spec => []TraceObeysConstraints
  BY SchnorrTraceObeys
<1>3. Init => Ends
  BY RowsCounted DEF Init, Ends
<1>4. Typed /\ PointsAreMultiples /\ Ends /\ [Next]_vars => Ends'
  <2> SUFFICES ASSUME Typed, PointsAreMultiples, Ends, [Next]_vars,
                      row' = ScalarMulLength + 1
               PROVE  regs'.sG.point.x = EndX'
    BY DEF Ends
  <2>1. CASE Update
    <3>1. /\ row' = row + 1 /\ regs' = UpdateRow(row, regs)
          /\ message' = message /\ signature' = signature /\ h' = h
      BY <2>1 DEF Update
    <3>2. row = ScalarMulLength
      BY <3>1, RowsCounted DEF Typed
    <3>3. UpdateRow(row, regs).sG.point.x = EndX
      BY <3>2, EndIsX
    <3>4. EndX' = EndX
      BY <3>1 DEF EndX
    <3> QED BY <3>1, <3>3, <3>4
  <2>2. CASE UNCHANGED vars
    BY <2>2 DEF vars, Ends, EndX
  <2> QED BY <2>1, <2>2 DEF Next, Filled
<1>5. Typed /\ OnlyOwnInputs /\ TraceObeysConstraints /\ Ends
        => AcceptedIffVerified
  <2> SUFFICES ASSUME Typed, OnlyOwnInputs, TraceObeysConstraints, Ends,
                      row = ScalarMulLength + 1
               PROVE  Accepted = {p \in {[message |-> message, x |-> signature.x]} :
                                    VerifySignature(message, signature)}
    BY DEF AcceptedIffVerified
  <2>1. convinced = {OwnInputs} /\ OwnInputs.x = signature.x
    <3>1. row >= Chunks * Cycle
      BY RowsCounted, LengthAssumption, CycleAssumption
        DEF Typed, TotalHashLength, Chunks
    <3> QED BY <3>1 DEF OnlyOwnInputs, TraceObeysConstraints, OwnInputs
  <2>2. VerifySignature(message, signature) <=> EndX = signature.x
    <3> DEFINE s == signature.s
               n == HashNumber(h)
               l == Logarithm(KeyOf(message))
    <3>1. s \in Nat /\ n \in Nat /\ l \in Nat
      BY NumbersTyped
    <3>2. h = HashMessage(signature.x, message)
      BY DEF Typed
    <3>3. VerifySignature(message, signature)
            <=> GetX(s + (n % Q) * l) = signature.x
      BY <3>2 DEF VerifySignature, FromBits
    <3>4. EndX = GetX(s + n * l)
      BY DEF EndX
    <3> HIDE DEF s, n, l
    <3>5. GetX(s + (n % Q) * l) = GetX(s + n * l)
      BY ONLY <3>1, ReducedOrNot
    <3> QED BY <3>3, <3>4, <3>5
  <2>3. regs.sG.point.x = EndX
    BY DEF Ends
  <2>4. \A p : p \in Accepted <=> p \in convinced /\ regs.sG.point.x = p.x
    BY DEF Accepted, LastAsserted
  <2>5. [message |-> message, x |-> signature.x] = OwnInputs
    BY DEF OwnInputs
  <2> HIDE DEF OwnInputs
  <2>6. ASSUME NEW p
        PROVE  p \in Accepted
                 <=> p \in {q \in {OwnInputs} : VerifySignature(message, signature)}
    BY <2>1, <2>2, <2>3, <2>4
  <2> QED BY <2>5, <2>6
<1> QED BY <1>1, <1>2, <1>3, <1>4, <1>5, TypedInvariant, SchnorrOnlyOwnInputs, PTL
      DEF Spec

=============================================================================
