---------------------------- MODULE NaturalLemmas ----------------------------
(***************************************************************************)
(* Facts about numbers, finite sets and vectors that the other proofs rest *)
(* on.  The library states induction for an operator P(_); here it is      *)
(* stated for a set, so that a proof can instantiate it with the set of    *)
(* the numbers that have a property.                                       *)
(***************************************************************************)
EXTENDS Powers, WellFoundedInduction, FiniteSetTheorems, SequenceTheorems, TLAPS

(* Every set of naturals that is not empty has a least element.            *)
LEMMA LeastNatural ==
  ASSUME NEW T \in SUBSET Nat, T # {}
  PROVE  \E m \in T : \A k \in T : m <= k
<1> DEFINE R == {ss \in Nat \X Nat : ss[1] < ss[2]}
<1>1. IsWellFoundedOn(R, Nat)
  BY NatLessThanWellFounded DEF OpToRel
<1>2. \A x, y \in Nat : <<y, x>> \in R <=> y < x
  OBVIOUS
<1> HIDE DEF R
<1>3. PICK x \in T : \A y \in T : ~(<<y, x>> \in R)
  BY <1>1, WFMin
<1>4. ASSUME NEW y \in T PROVE x <= y
  <2>1. x \in Nat /\ y \in Nat
    OBVIOUS
  <2>2. ~(y < x)
    BY <1>2, <1>3, <2>1
  <2> QED BY <2>1, <2>2
<1> QED BY <1>4

(* A set with 0 that is closed under successor holds all naturals.         *)
LEMMA SetInduction ==
  ASSUME NEW S, 0 \in S, \A k \in Nat : k \in S => k + 1 \in S
  PROVE  Nat \subseteq S
<1> DEFINE T == Nat \ S
<1> SUFFICES ASSUME T # {} PROVE FALSE
  OBVIOUS
<1>1. T \in SUBSET Nat
  OBVIOUS
<1>2. PICK m \in T : \A k \in T : m <= k
  BY <1>1, LeastNatural
<1>3. m \in Nat /\ m # 0 /\ m \notin S
  OBVIOUS
<1>4. m - 1 \in Nat /\ m - 1 \notin T
  BY <1>2, <1>3
<1>5. (m - 1) + 1 \in S
  BY <1>4
<1> QED BY <1>3, <1>5

(* The same up to a number.                                                *)
LEMMA IntervalInduction ==
  ASSUME NEW S, NEW n \in Nat, 0 \in S,
         \A k \in 0 .. (n - 1) : k \in S => k + 1 \in S
  PROVE  0 .. n \subseteq S
<1> DEFINE T == {k \in Nat : k <= n => k \in S}
<1>1. 0 \in T
  OBVIOUS
<1>2. ASSUME NEW k \in Nat, k \in T PROVE k + 1 \in T
  BY <1>2
<1>3. Nat \subseteq T
  <2> HIDE DEF T
  <2> QED BY <1>1, <1>2, SetInduction
<1> QED BY <1>3

(* Primitive recursion within a set.                                       *)
LEMMA Recursion ==
  ASSUME NEW S, NEW c \in S, NEW F \in [S -> S]
  PROVE  \E g \in [Nat -> S] : g[0] = c /\ \A k \in Nat : g[k + 1] = F[g[k]]
<1> DEFINE Chain(n, g) == /\ g \in [0 .. n -> S] /\ g[0] = c
                          /\ \A k \in 0 .. (n - 1) : g[k + 1] = F[g[k]]
           T == {n \in Nat : \E g : Chain(n, g)}
<1>1. 0 \in T
  <2>1. Chain(0, [k \in 0 .. 0 |-> c])
    OBVIOUS
  <2> QED BY <2>1
<1>2. ASSUME NEW n \in Nat, n \in T PROVE n + 1 \in T
  <2>1. PICK g : Chain(n, g)
    BY <1>2
  <2> DEFINE h == [k \in 0 .. (n + 1) |-> IF k = n + 1 THEN F[g[n]] ELSE g[k]]
  <2>2. h \in [0 .. (n + 1) -> S]
    BY <2>1
  <2>3. h[0] = c
    BY <2>1
  <2>4. ASSUME NEW k \in 0 .. n PROVE h[k + 1] = F[h[k]]
    BY <2>1, <2>4
  <2>5. Chain(n + 1, h)
    <3>1. (n + 1) - 1 = n
      OBVIOUS
    <3> HIDE DEF h
    <3>2. \A k \in 0 .. ((n + 1) - 1) : h[k + 1] = F[h[k]]
      BY <2>4, <3>1
    <3> QED BY ONLY <2>2, <2>3, <3>2
  <2>6. n + 1 \in Nat
    OBVIOUS
  <2> HIDE DEF h, Chain
  <2> QED BY <2>5, <2>6
<1>3. \A n \in Nat : \E g : Chain(n, g)
  <2> HIDE DEF T
  <2>1. Nat \subseteq T
    BY <1>1, <1>2, SetInduction
  <2> QED BY <2>1 DEF T
<1>4. ASSUME NEW n \in Nat, NEW m \in Nat, n <= m, NEW g, NEW h,
             Chain(n, g), Chain(m, h)
      PROVE  \A k \in 0 .. n : g[k] = h[k]
  <2> DEFINE U == {k \in Nat : k <= n => g[k] = h[k]}
  <2>1. 0 \in U
    BY <1>4
  <2>2. ASSUME NEW k \in Nat, k \in U PROVE k + 1 \in U
    <3> SUFFICES ASSUME k + 1 <= n PROVE g[k + 1] = h[k + 1]
      OBVIOUS
    <3>1. g[k] = h[k]
      BY <2>2
    <3>2. k \in 0 .. (n - 1) /\ k \in 0 .. (m - 1)
      BY <1>4
    <3> QED BY <1>4, <3>1, <3>2
  <2>3. Nat \subseteq U
    <3> HIDE DEF U
    <3> QED BY <2>1, <2>2, SetInduction
  <2> QED BY <2>3
<1> DEFINE best == [n \in Nat |-> CHOOSE g : Chain(n, g)]
           limit == [n \in Nat |-> best[n][n]]
<1>5. \A n \in Nat : Chain(n, best[n])
  <2> HIDE DEF Chain
  <2> QED BY <1>3
<1> HIDE DEF best
<1>6. \A n \in Nat : limit[n] \in S
  BY <1>5
<1>7. limit[0] = c
  BY <1>5
<1>8. ASSUME NEW k \in Nat PROVE limit[k + 1] = F[limit[k]]
  <2>1. Chain(k, best[k]) /\ Chain(k + 1, best[k + 1])
    BY <1>5
  <2>2. best[k + 1][k + 1] = F[best[k + 1][k]]
    <3>1. k \in 0 .. ((k + 1) - 1)
      OBVIOUS
    <3> QED BY <2>1, <3>1
  <2>3. best[k][k] = best[k + 1][k]
    <3> HIDE DEF Chain
    <3>1. k <= k + 1 /\ k + 1 \in Nat /\ k \in 0 .. k
      OBVIOUS
    <3> QED BY <1>4, <2>1, <3>1
  <2> QED BY <2>2, <2>3
<1> QED BY <1>6, <1>7, <1>8

(* Recursion by the number of the step, as far as a bound.                 *)
Iterates(g, n, S, c, F) ==
  /\ g \in [0 .. n -> S]
  /\ g[0] = c
  /\ \A k \in 0 .. (n - 1) : g[k + 1] = F[k + 1][g[k]]

LEMMA BoundedRecursion ==
  ASSUME NEW S, NEW c, c \in S, NEW n \in Nat, NEW F,
         F \in [Nat -> [S -> S]]
  PROVE  \E g : Iterates(g, n, S, c, F)
<1> DEFINE T == Nat \X S
           step == [t \in T |-> <<t[1] + 1, F[t[1] + 1][t[2]]>>]
           start == <<0, c>>
<1>1. start \in T /\ step \in [T -> T]
  OBVIOUS
<1>2. \E h \in [Nat -> T] : h[0] = start /\ \A k \in Nat : h[k + 1] = step[h[k]]
  <2>1. start \in T
    BY <1>1
  <2>2. step \in [T -> T]
    BY <1>1
  <2> HIDE DEF T, step, start
  <2> QED BY ONLY <2>1, <2>2, Recursion
<1>3. PICK h \in [Nat -> T] : h[0] = start /\ \A k \in Nat : h[k + 1] = step[h[k]]
  BY <1>2
<1>4. \A k \in Nat : h[k] \in T
  BY <1>3
<1>5. ASSUME NEW t \in T
      PROVE  step[t][1] = t[1] + 1 /\ step[t][2] = F[t[1] + 1][t[2]]
  OBVIOUS
<1>6. \A k \in Nat : h[k][1] = k
  <2> DEFINE U == {k \in Nat : h[k][1] = k}
  <2>1. 0 \in U
    BY <1>3
  <2>2. ASSUME NEW k \in Nat, k \in U PROVE k + 1 \in U
    <3>1. h[k + 1][1] = h[k][1] + 1
      <4> HIDE DEF step
      <4> QED BY <1>3, <1>4, <1>5
    <3> QED BY <2>2, <3>1
  <2>3. Nat \subseteq U
    <3> HIDE DEF U
    <3> QED BY <2>1, <2>2, SetInduction
  <2> QED BY <2>3
<1> DEFINE g == [k \in 0 .. n |-> h[k][2]]
<1>7. g \in [0 .. n -> S]
  BY <1>4
<1>8. g[0] = c
  BY <1>3
<1>9. ASSUME NEW k \in 0 .. (n - 1) PROVE g[k + 1] = F[k + 1][g[k]]
  <2>1. k \in Nat /\ k \in 0 .. n /\ k + 1 \in 0 .. n
    OBVIOUS
  <2>2. h[k + 1] = step[h[k]] /\ h[k] \in T /\ h[k][1] = k
    <3> HIDE DEF step
    <3> QED BY <1>3, <1>4, <1>6, <2>1
  <2>3. h[k + 1][2] = F[k + 1][h[k][2]]
    <3> HIDE DEF step
    <3> QED BY <1>5, <2>2
  <2> QED BY <2>1, <2>3
<1> HIDE DEF g
<1> QED BY <1>7, <1>8, <1>9 DEF Iterates

(* Pow2 is what it is defined to be.                                       *)
LEMMA Pow2Steps ==
  Pow2 \in [Nat -> Nat] /\ Pow2[0] = 1 /\ \A k \in Nat : Pow2[k + 1] = 2 * Pow2[k]
<1> DEFINE double == [x \in Nat |-> 2 * x]
           Is(g) == g = [k \in Nat |-> IF k = 0 THEN 1 ELSE 2 * g[k - 1]]
<1>1. double \in [Nat -> Nat]
  OBVIOUS
<1>2. PICK g \in [Nat -> Nat] :
        g[0] = 1 /\ \A k \in Nat : g[k + 1] = double[g[k]]
  <2> DEFINE S == Nat
             c == 1
  <2>1. c \in S /\ double \in [S -> S]
    BY <1>1
  <2> HIDE DEF double, S, c
  <2>2. \E g \in [Nat -> S] : g[0] = c /\ \A k \in Nat : g[k + 1] = double[g[k]]
    BY <2>1, Recursion
  <2> QED BY <2>2 DEF S, c
<1>3. ASSUME NEW k \in Nat PROVE g[k] = IF k = 0 THEN 1 ELSE 2 * g[k - 1]
  <2>1. CASE k = 0
    BY <1>2, <2>1
  <2>2. CASE k # 0
    <3>1. k - 1 \in Nat /\ (k - 1) + 1 = k
      BY <2>2
    <3>2. g[(k - 1) + 1] = double[g[k - 1]]
      BY <1>2, <3>1
    <3> QED BY <2>2, <3>1, <3>2
  <2> QED BY <2>1, <2>2
<1>4. Is(g)
  BY <1>3
<1>5. Is(Pow2)
  <2>1. Pow2 = CHOOSE h : Is(h)
    BY DEF Pow2
  <2> QED BY <1>4, <2>1
<1>6. DOMAIN Pow2 = Nat /\ Pow2[0] = 1
  BY <1>5
<1>7. \A k \in Nat : Pow2[k + 1] = 2 * Pow2[k]
  BY <1>5
<1> DEFINE U == {k \in Nat : Pow2[k] \in Nat}
<1>8. 0 \in U /\ \A k \in Nat : k \in U => k + 1 \in U
  BY <1>6, <1>7
<1>9. Nat \subseteq U
  <2> HIDE DEF U
  <2> QED BY <1>8, SetInduction
<1> QED BY <1>5, <1>6, <1>7, <1>9

(* No power of two is zero.                                                *)
LEMMA Pow2Positive == \A k \in Nat : Pow2[k] \in Nat \ {0}
<1> DEFINE U == {k \in Nat : Pow2[k] \in Nat \ {0}}
<1>1. 0 \in U /\ \A k \in Nat : k \in U => k + 1 \in U
  BY Pow2Steps
<1>2. Nat \subseteq U
  <2> HIDE DEF U
  <2> QED BY <1>1, SetInduction
<1> QED BY <1>2

(* Dividing by twice a number is dividing by it and then by two.           *)
LEMMA DivByTwice ==
  ASSUME NEW i \in Nat, NEW d \in Nat \ {0}
  PROVE  i \div (2 * d) = (i \div d) \div 2
<1> DEFINE q == i \div d
           r == i % d
           h == q \div 2
           b == q % 2
<1>1. i = d * q + r /\ q \in Nat /\ r \in 0 .. (d - 1)
  OBVIOUS
<1> HIDE DEF q, r
<1>2. q = 2 * h + b /\ h \in Nat /\ b \in {0, 1}
  BY <1>1
<1> HIDE DEF h, b
<1>3. i = (2 * d) * h + (d * b + r)
  BY <1>1, <1>2
<1>4. d * b + r \in 0 .. (2 * d - 1)
  <2>1. d * b = 0 \/ d * b = d
    BY <1>2
  <2> QED BY <1>1, <2>1
<1> DEFINE e == 2 * d
           s == d * b + r
<1>5. e \in Nat \ {0} /\ s \in 0 .. (e - 1) /\ i = e * h + s
  BY <1>3, <1>4
<1>6. i \div e = h
  <2> HIDE DEF e, s
  <2> QED BY <1>2, <1>5
<1> QED BY <1>6 DEF h, q

(* A quotient is no larger than what was divided.                          *)
LEMMA QuotientBound ==
  ASSUME NEW i \in Nat, NEW d \in Nat \ {0}
  PROVE  i \div d \in 0 .. i
<1> DEFINE q == i \div d
<1>1. i = d * q + (i % d) /\ q \in Nat /\ i % d \in Nat
  OBVIOUS
<1> HIDE DEF q
<1>2. d * q >= q
  <2>1. d * q = q + (d - 1) * q /\ (d - 1) * q >= 0
    BY <1>1
  <2> QED BY <1>1, <2>1
<1>3. q <= i
  BY <1>1, <1>2
<1> QED BY <1>1, <1>3 DEF q

(* One bit less is half the quotient.                                      *)
LEMMA HalfQuotient ==
  ASSUME NEW i \in Nat, NEW k \in Nat
  PROVE  i \div Pow2[k + 1] = (i \div Pow2[k]) \div 2
BY DivByTwice, Pow2Steps, Pow2Positive

(* A number is its quotient and its remainder.                             *)
LEMMA Division ==
  ASSUME NEW d \in Nat \ {0}, NEW i \in Int
  PROVE  /\ i = d * (i \div d) + (i % d)
         /\ i \div d \in Int /\ i % d \in 0 .. (d - 1)
OBVIOUS

(* Counting in cycles of d.                                                *)
LEMMA CycleSteps ==
  ASSUME NEW d \in Nat \ {0}, NEW i \in Nat
  PROVE  IF i % d = d - 1
         THEN (i + 1) % d = 0 /\ (i + 1) \div d = i \div d + 1
         ELSE (i + 1) % d = (i % d) + 1 /\ (i + 1) \div d = i \div d
<1> DEFINE q == i \div d
           r == i % d
<1>1. i = d * q + r /\ q \in Int /\ r \in 0 .. (d - 1)
  BY Division
<1> HIDE DEF q, r
<1>2. CASE r = d - 1
  <2> DEFINE j == i + 1
             p == q + 1
  <2>1. j = d * p + 0 /\ p \in Int /\ 0 \in 0 .. (d - 1)
    BY <1>1, <1>2
  <2>2. j \div d = p /\ j % d = 0
    <3> HIDE DEF j, p
    <3> QED BY <2>1
  <2> QED BY <1>2, <2>2 DEF q, r
<1>3. CASE r # d - 1
  <2> DEFINE j == i + 1
             s == r + 1
  <2>1. j = d * q + s /\ s \in 0 .. (d - 1)
    BY <1>1, <1>3
  <2>2. j \div d = q /\ j % d = s
    <3> HIDE DEF j, s
    <3> QED BY <1>1, <2>1
  <2> QED BY <1>3, <2>2 DEF q, r
<1> QED BY <1>2, <1>3

(* Equal remainders are a multiple of the divisor apart.                   *)
LEMMA EqualRemainders ==
  ASSUME NEW d \in Nat \ {0}, NEW x \in Int, NEW y \in Int
  PROVE  /\ x % d = y % d <=> \E q \in Int : x = y + d * q
         /\ (x % d) % d = x % d
<1>1. d \in Nat \ {0} /\ x \in Int /\ y \in Int
  OBVIOUS
<1> DEFINE r == x % d
           s == y % d
           j == x \div d
           k == y \div d
<1>2. x = d * j + r /\ j \in Int /\ r \in 0 .. (d - 1)
  BY ONLY <1>1, Division
<1>3. y = d * k + s /\ k \in Int /\ s \in 0 .. (d - 1)
  BY ONLY <1>1, Division
<1>4. x % d = y % d => \E q \in Int : x = y + d * q
  <2> SUFFICES ASSUME r = s PROVE \E q \in Int : x = y + d * q
    OBVIOUS
  <2> HIDE DEF r, s, j, k
  <2>1. x = y + d * (j - k) /\ j - k \in Int
    BY <1>1, <1>2, <1>3
  <2> QED BY <2>1
<1>5. ASSUME NEW q \in Int, x = y + d * q PROVE x % d = y % d
  <2> HIDE DEF j, k, s
  <2>1. x = d * (k + q) + s
    BY <1>1, <1>3, <1>5
  <2> DEFINE t == k + q
  <2>2. t \in Int /\ x = d * t + s
    BY <1>3, <2>1
  <2> HIDE DEF t
  <2>3. x % d = s
    BY <1>1, <1>3, <2>2
  <2> QED BY <2>3 DEF s
<1>6. r % d = r
  <2> HIDE DEF r
  <2> QED BY <1>1, <1>2
<1> QED BY <1>4, <1>5, <1>6

(* The remainder of a sum is that of a sum of remainders.                  *)
LEMMA RemaindersAdd ==
  ASSUME NEW d \in Nat \ {0}, NEW k \in Nat, NEW l \in Nat
  PROVE  /\ k % d \in 0 .. (d - 1) /\ (k % d) % d = k % d
         /\ ((k % d) + l) % d = (k + l) % d
<1> DEFINE q == k \div d
           r == k % d
<1>1. d \in Nat \ {0} /\ k \in Int
  OBVIOUS
<1>2. k = d * q + r /\ q \in Int /\ r \in 0 .. (d - 1)
  BY ONLY <1>1, Division
<1> DEFINE u == (r + l) \div d
           v == (r + l) % d
<1>3. r + l \in Int
  BY <1>2
<1>4. r + l = d * u + v /\ u \in Int /\ v \in 0 .. (d - 1)
  <2> DEFINE w == r + l
  <2>1. w \in Int
    BY <1>3
  <2> HIDE DEF w
  <2>2. w = d * (w \div d) + (w % d) /\ w \div d \in Int /\ w % d \in 0 .. (d - 1)
    BY ONLY <1>1, <2>1, Division
  <2> QED BY <2>2 DEF w
<1> HIDE DEF q, r, u, v
<1>5. k + l = d * (q + u) + v
  <2>1. d * (q + u) = d * q + d * u /\ d * q \in Int /\ d * u \in Int
    BY <1>1, <1>2, <1>4
  <2> QED BY <1>1, <1>2, <1>4, <2>1
<1>6. (k + l) % d = v
  <2> DEFINE t == q + u
             n == k + l
  <2>1. t \in Int /\ n = d * t + v
    BY <1>2, <1>4, <1>5
  <2> HIDE DEF t, n
  <2>2. n % d = v
    BY <1>1, <1>4, <2>1
  <2> QED BY <2>2 DEF n
<1>7. r % d = r
  BY <1>1, <1>2
<1> QED BY <1>2, <1>6, <1>7 DEF r, v

LEMMA RemainderReturns ==
  ASSUME NEW n \in Nat \ {0}, NEW r \in 0 .. (n - 1), NEW u \in Int
  PROVE  (((r - u) % n) + u) % n = r % n
<1> DEFINE d == r - u
           s == d % n
           q == d \div n
           t == -q
<1>1. n \in Nat \ {0}
  OBVIOUS
<1>2. d \in Int
  OBVIOUS
<1>3. d = n * q + s /\ q \in Int /\ s \in 0 .. (n - 1)
  <2> HIDE DEF d
  <2> QED BY ONLY <1>1, <1>2, Division
<1> HIDE DEF s, q
<1>4. s + u = n * t + r /\ t \in Int
  BY <1>1, <1>3
<1> HIDE DEF t
<1>5. (n * t + r) % n = r /\ r % n = r
  BY <1>1, <1>4
<1> QED BY <1>4, <1>5 DEF s

(* The power of a sum, and a number put together from two: lo + 2^W hi has *)
(* the bits of lo below its bit W and those of hi above.                   *)
LEMMA PowersAdd == \A i, j \in Nat : Pow2[i + j] = Pow2[i] * Pow2[j]
<1> SUFFICES ASSUME NEW i \in Nat PROVE \A j \in Nat : Pow2[i + j] = Pow2[i] * Pow2[j]
  OBVIOUS
<1> DEFINE U == {j \in Nat : Pow2[i + j] = Pow2[i] * Pow2[j]}
<1>1. 0 \in U
  BY Pow2Steps
<1>2. ASSUME NEW j \in Nat, j \in U PROVE j + 1 \in U
  <2> DEFINE a == Pow2[i]
             b == Pow2[j]
             c == Pow2[i + j]
  <2>1. a \in Nat /\ b \in Nat /\ c \in Nat /\ c = a * b
    BY <1>2, Pow2Steps
  <2>2. Pow2[j + 1] = 2 * b /\ Pow2[(i + j) + 1] = 2 * c /\ (i + j) + 1 = i + (j + 1)
    BY Pow2Steps
  <2> HIDE DEF a, b, c
  <2>3. 2 * c = a * (2 * b)
    BY <2>1
  <2> QED BY <2>2, <2>3 DEF a
<1>3. Nat \subseteq U
  <2> HIDE DEF U
  <2> QED BY <1>1, <1>2, SetInduction
<1> QED BY <1>3

LEMMA BitsOfPair ==
  ASSUME NEW W \in Nat, NEW lo \in 0 .. (Pow2[W] - 1), NEW hi \in Nat, NEW k \in Nat
  PROVE  ((lo + Pow2[W] * hi) \div Pow2[k]) % 2
           = IF k < W THEN (lo \div Pow2[k]) % 2 ELSE (hi \div Pow2[k - W]) % 2
<1>1. CASE k < W
  <2> DEFINE d == Pow2[k]
             m == W - k - 1
             e == Pow2[m]
             q == lo \div d
             r == lo % d
  <2>1. m \in Nat /\ W = (k + 1) + m
    BY <1>1
  <2>2. d \in Nat \ {0} /\ e \in Nat \ {0}
    BY <2>1, Pow2Positive
  <2>3. Pow2[W] = (2 * d) * e
    <3> HIDE DEF m
    <3> QED BY <2>1, PowersAdd, Pow2Steps
  <2>4. lo \in Int /\ lo \in Nat
    BY Pow2Steps
  <2>5. lo = d * q + r /\ q \in Int /\ r \in 0 .. (d - 1)
    <3> HIDE DEF d
    <3> QED BY ONLY <2>2, <2>4, Division
  <2>6. lo + Pow2[W] * hi = d * (q + 2 * (e * hi)) + r /\ e * hi \in Int
    <3> HIDE DEF d, e, q, r
    <3>1. e * hi \in Int /\ d * q \in Int
      BY <2>2, <2>5
    <3>2. ((2 * d) * e) * hi = d * (2 * (e * hi))
      BY <2>2
    <3>3. d * (q + 2 * (e * hi)) = d * q + d * (2 * (e * hi)) /\ d * (2 * (e * hi)) \in Int
      BY <2>2, <2>5, <3>1
    <3> QED BY <2>3, <2>5, <3>1, <3>2, <3>3
  <2>7. (lo + Pow2[W] * hi) \div d = q + 2 * (e * hi)
    <3> DEFINE t == q + 2 * (e * hi)
               n == lo + Pow2[W] * hi
    <3>1. t \in Int /\ n = d * t + r /\ r \in 0 .. (d - 1)
      BY <2>5, <2>6
    <3> HIDE DEF t, n, d, r
    <3>2. n \div d = t
      BY <2>2, <3>1
    <3> QED BY <3>2 DEF t, n
  <2>8. (q + 2 * (e * hi)) % 2 = q % 2
    <3> DEFINE f == e * hi
    <3>1. f \in Int /\ q \in Int
      BY <2>5, <2>6
    <3> HIDE DEF f, q
    <3>2. (q + 2 * f) % 2 = q % 2
      BY ONLY <3>1
    <3> QED BY <3>2 DEF f
  <2> QED BY <1>1, <2>7, <2>8
<1>2. CASE k >= W
  <2> DEFINE d == Pow2[W]
             m == k - W
             e == Pow2[m]
             q == hi \div e
             r == hi % e
  <2>1. m \in Nat /\ k = W + m
    BY <1>2
  <2>2. d \in Nat \ {0} /\ e \in Nat \ {0}
    BY <2>1, Pow2Positive
  <2>3. Pow2[k] = d * e
    <3> HIDE DEF m
    <3> QED BY <2>1, PowersAdd
  <2>4. hi \in Int
    OBVIOUS
  <2>5. hi = e * q + r /\ q \in Int /\ r \in 0 .. (e - 1)
    <3> HIDE DEF e
    <3> QED BY ONLY <2>2, <2>4, Division
  <2>6. /\ lo + d * hi = (d * e) * q + (lo + d * r)
        /\ lo + d * r \in 0 .. (d * e - 1) /\ d * e \in Nat \ {0}
    <3> HIDE DEF d, e, q, r
    <3>1. lo \in Int /\ lo >= 0 /\ lo <= d - 1
      BY <2>2 DEF d
    <3>2. d * hi = (d * e) * q + d * r
      BY <2>2, <2>5
    <3>3. d * r <= d * (e - 1) /\ d * (e - 1) = d * e - d /\ d * r \in Nat
            /\ d * e \in Nat \ {0} /\ (d * e) * q \in Int
      BY <2>2, <2>5
    <3> QED BY <2>2, <3>1, <3>2, <3>3
  <2>7. (lo + d * hi) \div Pow2[k] = q
    <3> DEFINE w == d * e
               v == lo + d * r
               n == lo + d * hi
    <3>1. n = w * q + v /\ v \in 0 .. (w - 1) /\ w \in Nat \ {0}
      BY <2>6
    <3> HIDE DEF w, v, n, q
    <3>2. n \div w = q
      BY <2>5, <3>1
    <3> QED BY <2>3, <3>2 DEF w, n
  <2> QED BY <1>2, <2>7
<1> QED BY <1>1, <1>2

LEMMA PairBelow ==
  ASSUME NEW W \in Nat, NEW V \in Nat,
         NEW lo \in 0 .. (Pow2[W] - 1), NEW hi \in 0 .. (Pow2[V] - 1)
  PROVE  lo + Pow2[W] * hi \in 0 .. (Pow2[W + V] - 1)
<1> DEFINE d == Pow2[W]
           e == Pow2[V]
<1>1. d \in Nat \ {0} /\ e \in Nat \ {0} /\ Pow2[W + V] = d * e
  BY Pow2Positive, PowersAdd
<1>2. lo \in 0 .. (d - 1) /\ hi \in 0 .. (e - 1)
  OBVIOUS
<1> HIDE DEF d, e
<1>3. d * hi <= d * (e - 1) /\ d * (e - 1) = d * e - d /\ d * hi \in Nat /\ d * e \in Nat
  BY <1>1, <1>2
<1>4. lo + d * hi \in 0 .. (d * e - 1)
  BY <1>1, <1>2, <1>3
<1> QED BY <1>1, <1>4 DEF d

(* The ancestors of a leaf, by level, in a tree of n levels.               *)
LEMMA Ancestors ==
  ASSUME NEW n \in Nat, NEW i \in 0 .. (Pow2[n] - 1)
  PROVE  \A k \in 0 .. n : i \div Pow2[k] \in 0 .. (Pow2[n - k] - 1)
<1> DEFINE S == {k \in 0 .. n : i \div Pow2[k] \in 0 .. (Pow2[n - k] - 1)}
<1>1. 0 \in S
  BY Pow2Steps
<1>2. ASSUME NEW k \in 0 .. (n - 1), k \in S PROVE k + 1 \in S
  <2> DEFINE q == i \div Pow2[k]
             m == Pow2[n - (k + 1)]
  <2>1. Pow2[n - k] = 2 * m
    <3>1. n - (k + 1) \in Nat /\ (n - (k + 1)) + 1 = n - k
      OBVIOUS
    <3> QED BY <3>1, Pow2Steps
  <2>2. q \in 0 .. (2 * m - 1)
    BY <1>2, <2>1
  <2>3. m \in Nat
    BY Pow2Positive
  <2>4. i \div Pow2[k + 1] = q \div 2
    <3>1. i \in Nat /\ k \in Nat
      BY Pow2Positive
    <3> QED BY <3>1, HalfQuotient
  <2> HIDE DEF q, m
  <2>5. q \div 2 \in 0 .. (m - 1)
    BY <2>2, <2>3
  <2>6. k + 1 \in 0 .. n
    OBVIOUS
  <2> QED BY <2>4, <2>5, <2>6 DEF m
<1>3. 0 .. n \subseteq S
  <2> HIDE DEF S
  <2> QED BY <1>1, <1>2, IntervalInduction
<1> QED BY <1>3

-----------------------------------------------------------------------------
(* Vectors: functions on 1 .. n, as sequences.                             *)
LEMMA VectorIsSequence ==
  ASSUME NEW S, NEW n \in Nat, NEW a
  PROVE  a \in [1 .. n -> S] <=> a \in Seq(S) /\ Len(a) = n
<1>1. a \in [1 .. n -> S] => a \in Seq(S) /\ Len(a) = n
  <2> SUFFICES ASSUME a \in [1 .. n -> S] PROVE a \in Seq(S) /\ Len(a) = n
    OBVIOUS
  <2>1. a \in Seq(S)
    BY SeqDef
  <2>2. Len(a) \in Nat /\ DOMAIN a = 1 .. Len(a) /\ DOMAIN a = 1 .. n
    BY <2>1, LenProperties
  <2> QED BY <2>1, <2>2
<1>2. a \in Seq(S) /\ Len(a) = n => a \in [1 .. n -> S]
  BY LenProperties
<1> QED BY <1>1, <1>2

LEMMA VectorSlice ==
  ASSUME NEW S, NEW n \in Nat, NEW a \in [1 .. n -> S],
         NEW i \in Nat, NEW m \in Nat, i + m <= n
  PROVE  /\ SubSeq(a, i + 1, i + m) \in [1 .. m -> S]
         /\ \A k \in 1 .. m : SubSeq(a, i + 1, i + m)[k] = a[i + k]
<1> DEFINE s == i + 1
           e == i + m
           b == SubSeq(a, s, e)
<1>1. s \in Int /\ e \in Int /\ \A k \in s .. e : a[k] \in S
  OBVIOUS
<1>2. /\ b \in Seq(S)
      /\ Len(b) = IF s <= e THEN e - s + 1 ELSE 0
      /\ \A k \in 1 .. e - s + 1 : b[k] = a[s + k - 1]
  <2> HIDE DEF s, e
  <2> QED BY <1>1, SubSeqProperties
<1>3. Len(b) = m
  BY <1>2
<1>4. \A k \in 1 .. m : b[k] = a[i + k]
  <2> TAKE k \in 1 .. m
  <2>1. k \in 1 .. e - s + 1 /\ s + k - 1 = i + k
    OBVIOUS
  <2>2. b[k] = a[s + k - 1]
    <3> HIDE DEF s, e, b
    <3> QED BY ONLY <1>2, <2>1
  <2> HIDE DEF s, e, b
  <2> QED BY ONLY <2>1, <2>2
<1>5. b \in [1 .. m -> S]
  <2>1. b \in Seq(S) /\ Len(b) = m
    BY <1>2, <1>3
  <2> HIDE DEF s, e, b
  <2> QED BY <2>1, VectorIsSequence
<1> QED BY <1>4, <1>5

LEMMA VectorJoin ==
  ASSUME NEW S, NEW n \in Nat, NEW a \in [1 .. n -> S],
         NEW m \in Nat, NEW b \in [1 .. m -> S]
  PROVE  /\ a \o b \in [1 .. (n + m) -> S]
         /\ \A k \in 1 .. n : (a \o b)[k] = a[k]
         /\ \A k \in 1 .. m : (a \o b)[n + k] = b[k]
<1>1. a \in Seq(S) /\ b \in Seq(S) /\ Len(a) = n /\ Len(b) = m
  BY VectorIsSequence
<1>2. /\ a \o b \in Seq(S) /\ Len(a \o b) = n + m
      /\ \A k \in 1 .. n + m :
           (a \o b)[k] = IF k <= n THEN a[k] ELSE b[k - n]
  BY <1>1, ConcatProperties
<1>3. a \o b \in [1 .. (n + m) -> S]
  <2> DEFINE z == a \o b
             l == n + m
  <2>1. z \in Seq(S) /\ Len(z) = l /\ l \in Nat
    BY <1>2
  <2> HIDE DEF z, l
  <2>2. z \in [1 .. l -> S]
    BY <2>1, VectorIsSequence
  <2> QED BY <2>2 DEF z, l
<1>4. \A k \in 1 .. n : (a \o b)[k] = a[k]
  BY <1>2
<1>5. ASSUME NEW k \in 1 .. m PROVE (a \o b)[n + k] = b[k]
  <2>1. n + k \in 1 .. n + m /\ ~(n + k <= n) /\ (n + k) - n = k
    OBVIOUS
  <2> QED BY <1>2, <2>1
<1> QED BY <1>3, <1>4, <1>5

-----------------------------------------------------------------------------
(* Recursion and induction over the subsets of a finite set, an element at *)
(* a time, whichever element pick takes.                                   *)
Picks(pick, S) == \A s \in SUBSET S : s # {} => pick[s] \in s

FoldedBy(g, S, V, pick, c, F) ==
  /\ g \in [SUBSET S -> V]
  /\ \A s \in SUBSET S :
       g[s] = IF s = {} THEN c ELSE F[pick[s]][g[s \ {pick[s]}]]

(* A function that folds F over every subset of S exists.                  *)
LEMMA SubsetRecursion ==
  ASSUME NEW S, IsFiniteSet(S), NEW pick, Picks(pick, S),
         NEW V, NEW c, NEW F, c \in V, F \in [S -> [V -> V]]
  PROVE  \E g : FoldedBy(g, S, V, pick, c, F)
<1> DEFINE H == [SUBSET S -> V]
           Next(h) == [s \in SUBSET S |->
                         IF s = {} THEN c ELSE F[pick[s]][h[s \ {pick[s]}]]]
           grow == [h \in H |-> Next(h)]
           N == Cardinality(S)
<1>1. \A s \in SUBSET S : /\ IsFiniteSet(s) /\ Cardinality(s) \in Nat
                          /\ Cardinality(s) <= N
                          /\ Cardinality(s) = 0 => s = {}
  BY FS_Subset, FS_CardinalityType, FS_EmptySet
<1>2. \A s \in SUBSET S : s # {} =>
        /\ s \ {pick[s]} \in SUBSET S
        /\ Cardinality(s \ {pick[s]}) = Cardinality(s) - 1
  BY <1>1, FS_RemoveElement DEF Picks
<1>3. N \in Nat
  BY FS_CardinalityType
<1> HIDE DEF N
<1>4. grow \in [H -> H] /\ [s \in SUBSET S |-> c] \in H
  BY <1>2 DEF Picks
<1>5. PICK h \in [Nat -> H] : h[0] = [s \in SUBSET S |-> c]
                              /\ \A k \in Nat : h[k + 1] = grow[h[k]]
  <2> DEFINE start == [s \in SUBSET S |-> c]
  <2>1. start \in H
    BY <1>4
  <2>2. grow \in [H -> H]
    BY <1>4
  <2> HIDE DEF H, Next, grow, start
  <2>3. \E h \in [Nat -> H] : h[0] = start /\ \A k \in Nat : h[k + 1] = grow[h[k]]
    BY ONLY <2>1, <2>2, Recursion
  <2> QED BY <2>3 DEF start
<1>6. \A k \in Nat : h[k + 1] = Next(h[k])
  BY <1>5
<1> HIDE DEF grow
<1> DEFINE T == {k \in Nat : \A s \in SUBSET S :
                               Cardinality(s) <= k => h[k + 1][s] = h[k][s]}
<1>7. 0 \in T
  <2>1. ASSUME NEW s \in SUBSET S, Cardinality(s) <= 0 PROVE h[0 + 1][s] = h[0][s]
    <3>1. s = {}
      BY <1>1, <2>1
    <3>2. h[0][s] = c
      BY <1>5
    <3>3. h[0 + 1][s] = c
      <4>1. h[0 + 1] = Next(h[0])
        <5> HIDE DEF Next
        <5> QED BY <1>6
      <4> QED BY <3>1, <4>1
    <3> QED BY <3>2, <3>3
  <2> QED BY <2>1
<1>8. ASSUME NEW k \in Nat, k \in T PROVE k + 1 \in T
  <2>1. ASSUME NEW s \in SUBSET S, Cardinality(s) <= k + 1
        PROVE  h[(k + 1) + 1][s] = h[k + 1][s]
    <3>1. h[(k + 1) + 1] = Next(h[k + 1]) /\ h[k + 1] = Next(h[k])
      <4>1. k + 1 \in Nat
        OBVIOUS
      <4> HIDE DEF Next
      <4> QED BY <1>6, <4>1
    <3>2. CASE s = {}
      BY <3>1, <3>2
    <3>3. CASE s # {}
      <4> DEFINE t == s \ {pick[s]}
      <4>1. t \in SUBSET S /\ Cardinality(t) <= k
        <5>1. t \in SUBSET S /\ Cardinality(t) = Cardinality(s) - 1
          BY <1>2, <3>3
        <5>2. Cardinality(s) \in Nat
          BY <1>1
        <5> HIDE DEF t
        <5> QED BY <2>1, <5>1, <5>2
      <4>2. h[k + 1][t] = h[k][t]
        BY <1>8, <4>1
      <4>3. /\ h[(k + 1) + 1][s] = F[pick[s]][h[k + 1][t]]
            /\ h[k + 1][s] = F[pick[s]][h[k][t]]
        BY <3>1, <3>3
      <4> QED BY <4>2, <4>3
    <3> QED BY <3>2, <3>3
  <2> QED BY <2>1
<1>9. Nat \subseteq T
  <2> HIDE DEF T
  <2> QED BY <1>7, <1>8, SetInduction
<1>10. \A s \in SUBSET S : h[N][s] = Next(h[N])[s]
  <2>1. \A s \in SUBSET S : h[N + 1][s] = h[N][s]
    BY <1>1, <1>3, <1>9
  <2> QED BY <1>3, <1>6, <2>1
<1>11. h[N] \in [SUBSET S -> V]
  BY <1>3
<1> QED BY <1>10, <1>11 DEF FoldedBy

(* A property of {} that one more element keeps is one of all subsets.     *)
LEMMA SubsetInduction ==
  ASSUME NEW S, IsFiniteSet(S), NEW pick, Picks(pick, S),
         NEW T, {} \in T,
         \A s \in SUBSET S : s # {} /\ s \ {pick[s]} \in T => s \in T
  PROVE  SUBSET S \subseteq T
<1> DEFINE U == {k \in Nat : \A s \in SUBSET S : Cardinality(s) <= k => s \in T}
<1>1. \A s \in SUBSET S : /\ IsFiniteSet(s) /\ Cardinality(s) \in Nat
                          /\ Cardinality(s) = 0 => s = {}
  BY FS_Subset, FS_CardinalityType, FS_EmptySet
<1>2. \A s \in SUBSET S : s # {} =>
        /\ s \ {pick[s]} \in SUBSET S
        /\ Cardinality(s \ {pick[s]}) = Cardinality(s) - 1
  BY <1>1, FS_RemoveElement DEF Picks
<1>3. 0 \in U
  <2>1. ASSUME NEW s \in SUBSET S, Cardinality(s) <= 0 PROVE s \in T
    <3>1. Cardinality(s) = 0
      BY <1>1, <2>1
    <3> QED BY <1>1, <3>1
  <2> QED BY <2>1
<1>4. ASSUME NEW k \in Nat, k \in U PROVE k + 1 \in U
  <2>1. ASSUME NEW s \in SUBSET S, Cardinality(s) <= k + 1, s # {} PROVE s \in T
    <3>1. s \ {pick[s]} \in SUBSET S /\ Cardinality(s \ {pick[s]}) <= k
      BY <1>1, <1>2, <2>1
    <3>2. s \ {pick[s]} \in T
      BY <1>4, <3>1
    <3> QED BY <2>1, <3>2
  <2> QED BY <2>1
<1>5. Nat \subseteq U
  <2> HIDE DEF U
  <2> QED BY <1>3, <1>4, SetInduction
<1>6. \A s \in SUBSET S : Cardinality(s) \in U /\ Cardinality(s) <= Cardinality(s)
  BY <1>1, <1>5
<1> QED BY <1>6
=============================================================================
