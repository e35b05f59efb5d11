-------------------------- MODULE RangeProofProofs --------------------------
(***************************************************************************)
(* Theorems about RangeProof for every modulus and every number of bits.   *)
(***************************************************************************)
EXTENDS RangeProof, NaturalLemmas

(* The remainder after one subtraction of the modulus at most.             *)
LEMMA ModField == ASSUME NEW x \in Int PROVE x % P \in Field
BY ModulusAssumption DEF Field

(* A remainder is determined by any quotient.                              *)
LEMMA ModUnique ==
  ASSUME NEW x \in Int, NEW k \in Int, NEW r \in Field, x = k * P + r
  PROVE  x % P = r
BY ModulusAssumption DEF Field

(* Doubling and adding commutes with the reduction into the field.         *)
LEMMA ModDoubleAdd ==
  ASSUME NEW v \in Nat, NEW b \in {0, 1}
  PROVE  (2 * (v % P) + b) % P = (2 * v + b) % P
<1> DEFINE q == v \div P
           r == v % P
           x == 2 * r + b
           k == x \div P
           m == x % P
<1>1. v = q * P + r /\ q \in Int /\ r \in Field
  BY ModulusAssumption DEF Field
<1>2. x \in Int
  BY <1>1 DEF Field
<1>3. x = k * P + m /\ k \in Int /\ m \in Field
  BY <1>2, ModulusAssumption DEF Field
<1>4. 2 * v + b = (2 * q + k) * P + m
  <2>1. 2 * v + b = 2 * (q * P) + x
    BY <1>1, ModulusAssumption DEF Field
  <2>2. (2 * q + k) * P = 2 * (q * P) + k * P
    BY <1>1, <1>3, ModulusAssumption
  <2> QED BY <1>1, <1>2, <1>3, <2>1, <2>2, ModulusAssumption DEF Field
<1> HIDE DEF q, k, m
<1>5. (2 * v + b) % P = m
  BY <1>1, <1>3, <1>4, ModUnique
<1> QED BY <1>5 DEF m

-----------------------------------------------------------------------------
(* An integer and its residue, one bit longer.                             *)
LEMMA BitAppended ==
  ASSUME NEW k \in Nat, NEW v \in 0 .. (Pow2[k] - 1), NEW b \in {0, 1}
  PROVE  2 * v + b \in 0 .. (Pow2[k + 1] - 1)
<1>1. Pow2[k + 1] = 2 * Pow2[k] /\ Pow2[k] \in Nat \ {0}
  BY Pow2Steps, Pow2Positive
<1> DEFINE p == Pow2[k]
<1>2. p \in Nat /\ v \in 0 .. (p - 1)
  BY <1>1
<1> HIDE DEF p
<1>3. 2 * v + b \in 0 .. (2 * p - 1)
  BY <1>2
<1> QED BY <1>1, <1>3 DEF p

-----------------------------------------------------------------------------
(* The registers of either kind of trace: the builder's bits are binary    *)
(* and its accumulator is the number without the bits to come; any         *)
(* accumulator stands for an integer of as many bits as rows were written. *)
Inv == /\ TypeOK
       /\ honest => bit \in {0, 1}
       /\ BuilderPrefix
       /\ AttestsBits

(* The first row.                                                          *)
LEMMA InitInv == Init => Inv
<1> SUFFICES ASSUME Init PROVE Inv
  OBVIOUS
<1>1. /\ number \in Field /\ bit \in Field /\ acc = 0 /\ row = 0
      /\ honest \in BOOLEAN /\ (honest => bit = 0)
  <2>1. 0 \in Field
    BY ModulusAssumption DEF Field
  <2>2. CASE BuilderInit
    BY <2>1, <2>2 DEF BuilderInit
  <2>3. CASE ProverInit
    BY <2>3 DEF ProverInit, FirstRow
  <2> QED BY <2>2, <2>3 DEF Init
<1>2. TypeOK
  BY <1>1, ModulusAssumption, RangeAssumption DEF TypeOK, LastRow, Field
<1>3. number \div Pow2[Width - row] = 0
  <2> DEFINE d == Pow2[RangeLog - 1]
  <2>1. d \in Nat /\ number \in 0 .. (d - 1)
    BY <1>1, Pow2Positive, RangeAssumption, WidthAssumption, ModulusAssumption
    DEF Field
  <2> HIDE DEF d
  <2>2. number \div d = 0
    BY <2>1
  <2> QED BY <1>1, <2>2, RangeAssumption DEF Width, d
<1>4. AttestsBits
  <2>1. Pow2[row] = 1
    BY <1>1, Pow2Steps
  <2>2. acc = 0 % P
    BY <1>1, ModulusAssumption
  <2> QED BY <2>1, <2>2 DEF AttestsBits
<1> QED BY <1>1, <1>2, <1>3, <1>4 DEF Inv, BuilderPrefix

(* A row that obeys the constraints appends a bit to the integer.          *)
LEMMA ConstraintsAttest ==
  ASSUME TypeOK, AttestsBits, row' = row + 1, bit' \in {0, 1},
         acc' = DoubleAndAdd(acc, bit')
  PROVE  AttestsBits'
<1>1. row \in Nat
  BY DEF TypeOK
<1>2. PICK v \in 0 .. (Pow2[row] - 1) : acc = v % P
  BY DEF AttestsBits
<1>3. v \in Nat
  OBVIOUS
<1>4. acc' = (2 * v + bit') % P
  BY <1>2, <1>3, ModDoubleAdd DEF DoubleAndAdd
<1>5. 2 * v + bit' \in 0 .. (Pow2[row'] - 1)
  BY <1>1, BitAppended
<1> QED BY <1>4, <1>5 DEF AttestsBits

(* A row that obeys the constraints keeps the invariant.                   *)
LEMMA ProverInv == Inv /\ ProverStep => Inv'
<1> SUFFICES ASSUME Inv, ProverStep PROVE Inv'
  OBVIOUS
<1>1. row \in 0 .. (RangeLog - 1) /\ row < RangeLog - 1 /\ row' = row + 1
  BY DEF Inv, TypeOK, ProverStep, LastRow
<1>2. TypeOK'
  BY <1>1, RangeAssumption DEF Inv, TypeOK, ProverStep, LastRow
<1>3. bit' \in {0, 1} /\ acc' = DoubleAndAdd(acc, bit')
  BY ModulusAssumption DEF ProverStep, Constraints, Field
<1>4. AttestsBits'
  BY <1>1, <1>3, ConstraintsAttest DEF Inv
<1> QED BY <1>2, <1>4 DEF Inv, ProverStep, BuilderPrefix

(* The builder is one of those provers, and the bit it feeds is the next   *)
(* of its number.                                                          *)
LEMMA BuilderInv == Inv /\ Update => Inv' /\ Constraints
<1> SUFFICES ASSUME Inv, Update PROVE Inv' /\ Constraints
  OBVIOUS
<1>1. row \in 0 .. LastRow /\ row < Width /\ row' = row + 1
  BY RangeAssumption DEF Update, Inv, TypeOK, LastRow, Width
<1> DEFINE k == Width - 1 - row
           q == number \div Pow2[k]
<1>2. /\ bit' = q % 2
      /\ acc' = DoubleAndAdd(acc, bit')
      /\ UNCHANGED number /\ honest = TRUE /\ honest' = TRUE
  BY <1>1 DEF Update, Inv, TypeOK, Bit
<1>3. number \in Nat /\ number < P /\ acc \in Nat /\ P \in Nat
  BY ModulusAssumption DEF Inv, TypeOK, Field
<1>4. k \in Nat /\ Width - row = k + 1 /\ Width - row' = k
  BY <1>1, RangeAssumption DEF Width, LastRow
<1>5. q \in Nat /\ q <= number
  <2>1. q \in 0 .. number
    BY <1>3, <1>4, Pow2Positive, QuotientBound
  <2> QED BY <1>3, <2>1
<1>6. acc = q \div 2
  <2>1. number \div Pow2[k + 1] = (number \div Pow2[k]) \div 2
    BY <1>3, <1>4, HalfQuotient
  <2> QED BY <1>2, <1>4, <2>1 DEF Inv, BuilderPrefix
<1> HIDE DEF q, k
<1>7. bit' \in {0, 1} /\ 2 * acc + bit' = q
  BY <1>2, <1>5, <1>6
<1>8. acc' = q /\ q \in Field
  BY <1>2, <1>3, <1>5, <1>7, ModulusAssumption DEF DoubleAndAdd, Field
<1>9. TypeOK'
  <2>1. row' \in 0 .. LastRow
    BY <1>1, RangeAssumption DEF LastRow, Width
  <2>2. bit' \in Field
    BY <1>7, ModulusAssumption DEF Field
  <2> QED BY <1>2, <1>8, <2>1, <2>2 DEF Inv, TypeOK
<1>10. BuilderPrefix'
  <2>1. acc' = number' \div Pow2[k]
    BY <1>2, <1>8 DEF q
  <2>2. (Width - row)' = k
    BY <1>4 DEF Width
  <2> QED BY <2>1, <2>2 DEF BuilderPrefix
<1>11. AttestsBits'
  BY <1>1, <1>2, <1>7, ConstraintsAttest DEF Inv
<1>12. Constraints
  <2>1. \A b \in {0, 1} : b * b - b = 0
    OBVIOUS
  <2>2. 0 % P = 0
    BY ModulusAssumption
  <2> QED BY <1>2, <1>7, <2>1, <2>2 DEF Constraints
<1> QED BY <1>7, <1>9, <1>10, <1>11, <1>12 DEF Inv

(* Every row keeps the invariant, and the builder's obey the constraints.  *)
LEMMA NextInv ==
  Inv /\ [Next]_vars => Inv' /\ [honest /\ row' # row => Constraints]_vars
<1> SUFFICES ASSUME Inv, [Next]_vars
             PROVE  Inv' /\ (honest /\ row' # row => Constraints)
  OBVIOUS
<1>1. CASE Update
  BY <1>1, BuilderInv
<1>2. CASE ProverStep
  BY <1>2, ProverInv DEF ProverStep
<1>3. CASE UNCHANGED vars
  BY <1>3 DEF vars, Inv, TypeOK, BuilderPrefix, AttestsBits
<1> QED BY <1>1, <1>2, <1>3 DEF Next, Filled

(* The invariant holds on every row.                                       *)
LEMMA AlwaysInv == Spec => []Inv
BY InitInv, NextInv, PTL DEF Spec

(* Every register keeps its type.                                          *)
THEOREM RangeTypeCorrect == Spec => []TypeOK
<1>1. Inv => TypeOK
  BY DEF Inv
<1> QED BY <1>1, AlwaysInv, PTL

(* Whatever a prover writes under the constraints of range/air.rs, after k *)
(* rows its accumulator stands for an integer of k bits.                   *)
THEOREM ConstraintsAttestBits == Spec => []AttestsBits
<1>1. Inv => AttestsBits
  BY DEF Inv
<1> QED BY <1>1, AlwaysInv, PTL

(* The builder's accumulator holds the leading bits of its number, so that *)
(* the last row holds the number: no bit is lost or fed twice, and the     *)
(* reduction into the field never bites.                                   *)
THEOREM BuilderHoldsPrefix == Spec => []BuilderPrefix
<1>1. Inv => BuilderPrefix
  BY DEF Inv
<1> QED BY <1>1, AlwaysInv, PTL

(* Every step that fills a row of range/prover.rs satisfies the            *)
(* constraints of range/air.rs.                                            *)
THEOREM BuilderAlwaysObeys == Spec => BuilderObeysConstraints
BY InitInv, NextInv, PTL DEF Spec, BuilderObeysConstraints
=============================================================================
