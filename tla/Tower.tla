------------------------------- MODULE Tower -------------------------------
(***************************************************************************)
(* The extension fields of the curve (utils/ecc.rs): pairs of base field   *)
(* elements with u^2 = 2u + 2, and triples of such pairs, laid flat, with  *)
(* v^3 = -v - 1.  Sums, products and inverses take the steps of the code.  *)
(***************************************************************************)
EXTENDS Integers, Sequences

CONSTANT P  \* the modulus of BaseElement

Field == 0 .. (P - 1)

(* P is prime.                                                             *)
ASSUME FieldAssumption ==
  /\ P \in Nat /\ P > 1
  /\ \A a \in 1 .. (P - 1) : \E b \in Field : (a * b) % P = 1

Fp2 == [1 .. 2 -> Field]
Fp6 == [1 .. 6 -> Field]   \* POINT_COORDINATE_WIDTH

(* BaseElement::inv, with 0 for 0.                                         *)
Inv(a) == IF a = 0 THEN 0 ELSE CHOOSE b \in Field : (a * b) % P = 1

(* add, sub, neg and double of fp2 and fp6                                 *)
Add(a, b) == [i \in DOMAIN a |-> (a[i] + b[i]) % P]
Sub(a, b) == [i \in DOMAIN a |-> (a[i] - b[i]) % P]
Neg(a) == [i \in DOMAIN a |-> (-a[i]) % P]
Double(a) == Add(a, a)

MulFp2(a, b) ==
  LET bb == a[2] * b[2]
      c0 == 2 * bb + a[1] * b[1]
  IN <<c0 % P, (bb + c0 + (a[1] - a[2]) * (b[2] - b[1])) % P>>

SquareFp2(a) ==
  LET bb == a[2] * a[2]
      c0 == 2 * bb + a[1] * a[1]
  IN <<c0 % P, (bb + c0 - (a[1] - a[2]) * (a[1] - a[2])) % P>>

(* The norm to the base field.                                             *)
NormFp2(a) == (a[1] * a[1] + 2 * a[1] * a[2] - 2 * a[2] * a[2]) % P

InvertFp2(a) ==
  LET t == Inv(NormFp2(a))
  IN <<((a[1] + 2 * a[2]) * t) % P, (-a[2] * t) % P>>

-----------------------------------------------------------------------------
C0(a) == SubSeq(a, 1, 2)
C1(a) == SubSeq(a, 3, 4)
C2(a) == SubSeq(a, 5, 6)

(* The last steps of mul_fp6 and square_fp6: three products of the parts   *)
(* and three of their sums.                                                *)
Combine(aa, bb, cc, ab, ac, bc) ==
  LET sum == Add(Add(aa, bb), cc)
  IN Sub(sum, bc) \o Sub(Sub(ab, bc), aa)
       \o Add(Sub(Sub(ac, sum), cc), Double(bb))

MulFp6(a, b) ==
  Combine(MulFp2(C0(a), C0(b)), MulFp2(C1(a), C1(b)), MulFp2(C2(a), C2(b)),
          MulFp2(Add(C0(a), C1(a)), Add(C0(b), C1(b))),
          MulFp2(Add(C0(a), C2(a)), Add(C0(b), C2(b))),
          MulFp2(Add(C1(a), C2(a)), Add(C1(b), C2(b))))

SquareFp6(a) ==
  Combine(SquareFp2(C0(a)), SquareFp2(C1(a)), SquareFp2(C2(a)),
          SquareFp2(Add(C0(a), C1(a))), SquareFp2(Add(C0(a), C2(a))),
          SquareFp2(Add(C1(a), C2(a))))

(* The norm to fp2, and the cofactors it divides.                          *)
NormFp6(a) ==
  LET c0 == C0(a)  c1 == C1(a)  c2 == C2(a)
      sq0 == SquareFp2(c0)  sq1 == SquareFp2(c1)  sq2 == SquareFp2(c2)
      t1 == Sub(MulFp2(c0, Add(sq0, sq1)), MulFp2(c1, sq1))
      t2 == Add(t1, MulFp2(Add(c0, Sub(c2, c1)), sq2))
      three == MulFp2(Add(Double(c0), c0), c1)
  IN Sub(t2, MulFp2(Sub(Double(sq0), three), c2))

InvertFp6(a) ==
  LET c0 == C0(a)  c1 == C1(a)  c2 == C2(a)
      sq0 == SquareFp2(c0)  sq1 == SquareFp2(c1)  sq2 == SquareFp2(c2)
      t == InvertFp2(NormFp6(a))
      d0 == Sub(Add(Add(sq0, sq1), sq2), MulFp2(Sub(Double(c0), c1), c2))
      d1 == Neg(Add(MulFp2(c0, c1), sq2))
      d2 == Add(Sub(sq1, MulFp2(c0, c2)), sq2)
  IN MulFp2(d0, t) \o MulFp2(d1, t) \o MulFp2(d2, t)
=============================================================================
