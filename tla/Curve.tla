------------------------------- MODULE Curve -------------------------------
(***************************************************************************)
(* The curve y^2 = x^3 + x + B in projective coordinates (utils/ecc.rs):   *)
(* complete formulas for the double and the sum of points, how the trace   *)
(* applies them and how the constraints enforce them.                      *)
(***************************************************************************)
EXTENDS Tower

CONSTANT B3  \* three times the curve's B

Zero6 == [i \in 1 .. 6 |-> 0]
One6 == [Zero6 EXCEPT ![1] = 1]

ASSUME CurveAssumption == B3 \in Fp6

(* The polynomials of the tower, u^2 - 2u - 2 and v^3 + v + 1, have no     *)
(* roots in the fields they extend.                                        *)
ASSUME RootAssumption ==
  /\ \A a \in Field : (a * a - 2 * a - 2) % P # 0
  /\ \A c \in Fp2 : Add(Add(MulFp2(SquareFp2(c), c), c), <<1, 0>>) # <<0, 0>>

Affine == [x : Fp6, y : Fp6]             \* AFFINE_POINT_WIDTH elements
Projective == [x : Fp6, y : Fp6, z : Fp6] \* PROJECTIVE_POINT_WIDTH elements

ComputeDouble(p) ==
  LET xx == SquareFp6(p.x)  yy == SquareFp6(p.y)  zz == SquareFp6(p.z)
      xz2 == Double(MulFp6(p.x, p.z))
      xy2 == Double(MulFp6(p.x, p.y))
      yz2 == Double(MulFp6(p.y, p.z))
      s == Add(xz2, MulFp6(B3, zz))
      t == Add(Sub(xx, zz), MulFp6(B3, xz2))
      u == Add(Add(Double(xx), xx), zz)
  IN [x |-> Sub(MulFp6(xy2, Sub(yy, s)), MulFp6(yz2, t)),
      y |-> Add(MulFp6(Sub(yy, s), Add(yy, s)), MulFp6(u, t)),
      z |-> Double(Double(MulFp6(yz2, yy)))]

(* What both sums end in: the products xx, yy, zz of like coordinates, and *)
(* the sums xy, xz, yz of products of unlike ones.                         *)
SumOfProducts(xx, yy, zz, xy, xz, yz) ==
  LET s == Add(MulFp6(B3, zz), xz)
      t == Add(MulFp6(B3, xz), Sub(xx, zz))
      u == Add(Add(Double(xx), xx), zz)
  IN [x |-> Sub(MulFp6(xy, Sub(yy, s)), MulFp6(yz, t)),
      y |-> Add(MulFp6(Sub(yy, s), Add(yy, s)), MulFp6(u, t)),
      z |-> Add(MulFp6(yz, Add(yy, s)), MulFp6(xy, u))]

(* a.b' + a'.b from one product of sums                                    *)
Unlike(a, b, c, d, ac, bd) == Sub(MulFp6(Add(a, b), Add(c, d)), Add(ac, bd))

ComputeAdd(p, r) ==
  LET xx == MulFp6(p.x, r.x)  yy == MulFp6(p.y, r.y)  zz == MulFp6(p.z, r.z)
  IN SumOfProducts(xx, yy, zz, Unlike(p.x, p.y, r.x, r.y, xx, yy),
                   Unlike(p.x, p.z, r.x, r.z, xx, zz),
                   Unlike(p.y, p.z, r.y, r.z, yy, zz))

(* The other point is affine.                                              *)
ComputeAddMixed(p, r) ==
  LET xx == MulFp6(p.x, r.x)  yy == MulFp6(p.y, r.y)
  IN SumOfProducts(xx, yy, p.z, Unlike(p.x, p.y, r.x, r.y, xx, yy),
                   Add(MulFp6(r.x, p.z), p.x), Add(MulFp6(r.y, p.z), p.y))

-----------------------------------------------------------------------------
(* A lane of the trace is a projective point and a bit.                    *)
Lane == [point : Projective, bit : {0, 1}]

ApplyPointDoubling(lane) == [lane EXCEPT !.point = ComputeDouble(@)]
ApplyPointAddition(lane, r) ==
  IF lane.bit = 1 THEN [lane EXCEPT !.point = ComputeAdd(@, r)] ELSE lane
ApplyPointAdditionMixed(lane, r) ==
  IF lane.bit = 1 THEN [lane EXCEPT !.point = ComputeAddMixed(@, r)] ELSE lane

IsBinary(b) == (b * b - b) % P = 0

EnforcePointDoubling(cur, next) ==
  /\ next.point = ComputeDouble(cur.point)
  /\ IsBinary(cur.bit)

(* b.sum + (1 - b).current, coordinate by coordinate                       *)
Blend(b, new, old) ==
  [i \in DOMAIN old |-> (b * new[i] + (1 - b) * old[i]) % P]

EnforcePointAdditionMixed(cur, next, r) ==
  LET sum == ComputeAddMixed(cur.point, r)
  IN /\ \A c \in {"x", "y", "z"} :
          next.point[c] = Blend(cur.bit, sum[c], cur.point[c])
     /\ cur.bit = next.bit

EnforcePointAdditionReduceX(cur, next, r) ==
  LET sum == ComputeAdd(cur, r)
  IN /\ MulFp6(next.x, sum.z) = sum.x
     /\ next.y = sum.y
     /\ next.z = sum.z
=============================================================================
