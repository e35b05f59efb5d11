------------------------------ MODULE Schnorr ------------------------------
(***************************************************************************)
(* Schnorr signatures (schnorr/mod.rs): signing, verifying and the hash of *)
(* the message, outside of a trace, with the sizes schnorr/constants.rs    *)
(* gives the trace that verifies one (SchnorrTrace).                       *)
(***************************************************************************)
EXTENDS Curve, Rescue, Powers

CONSTANTS Q,         \* the order of G
          Multiples, \* Multiples[k]: k times G, for 0 < k < Q
          WordBits,  \* the bits of a word of h, 64
          Messages,  \* the messages signed and claimed
          Abscissas, \* what may stand for x(R) in a signature
          Scalars    \* what may stand for s

(* 62 < log p < 63: the first bit of a word is not used.                   *)
ASSUME WordAssumption ==
  /\ WordBits \in Nat /\ WordBits > 1
  /\ Pow2[WordBits - 2] < P /\ P < Pow2[WordBits - 1]

Chunks == 4                    \* NUM_HASH_ITER - 1, and the words of h
MessageWidth == Chunks * RateWidth
TotalHashLength == (Chunks + 1) * Cycle
BitLength == 4 * WordBits - 1
ScalarMulLength == 2 * BitLength
SigCycleLength == ScalarMulLength + 2
Rows == 0 .. (SigCycleLength - 1)

ASSUME LengthAssumption ==
  TotalHashLength < ScalarMulLength /\ SigCycleLength % Cycle = 0

ASSUME MessageAssumption ==
  /\ Messages \subseteq [1 .. MessageWidth -> Field]
  /\ \A m \in Messages : \E k \in 1 .. (Q - 1) :
       SubSeq(m, 1, 12) = Multiples[k].x \o Multiples[k].y
ASSUME SignatureAssumption ==
  /\ Abscissas \subseteq Fp6
  /\ Scalars \subseteq 0 .. (Q - 1)
  /\ Q <= Pow2[BitLength]

(***************************************************************************)
(* The product of polynomials in u and v, and the chords and tangents of   *)
(* the curve, by which the Multiples are those of a point of order Q.      *)
(***************************************************************************)
Product(a, b) ==
  LET u(i) == <<a[2 * i + 1], a[2 * i + 2]>>
      w(i) == <<b[2 * i + 1], b[2 * i + 2]>>
      times(s, t) == <<s[1] * t[1] + 2 * s[2] * t[2],
                       s[1] * t[2] + s[2] * t[1] + 2 * s[2] * t[2]>>
      c0 == times(u(0), w(0))
      c1 == Add(times(u(0), w(1)), times(u(1), w(0)))
      c2 == Add(times(u(0), w(2)), Add(times(u(1), w(1)), times(u(2), w(0))))
      c3 == Add(times(u(1), w(2)), times(u(2), w(1)))
      c4 == times(u(2), w(2))
      \* v^3 = -v - 1 and v^4 = -v^2 - v
      mod(s) == [i \in 1 .. 2 |-> s[i] % P]
  IN mod(Sub(c0, c3)) \o mod(Sub(Sub(c1, c3), c4)) \o mod(Sub(c2, c4))

Square(a) == Product(a, a)
Triple(a) == Add(Double(a), a)

OnCurve(p) ==
  Triple(Square(p.y))
    = Add(Triple(Add(Product(Square(p.x), p.x), p.x)), B3)

(* r is the third point, mirrored, of a line of slope dy/dx through p, p2. *)
OnLine(p, p2, r, dx, dy) ==
  /\ Product(Add(Add(p.x, p2.x), r.x), Square(dx)) = Square(dy)
  /\ Product(Add(r.y, p.y), dx) = Product(dy, Sub(p.x, r.x))

G == Multiples[1]  \* GENERATOR
Opposite(p) == [p EXCEPT !.y = Neg(@)]

(* Q is odd; multiples are on the curve, none its own opposite; a tangent  *)
(* in k leads to 2k, and a chord through k and m to k + m.                 *)
ASSUME GroupAssumption ==
  /\ Q \in Nat /\ Q > 3 /\ Q % 2 = 1
  /\ Multiples \in [1 .. (Q - 1) -> Affine]
  /\ \A k \in 1 .. (Q - 1) :
       LET p == Multiples[k]
       IN /\ OnCurve(p) /\ p.y # Zero6
          /\ Multiples[Q - k] = Opposite(p)
          /\ OnLine(p, p, Multiples[(2 * k) % Q],
                    Double(p.y), Add(Triple(Square(p.x)), One6))
          /\ \A m \in (1 .. (Q - 1)) \ {k, Q - k} :
               LET r == Multiples[m]
               IN /\ r.x # p.x
                  /\ OnLine(p, r, Multiples[(k + m) % Q],
                            Sub(r.x, p.x), Sub(r.y, p.y))

(* AffinePoint::get_x, zero for the point at infinity.                     *)
GetX(k) == IF k % Q = 0 THEN Zero6 ELSE Multiples[k % Q].x

-----------------------------------------------------------------------------
KeyOf(message) == [x |-> SubSeq(message, 1, 6), y |-> SubSeq(message, 7, 12)]
Logarithm(key) == CHOOSE k \in 1 .. (Q - 1) : Multiples[k] = key
Chunk(message, i) == SubSeq(message, RateWidth * i + 1, RateWidth * (i + 1))

HashMessage(input, message) ==
  LET h[i \in 0 .. Chunks] ==
        IF i = 0 THEN Digest(input) ELSE Merge(h[i - 1], Chunk(message, i - 1))
  IN h[Chunks]

(* Mutant: a word shifted and not masked.                                  *)
HashBitUnmasked(words, k) == words[k \div WordBits + 1] \div Pow2[k % WordBits]

(* A bit of the four words, and of a number, the lowest first.             *)
HashBit(words, k) == (words[k \div WordBits + 1] \div Pow2[k % WordBits]) % 2
ScalarBit(s, k) == (s \div Pow2[k]) % 2

(* The number all the bits make, and Scalar::from_bits of them.            *)
HashNumber(words) ==
  words[1] + Pow2[WordBits] * (words[2] + Pow2[WordBits]
    * (words[3] + Pow2[WordBits] * words[4]))
FromBits(words) == HashNumber(words) % Q

(* Mutant: the hash of the message alone.                                  *)
SignUnbound(message, skey, r) ==
  [x |-> GetX(r),
   s |-> (r - skey * FromBits(HashMessage(Zero6, message))) % Q]

(* sign, with the random scalar it draws, and verify_signature.            *)
Sign(message, skey, r) ==
  [x |-> GetX(r),
   s |-> (r - skey * FromBits(HashMessage(GetX(r), message))) % Q]

VerifySignature(message, signature) ==
  LET h == FromBits(HashMessage(signature.x, message))
  IN GetX(signature.s + h * Logarithm(KeyOf(message))) = signature.x

-----------------------------------------------------------------------------
(* A projective point is k times G.                                        *)
Represents(p, k) ==
  IF k % Q = 0 THEN p.x = Zero6 /\ p.y # Zero6 /\ p.z = Zero6
  ELSE LET multiple == Multiples[k % Q]
       IN /\ p.z # Zero6
          /\ p.x = Product(multiple.x, p.z)
          /\ p.y = Product(multiple.y, p.z)

(* What the formulas compute of the multiples of G, whatever their z.      *)
GroupLaws(points) ==
  \A p \in points, k \in 0 .. (Q - 1) :
    Represents(p, k) =>
      /\ Represents(ComputeDouble(p), 2 * k)
      /\ \A m \in 1 .. (Q - 1) :
           Represents(ComputeAddMixed(p, Multiples[m]), k + m)
      /\ \A r \in points, m \in 0 .. (Q - 1) :
           Represents(r, m) => Represents(ComputeAdd(p, r), k + m)
=============================================================================
