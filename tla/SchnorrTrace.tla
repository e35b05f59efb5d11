---------------------------- MODULE SchnorrTrace ----------------------------
(***************************************************************************)
(* The trace that verifies one signature (schnorr/trace.rs, prover.rs) and *)
(* what its verifier checks (schnorr/air.rs).  A row is                    *)
(* [sG, hP, limbs, hash]: two lanes of a point and a bit, which climb to   *)
(* s.G and h.P bit by bit, the words of h fed so far, and the state that   *)
(* hashes x(R) and the message to h.                                       *)
(***************************************************************************)
EXTENDS Schnorr

VARIABLES message,   \* the signed message of the prover
          signature, \* its signature
          h,         \* their hash, computed before the trace is filled
          row,       \* the row of the trace
          regs,      \* its registers
          convinced  \* the public inputs the rows so far agree with

vars == <<message, signature, h, row, regs, convinced>>

Infinity == [x |-> Zero6, y |-> One6, z |-> Zero6]
StartLane == [point |-> Infinity, bit |-> 0]

(* init_sig_verification_state                                             *)
FirstRow(x) == [sG |-> StartLane, hP |-> StartLane, limbs |-> Zeroes(4),
                hash |-> x \o Zeroes(StateWidth - 6)]

(* Mutant: the chunk after the one to feed.                                *)
HashStepNextChunk(step, m, state) ==
  CASE step % Cycle < Rounds -> ApplyRound(state, step)
    [] step % Cycle = Rounds /\ step < (Chunks - 1) * Cycle ->
         DigestOf(state) \o Chunk(m, step \div Cycle + 1)
    [] OTHER -> DigestOf(state) \o Zeroes(RateWidth)

(* A round, a chunk of the message to feed, or nothing after the last.     *)
HashStep(step, m, state) ==
  CASE step % Cycle < Rounds -> ApplyRound(state, step)
    [] step % Cycle = Rounds /\ step < Chunks * Cycle ->
         DigestOf(state) \o Chunk(m, step \div Cycle)
    [] OTHER -> DigestOf(state) \o Zeroes(RateWidth)

(* The first word feeds one bit less.  Mutant: as many as the others.      *)
WordFedAligned(bitsFed) == bitsFed \div WordBits
WordFed(bitsFed) == IF bitsFed < WordBits - 1 THEN 0
                    ELSE (bitsFed - (WordBits - 1)) \div WordBits + 1

(* The highest bits first.  Mutant: the lowest.                            *)
FedBitsReversed(bitsFed, lanes) ==
  [lanes EXCEPT !.sG.bit = ScalarBit(signature.s, bitsFed),
                !.hP.bit = HashBit(h, bitsFed)]

FedBits(bitsFed, lanes) ==
  LET k == BitLength - 1 - bitsFed
  IN [lanes EXCEPT !.sG.bit = ScalarBit(signature.s, k),
                   !.hP.bit = HashBit(h, k)]

DoublingStep(bitsFed, r) ==
  [r EXCEPT !.sG = ApplyPointDoubling(@),
            !.hP = ApplyPointDoubling(@),
            !.limbs[4 - WordFed(bitsFed)] = (2 * @ + r.hP.bit) % P]

AdditionStep(r) ==
  [r EXCEPT !.sG = ApplyPointAdditionMixed(@, G),
            !.hP = ApplyPointAdditionMixed(@, KeyOf(message))]

(* R, with its x made affine.                                              *)
FinalStep(r) ==
  LET sum == ApplyPointAddition([r.sG EXCEPT !.bit = 1], r.hP.point)
      x == MulFp6(sum.point.x, InvertFp6(sum.point.z))
  IN [r EXCEPT !.sG = [sum EXCEPT !.point.x = x]]

(* update_sig_verification_state                                           *)
UpdateRow(step, r) ==
  LET hashed == IF step < TotalHashLength
                THEN [r EXCEPT !.hash = HashStep(step, message, @)] ELSE r
      fed == FedBits(step \div 2, hashed)
  IN CASE step < ScalarMulLength /\ step % 2 = 0 -> DoublingStep(step \div 2, fed)
       [] step < ScalarMulLength /\ step % 2 = 1 -> AdditionStep(fed)
       [] step = ScalarMulLength -> FinalStep(hashed)
       [] OTHER -> hashed

-----------------------------------------------------------------------------
(* periodic_columns                                                        *)
GlobalMask(g) == g <= ScalarMulLength
DoublingMask(g) == g < ScalarMulLength /\ g % 2 = 0
AdditionMask(g) == g < ScalarMulLength /\ g % 2 = 1
FinalMask(g) == g = ScalarMulLength
HashMask(g) == g < TotalHashLength /\ g % Cycle < Rounds
LimbStart(i) == IF i = 0 THEN 0 ELSE 2 * (WordBits * i - 1)
LimbMask(g, i) == LimbStart(i) <= g /\ g < LimbStart(i + 1)

(* The registers of a chunk are zero but on the rows that feed one.        *)
InternalInputs(m, g) ==
  IF g % Cycle = Rounds /\ g < Chunks * Cycle THEN Chunk(m, g \div Cycle)
  ELSE Zeroes(RateWidth)

DigestMatches(cur) == \A i \in 1 .. 4 : cur.limbs[i] = cur.hash[i]

(* Mutant: a chunk of any message will do.                                 *)
EnforceHashCopyLoose(cur, next, inputs) == DigestOf(next) = DigestOf(cur)
EnforceHashCopy(cur, next, inputs) == next = DigestOf(cur) \o inputs

LimbsHold(g, cur, next) ==
  \A i \in 0 .. 3 :
    next.limbs[4 - i] = IF LimbMask(g, i)
                        THEN (2 * cur.limbs[4 - i] + next.hP.bit) % P
                        ELSE cur.limbs[4 - i]

(* evaluate_constraints, with the columns of a message                     *)
TransitionHolds(g, cur, next, m) ==
  /\ DoublingMask(g) => /\ EnforcePointDoubling(cur.sG, next.sG)
                        /\ EnforcePointDoubling(cur.hP, next.hP)
                        /\ LimbsHold(g, cur, next)
  /\ AdditionMask(g) => /\ EnforcePointAdditionMixed(cur.sG, next.sG, G)
                        /\ EnforcePointAdditionMixed(cur.hP, next.hP, KeyOf(m))
                        /\ next.limbs = cur.limbs
  /\ HashMask(g) => EnforceRound(cur.hash, next.hash, g)
  /\ GlobalMask(g) /\ ~HashMask(g)
       => EnforceHashCopy(cur.hash, next.hash, InternalInputs(m, g))
  /\ FinalMask(g) => /\ EnforcePointAdditionReduceX(cur.sG.point, next.sG.point,
                                                    cur.hP.point)
                     /\ DigestMatches(cur)

(* get_assertions.  The last of the hash registers is asserted nowhere.    *)
FirstAsserted(r, x) ==
  /\ r.sG = StartLane /\ r.hP = StartLane /\ r.limbs = Zeroes(4)
  /\ SubSeq(r.hash, 1, 6) = x
  /\ SubSeq(r.hash, 7, 13) = Zeroes(RateWidth)
LastAsserted(r, x) == r.sG.point.x = x

-----------------------------------------------------------------------------
(* A message the key in it signs, or any pair of a signature's parts.      *)
Signed(m) ==
  {Sign(m, Logarithm(KeyOf(m)), r) : r \in 0 .. (Q - 1)}
Signatures(m) == Signed(m) \cup [x : Abscissas, s : Scalars]

(* PublicInputs, what a verifier is told of one signature.                 *)
PublicInputs == [message : Messages, x : Abscissas \cup {signature.x}]

Init == /\ message \in Messages
        /\ signature \in Signatures(message)
        /\ h = HashMessage(signature.x, message)
        /\ row = 0
        /\ regs = FirstRow(signature.x)
        /\ convinced = {p \in PublicInputs : FirstAsserted(regs, p.x)}

Update == /\ row + 1 \in Rows
          /\ row' = row + 1
          /\ regs' = UpdateRow(row, regs)
          /\ convinced' =
               {p \in convinced : TransitionHolds(row, regs, regs', p.message)}
          /\ UNCHANGED <<message, signature, h>>

(* The fragment is filled.                                                 *)
Filled == row + 1 \notin Rows /\ UNCHANGED vars

Next == Update \/ Filled
Spec == Init /\ [][Next]_vars

-----------------------------------------------------------------------------
TypeOK == /\ row \in Rows
          /\ h \in Digests
          /\ regs.sG \in Lane
          /\ regs.hP \in Lane
          /\ regs.limbs \in [1 .. 4 -> Field]
          /\ regs.hash \in HashState

(* A number without the bits still to come, doubled when the last of them  *)
(* is not added yet.                                                       *)
Fed(number) ==
  LET top == number \div Pow2[BitLength - (row + 1) \div 2]
  IN IF row % 2 = 1 THEN top - (top % 2) ELSE top

(* The lanes are the multiples of G and of the key by the bits fed so far, *)
(* also where a double or a sum meets the point at infinity, two equal or  *)
(* two opposite points (trace.rs 73-107, ecc.rs 186-404).                  *)
PointsAreMultiples ==
  row <= ScalarMulLength =>
    /\ Represents(regs.sG.point, Fed(signature.s))
    /\ Represents(regs.hP.point, Fed(HashNumber(h)) * Logarithm(KeyOf(message)))

(* The state hashes to h while the words are still being fed from it, each *)
(* word in its register from its first bit on, and h stays for the row     *)
(* that compares them (trace.rs 50-70, 77-96, air.rs 367-372, 519-530).    *)
LimbsFollowHash ==
  /\ row >= TotalHashLength => regs.hash = h \o Zeroes(RateWidth)
  /\ \A i \in 1 .. 4 :
       LET left == BitLength - (row + 1) \div 2 - WordBits * (i - 1)
       IN regs.limbs[i] = IF left >= WordBits THEN 0
                          ELSE h[i] \div Pow2[IF left < 0 THEN 0 ELSE left]

(* The builder's rows obey the constraints of its own message, from the    *)
(* first row to the sum whose x is divided by a z that may be zero         *)
(* (trace.rs 38-125, air.rs 394-531).                                      *)
TraceObeysConstraints ==
  [message |-> message, x |-> signature.x] \in convinced

(* A signature that sign makes is verified, whatever scalar it draws       *)
(* (mod.rs 105-126, the assertion of the example).                         *)
SignedVerifies ==
  (row = 0 /\ signature \in Signed(message))
    => VerifySignature(message, signature)

(* A trace convinces a verifier exactly when it was told the same message  *)
(* and x(R), and the signature is one verify_signature takes: the trace    *)
(* ends at x(R) of the code outside of it, and the columns of another      *)
(* message never fit (air.rs 111-300, mod.rs 183-190 and 220-245).         *)
Accepted == {p \in convinced : LastAsserted(regs, p.x)}

AcceptedIffVerified ==
  row = ScalarMulLength + 1 =>
    Accepted = {p \in {[message |-> message, x |-> signature.x]} :
                  VerifySignature(message, signature)}
=============================================================================
