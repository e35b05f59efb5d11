------------------------------- MODULE Rescue -------------------------------
(***************************************************************************)
(* The hash (utils/rescue.rs): the rounds of the permutation as the trace  *)
(* applies them and as the constraints check them, and the digests.        *)
(***************************************************************************)
EXTENDS Tower

CONSTANTS Rounds,    \* NUM_HASH_ROUNDS
          Cycle,     \* HASH_CYCLE_LENGTH
          InvAlpha,  \* INV_ALPHA, the exponent that undoes cubing
          MDS,       \* MDS[i], a row of the matrix
          INV_MDS,   \* INV_MDS[i], a row of its inverse
          ARK        \* ARK[step], the constants of both halves of a round

StateWidth == 14
RateWidth == 7
Width == 1 .. StateWidth
HashState == [Width -> Field]
Digests == [1 .. RateWidth -> Field]

(* One row of each cycle is left for the next input.                       *)
ASSUME CycleAssumption == Rounds \in Nat \ {0} /\ Cycle = Rounds + 1

ASSUME ArkAssumption ==
  ARK \in [0 .. (Cycle - 1) -> [1 .. 2 * StateWidth -> Field]]

Dot(u, v) ==
  (u[1] * v[1] + u[2] * v[2] + u[3] * v[3] + u[4] * v[4] + u[5] * v[5]
    + u[6] * v[6] + u[7] * v[7] + u[8] * v[8] + u[9] * v[9] + u[10] * v[10]
    + u[11] * v[11] + u[12] * v[12] + u[13] * v[13] + u[14] * v[14]) % P

Column(matrix, j) == [k \in Width |-> matrix[k][j]]

(* The matrices undo each other.                                           *)
ASSUME MdsAssumption ==
  /\ MDS \in [Width -> HashState] /\ INV_MDS \in [Width -> HashState]
  /\ \A i, j \in Width :
       /\ Dot(MDS[i], Column(INV_MDS, j)) = IF i = j THEN 1 ELSE 0
       /\ Dot(INV_MDS[i], Column(MDS, j)) = IF i = j THEN 1 ELSE 0

Power(a, n) ==
  LET power[k \in 0 .. n] == IF k = 0 THEN 1 ELSE (a * power[k - 1]) % P
  IN power[n]
CubeRoot == [a \in Field |-> Power(a, InvAlpha)]

Cube(a) == (a * a * a) % P

(* So do cubing and InvAlpha.                                              *)
ASSUME AlphaAssumption ==
  /\ InvAlpha \in Nat
  /\ \A a \in Field : Cube(CubeRoot[a]) = a /\ CubeRoot[Cube(a)] = a

ApplySbox(state) == [i \in Width |-> Cube(state[i])]
ApplyInvSbox(state) == [i \in Width |-> CubeRoot[state[i]]]
ApplyMds(state) == [i \in Width |-> Dot(MDS[i], state)]
ApplyInvMds(state) == [i \in Width |-> Dot(INV_MDS[i], state)]

(* The constants of the first and of the second half of a round.           *)
FirstArk(step) == SubSeq(ARK[step % Cycle], 1, StateWidth)
SecondArk(step) == SubSeq(ARK[step % Cycle], StateWidth + 1, 2 * StateWidth)

ApplyRound(state, step) ==
  LET half == Add(ApplyMds(ApplySbox(state)), FirstArk(step))
  IN Add(ApplyMds(ApplyInvSbox(half)), SecondArk(step))

(* The two sides of a round meet in its middle.                            *)
EnforceRound(cur, next, step) ==
  ApplySbox(ApplyInvMds(Sub(next, SecondArk(step))))
    = Add(ApplyMds(ApplySbox(cur)), FirstArk(step))

(* A function, so that its argument is computed once.                      *)
ApplyPermutation ==
  [state \in HashState |->
    LET round[i \in 0 .. Rounds] ==
          IF i = 0 THEN state
          ELSE SubSeq(ApplyRound(round[i - 1], i - 1), 1, StateWidth)
    IN round[Rounds]]

Zeroes(n) == [i \in 1 .. n |-> 0]
DigestOf(state) == SubSeq(state, 1, RateWidth)

(* Rescue63: elements are added to the first half, which is permuted each  *)
(* time it is full.  A short last block is filled with nothing.  digest    *)
(* does the same in one call.                                              *)
New == [state |-> Zeroes(StateWidth), idx |-> 0]

Absorb(hasher, data) ==
  LET fed[k \in 0 .. Len(data)] ==
        IF k = 0 THEN hasher
        ELSE LET h == fed[k - 1]
                 added == [h.state EXCEPT ![h.idx + 1] = (@ + data[k]) % P]
             IN IF h.idx + 1 = RateWidth
                THEN [state |-> ApplyPermutation[added], idx |-> 0]
                ELSE [state |-> added, idx |-> h.idx + 1]
  IN fed[Len(data)]

Finalize(hasher) ==
  DigestOf(IF hasher.idx > 0 THEN ApplyPermutation[hasher.state]
           ELSE hasher.state)

Digest(data) == Finalize(Absorb(New, data))

Merge(a, b) == DigestOf(ApplyPermutation[a \o b])
=============================================================================
