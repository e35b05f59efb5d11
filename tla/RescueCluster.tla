--------------------------- MODULE RescueCluster ---------------------------
(***************************************************************************)
(* A Rescue state of 14 registers (utils/rescue.rs) as the trace holds it: *)
(* two halves of 7 elements and the rounds applied to them since they were *)
(* written.  A half of a state under permutation is a term that names the  *)
(* inputs and the rounds, so it equals another only if those agree: the    *)
(* permutation has no collisions on either half.  A digest is the first    *)
(* half after all the rounds.                                              *)
(***************************************************************************)
EXTENDS Integers, Sequences

CONSTANTS Rounds,  \* NUM_HASH_ROUNDS
          Cycle    \* HASH_CYCLE_LENGTH

(* One row of each cycle is left for writing the next inputs.  A state     *)
(* compared one round early is then no raw input.                          *)
ASSUME CycleAssumption == Rounds \in Nat /\ Rounds > 1 /\ Cycle = Rounds + 1

Fresh(a, b) == [fst |-> a, snd |-> b, applied |-> <<>>]

(* apply_round at a step: the constants are those of ARK[step % Cycle].    *)
ApplyRound(c, step) == [c EXCEPT !.applied = Append(@, step % Cycle)]

First(c) == IF c.applied = <<>> THEN c.fst ELSE [half |-> c]
Second(c) == IF c.applied = <<>> THEN c.snd ELSE [rest |-> c]

(* apply_permutation numbers its rounds from 0.                            *)
Permuted(a, b) == [fst |-> a, snd |-> b,
                   applied |-> [i \in 1 .. Rounds |-> i - 1]]
Merge(a, b) == First(Permuted(a, b))
=============================================================================
