----------------------------- MODULE RangeProof -----------------------------
(***************************************************************************)
(* The range proof (range/, utils/field.rs): a number is rebuilt from its  *)
(* bits, the most significant first, one bit per row.  The rows are filled *)
(* by the trace builder for a given number, or by a prover that writes     *)
(* whatever the constraints on consecutive rows let it write.              *)
(***************************************************************************)
EXTENDS Powers

CONSTANTS P,        \* the modulus of BaseElement
          RangeLog  \* RANGE_LOG, also the number of rows

(* P is prime: only 0 and 1 are their own squares.                         *)
ASSUME ModulusAssumption ==
  /\ P \in Nat /\ P > 2
  /\ \A b \in 0 .. (P - 1) : (b * b - b) % P = 0 => b \in {0, 1}
ASSUME RangeAssumption == RangeLog \in Nat /\ RangeLog > 1
(* A field element has one bit fewer than there are rows: p < 2^63.        *)
ASSUME WidthAssumption == P < Pow2[RangeLog - 1]

VARIABLES honest, \* whether the builder fills the rows, or some prover
          number, \* the number to prove
          row,    \* the row of the trace
          bit,    \* register 0
          acc     \* register 1

vars == <<honest, number, row, bit, acc>>

Field == 0 .. (P - 1)

(* Mutants: the bit before, and the bits above left in.                    *)
BitAbove(value, k) == (value \div (2 * Pow2[k])) % 2
BitUnmasked(value, k) == value \div Pow2[k]

Bit(value, k) == (value \div Pow2[k]) % 2
LastRow == RangeLog - 1

(* build_trace passes range_log - 1 as the number of bits.                 *)
Width == RangeLog - 1

BuilderInit == /\ honest = TRUE
               /\ number \in Field
               /\ row = 0
               /\ bit = 0
               /\ acc = 0

DoubleAndAdd(value, b) == (2 * value + b) % P

(* Mutant: one row too many.                                               *)
UpdatePastEnd == /\ honest
                 /\ row <= LastRow
                 /\ UNCHANGED <<honest, number, bit, acc>>
                 /\ row' = row + 1

Update == /\ honest
          /\ row < LastRow
          /\ IF row < Width
             THEN /\ bit' = Bit(number, Width - 1 - row)
                  /\ acc' = DoubleAndAdd(acc, bit')
             ELSE UNCHANGED <<bit, acc>>
          /\ row' = row + 1
          /\ UNCHANGED <<honest, number>>

-----------------------------------------------------------------------------
(* Mutant: the bit is not checked to be binary.                            *)
ConstraintsAnyBit == acc' = DoubleAndAdd(acc, bit')

(* enforce_double_and_add_step, and the assertions on the first and the    *)
(* last row.                                                               *)
Constraints == /\ acc' = DoubleAndAdd(acc, bit')
               /\ (bit' * bit' - bit') % P = 0

FirstRow == acc = 0
Accepted == row = LastRow /\ acc = number

(* A prover may write any field elements that obey the constraints.        *)
ProverInit == /\ honest = FALSE
              /\ number \in Field
              /\ row = 0
              /\ bit \in Field
              /\ acc \in Field
              /\ FirstRow

ProverStep == /\ ~honest
              /\ row < LastRow
              /\ bit' \in Field
              /\ acc' \in Field
              /\ Constraints
              /\ row' = row + 1
              /\ UNCHANGED <<honest, number>>

(* The trace is complete.                                                  *)
Filled == row = LastRow /\ UNCHANGED vars

Init == BuilderInit \/ ProverInit
Next == Update \/ ProverStep \/ Filled
Spec == Init /\ [][Next]_vars

-----------------------------------------------------------------------------
TypeOK == /\ honest \in BOOLEAN
          /\ number \in Field
          /\ row \in 0 .. LastRow
          /\ bit \in Field
          /\ acc \in Field

(* The builder's accumulator is the number without the bits still to come, *)
(* so that a complete trace ends at the number although the last bit fed   *)
(* is bit 0 and the first is bit range_log - 2 (range/prover.rs 24-44).    *)
BuilderPrefix == honest => acc = number \div Pow2[Width - row]

(* Every row the builder writes satisfies the constraints.                 *)
BuilderObeysConstraints == [][honest /\ row' # row => Constraints]_vars

(* After k rows an accumulator that obeys the constraints stands for an    *)
(* integer of k bits: this, and no more, is what an accepted proof attests *)
(* (range/air.rs 78-98).                                                   *)
AttestsBits == \E v \in 0 .. (Pow2[row] - 1) : acc = v % P
=============================================================================
