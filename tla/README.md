# TLA+ models of certificate-stark

`certificate-stark` proves, with the winterfell STARK library, that a batch of
transfers between the accounts of a Merkle tree is correct: every transfer is
signed by its sender, moves no more than the sender has, and turns the root of
one tree into the root of the next. This directory holds TLA+ models of it, the
TLC runs that check them on small instances, and theorems checked by TLAPS.

Paths below are relative to the crate's own `src/` directory.

## 1. The system

A batch goes through four stages.

    TransactionMetadata::build_random      the witness: accounts, paths, roots,
             |                             amounts, signatures
             v
    trace builders (prover.rs, trace.rs)   one trace fragment per transaction,
             |                             filled row by row
             v
    winterfell prover / verifier           commits to the trace, checks it
             ^
             |
    constraints (air.rs)                   what two neighbouring rows, and the
                                           first and last row, must satisfy

The builders and the constraints are two programs written separately, which
have to agree on every row. What the verifier learns is only what the
constraints say. So each subsystem raises two questions: *does the trace of the
builder obey the constraints* (completeness), and *what does any trace that
obeys them attest* (soundness). The models keep the two apart for this reason.

### Components

| component | code | state | operations | made correct by |
|---|---|---|---|---|
| metadata builder | `lib.rs` | a tree of accounts, vectors of roots, paths, old values, amounts, signatures | `build_random`: open senders, open receivers, apply transfers, sign; `new` asserts the lengths | values and tree agree; the two paths of a transfer meet at one intermediate root; no debit underflows; signatures verify on what was recorded |
| merkle/update | `merkle/update/` | 65 registers: two lanes (old state, index bit, new state) and a root | first row, next row, fragments, patch of row 1; constraints; assertions | rows across and within fragments obey the constraints; the root register follows a tree only transfers change |
| merkle/init | `merkle/init/` | four hash states | first row from the values of two accounts, 15 rounds; constraints, assertions on row 0 | the states hold the leaves before and after the transfer |
| range | `range/` | bit, accumulator | double and add; constraints; assertions | the accumulator stands for a 63-bit integer |
| schnorr | `schnorr/` | two projective points, a bit each, four limbs, a hash state | `sign`, `verify_signature`; scalar multiplications, hashing of the message, final addition; constraints, assertions | the lanes are multiples of G and of the key; the words are those of the hash; the verifier accepts what `verify_signature` does |
| utils/rescue | `utils/rescue.rs` | a sponge of 14 elements | `merge`, `update`, `finalize`, `apply_round`, `enforce_round` | a round is the same in both directions |
| utils/ecc | `utils/ecc.rs` | projective points over Fp6 | doubling, addition, mixed addition and their constraints | the formulas are the curve's |
| utils | `utils/mod.rs`, `utils/periodic_columns.rs`, `utils/field.rs` | none | stitch, fill, pad; `agg_constraint`; `is_binary`, `not` | masks have the right length and rows |
| composed program | `air.rs`, `prover.rs`, `trace.rs`, `constants.rs` | 94 registers shared by the above over 1024 rows | setup, Merkle update, signature and range proofs; copies in between | registers and results do not collide; inputs of each part are tied to the parts before |
| `TransactionExample` and examples | `lib.rs`, `*/mod.rs` | options, public inputs | `prove`, `verify` | right public inputs |
| winterfell | external | trace table, Merkle tree | `prove`, `update_leaf`, fragments, verifier | external |
| benchmarks, example program, tests | `benches`, `examples`, `*/tests.rs` | none | drivers | -- |

### How they interact, and what is hard

* `build_random` mutates one tree and one vector of accounts while it records;
  slots drawn twice, slots that are receiver in one transfer and sender in the
  next, and sibling slots are what makes its record hard to get right. It is
  sequential, with one unbounded loop (a receiver equal to the sender is drawn
  again) and one panic (the sender's balance is zero).
* With the feature `concurrent` the fragments of a trace are filled by
  concurrent workers. They share no memory; each starts from the *recorded*
  root, so the rows where two fragments meet depend on the record, not on what
  the neighbouring worker wrote. One patch of row 1 runs after they have joined.
* The composed program multiplexes registers and constraint results. Which
  constraint is active on a row is decided by masks assembled from three
  sub-programs by appending, filling and padding; an index off by one enables a
  constraint on a row the builder does not serve, or frees a register.
* Arithmetic is modulo p, with 2^62 < p < 2^63, while amounts are drawn with
  `u64` bounds.
* The points of a signature are added and doubled by complete formulas in
  projective coordinates, from the point at infinity on, with bits of a hash that
  is not reduced; outside of the trace a library does the same in its own way.
  Only at the end do both say something about one x coordinate.
* Nothing is persisted and no messages are exchanged: there is no crash
  recovery, no retry and no timeout to model.

The full list, line by line, is `hazards` in PROJECT.json.

## 2. Modules

### Ledger, TxMetadata, MCTxMetadata, TxMetadataProofs

`Ledger` is the abstract specification: accounts are opened, then a fixed number
of transfers moves field elements between them. It knows no tree, path or
signature.

`TxMetadata` is `TransactionMetadata::build_random`. `phase` says which loop runs
and each loop body is one action:

| action | code |
|---|---|
| `FillSender` | first loop: a slot, and a fresh key, balance and nonce for it; key, value and leaf are replaced together |
| `DrawReceiver`, `PickReceiver` | second loop: one draw of the slot; the end of the body, which opens an account if the slot holds none |
| `ApplyTransaction` | third loop: the bound on delta, the sender's path, both values, both leaves, the receiver's path, the root recorded |
| `PanicOnEmptySender` | the remainder by zero in the third loop |
| `TakeFinalRoot` | after the third loop |
| `SignTransaction` | fourth loop: the message of the recorded old values, signed with the recorded key |
| `Construct` | the length assertions of `new` |

Hashes are free terms: a leaf stands for the value it commits to, a root for the
function from slots to leaves, and a path for the leaf it starts at and all
leaves beside it. A key is its own public key; a signature names key and
message. Random scalars are assumed not to collide: `CreateAccount` draws a key
no slot holds.

Every name below is a definition in the module.

* `TypeOK`, `Schedule`: types, and each loop leaves to the next exactly what it
  should have produced.
* `TreeInSync`: values, keys and leaves of all slots agree.
* `WitnessChain`: for each recorded transfer the sender's path leads from the
  old root through the old leaf and from the intermediate root through the new
  one, and the receiver's path from the intermediate root to the next root.
* `SignaturesVerify`, `MessagesDistinct`: each signature verifies under the
  sender's recorded address; no two messages of a batch are equal
  (needs fewer transactions than p, since the nonce wraps).
* `SenderNeverUnderflows`, `FundsConserved`, `PanicExplained`: debits are exact
  over the integers; total funds are conserved modulo p from the first transfer
  on; the call aborts only for a sender with nothing.
* `ImplementsLedger`, `CallEnds`: refinement of `Ledger`; the call returns or
  panics.

### Powers, RangeProof, RangeProofProofs

One row is a bit and an accumulator. `BuilderInit` and `Update` are the builder
(`range/prover.rs`, `utils/field.rs`); `ProverInit` and `ProverStep` write any row
the constraints of `range/air.rs` let follow the last; `honest` says which of the
two fills the trace. `Pow2` (module `Powers`) is a recursive function rather than
an operator `^`, so that the proofs can unfold it. Properties: `BuilderPrefix`
(on each row the accumulator is the number without the bits still to come),
`BuilderObeysConstraints`, and `AttestsBits` (after k rows, a trace the
constraints accept accumulates the residue of a k-bit integer).

### RescueCluster, MerkleTree

`RescueCluster` is a hash state as a term: two halves, and the list of round
constants applied since it was written. The two halves of a permuted state are
terms over that record, so two states are equal exactly when their inputs and
rounds are: the permutation has no collision, on either half, at any round.
A round in the builder and a round enforced by a constraint take their constants
from separate counters (`step` of the fragment, row of the trace), and the term
records which. `MerkleTree` is winterfell's tree as used: nodes by level and
the path of a leaf.

### MerkleUpdateRows, TransferBatch, MerkleUpdate, MerkleUpdateAir (with MC and proof modules)

`TransferBatch` is what a trace takes of a `TransactionMetadata`: the recorded
roots, values, indices, paths and amounts of a chain of transfers.

`MerkleUpdateRows` has what one step of the builder writes (`trace.rs`) and what
two neighbouring rows must satisfy (`air.rs`).

`MerkleUpdate` is `MerkleProver::build_trace`: `InitFragment(n)` and
`UpdateFragment(n)` write the first and the next row of
fragment n, fragments advance in any order, and `PatchBits` overwrites the index
bits of row 1 after all are full. `TraceObeysConstraints` quantifies over all
neighbouring rows written so far, across fragments too; `PathsMeetRoots` and
`PublicInputsMatch` relate the rows to the recorded roots; `TraceCompletes` is
liveness.

`MerkleUpdateAir` turns the question round: a prover writes, row after row,
anything the constraints allow, from sets of values, siblings and bits. Ghost
variables read off the rows which leaf the sender's and receiver's lanes claim
to change. `RootTracksTree`: the root register is always the root of the ghost
tree. `AttestsTransfer` (an action property): what a finish row does to that
tree is a transfer: one leaf is debited and its nonce incremented, another is
credited the same amount. Sender and receiver may coincide and the amount may be
any field element, as far as these constraints go.

### MerkleInit, MCMerkleInit

The program of `merkle/init/` by itself, over the terms of `RescueCluster`:
`InitTrace` and `Update` fill the 16 rows, `Asserted` is the row
`get_assertions` asks for, `TransitionHolds` the round on every row, and
`ExampleAccepted` that the verifier of `PreMerkleExample` accepts the trace. It
does for the repository's own inputs, which are zero, and for no sender with a
balance or a nonce; see the divergences below.

### Tower, Curve, Rescue

The arithmetic of the code over a small prime field, in its order of steps.

* `Tower`: Fp2 and Fp6 (`utils/ecc.rs` 406-648), where Fp6 is laid flat as in the
  registers.
* `Curve`: the three formulas, how the trace applies them and how the constraints
  enforce them. The code writes the sum and the mixed sum out twice;
  `SumOfProducts` is what both end in.
* `Rescue`: a round forwards (`ApplyRound`), a round as two sides that meet in
  its middle (`EnforceRound`), the permutation, the absorbing hasher and `merge`.
  The matrices, the round constants and the exponent that undoes cubing are
  constants; the assumptions say that they undo each other.

### Schnorr, SchnorrTrace, MCSchnorrTrace

`Schnorr` is `schnorr/mod.rs`: `Sign`, `VerifySignature` and `HashMessage`. Points
of the library are their logarithms to the base of G; `Multiples` ties these to
coordinates, and `GroupAssumption` says, with tangents and chords and a product
defined without the code's shortcuts, that they are the multiples of a point of
order Q: each is on the curve and has a y other than zero, the one of Q - k is the
opposite of that of k, the tangent in k leads to 2k, and the chord through any two
unequal multiples k and m that are not opposite leads to k + m.

`SchnorrTrace` is the trace of one signature. Fragments of several signatures
share nothing and the constraints are off on the row between them
(`GlobalMask`). `Update` fills the next row; `HashStep`, `DoublingStep`,
`AdditionStep` and `FinalStep` are the branches of
`update_sig_verification_state`. `convinced` is the set of public inputs (a
message and an x) under which all assertions and constraints up to the row hold,
so that one trace is checked against every claim at once.

* `PointsAreMultiples`: on every row the lanes are the multiples of G and of the
  key by the bits fed so far, whatever the formulas meet on the way: infinity
  doubled and added to, two equal points, two opposite ones, the zero scalar.
* `LimbsFollowHash`: the words of h are complete before they are fed, stay for
  the row that compares them, and each is rebuilt in its own register from its
  first bit on, with one bit less in the first.
* `TraceObeysConstraints`: completeness, for bad signatures too.
* `SignedVerifies`: what `sign` makes `verify_signature` takes, whatever scalar is
  drawn, 0 included.
* `AcceptedIffVerified`: a trace of the builder convinces a verifier exactly of
  its own message and x, and only if `verify_signature` holds.

`Represents` says a projective point is a multiple of G. `GroupLaws` says the three
formulas add and double what their inputs represent, and section 4 proves it
(`SchnorrFormulasAdd`). `LawsAssumption` of the MC module makes TLC evaluate it once more,
on 21 points: infinity with three values of y and every multiple of G with three of z. That Fp6
multiplies and divides is proved as well.

### TransactionTrace, MCTransactionTrace, TransactionTraceProofs

The composed program with values: `InitFragment` and `UpdateFragment` fill the
fragments in any order, a row being the registers of the Merkle update, the
copies, and in the second half the message hash and the two range proofs laid
over the lanes. `TxTransitionHolds` is `air.rs` on two rows, with the masks by
row number, over `MerkleUpdateRows` for the first half. The points and words of
the signature are left to `SchnorrTrace`: their registers meet the rest only
through the key, the message and the hash.

* `ExampleVerifies`: the whole trace meets the constraints, within fragments and
  across, and its public inputs are those `TransactionExample::verify` passes.
* `RangesMeetCopies`: the two debug assertions of `trace.rs`.
* `MessageHashed`: what is hashed in the trace is the signed message.

### PeriodicColumns, TransactionLayout, TransactionColumns, TransactionRows, TransactionSlots, TransactionSlotsProofs

These are the composed program with the constants of the code (1024 rows, both
tree depths the build has, 15 and, under test, 3). Values are left out: what is
modelled is *which* operation happens to *which* registers on which row.

* `PeriodicColumns`: a mask is a length and the set of rows where it is one;
  stitch, fill, pad as in `utils/periodic_columns.rs`.
* `TransactionColumns`: the masks of the three sub-programs and their assembly
  in `air.rs`.
* `TransactionLayout`: register and result intervals.
* `TransactionRows`: one action, `NextRow`, with the builder's operations on a
  row (`BuilderOps`, from `trace.rs` and `schnorr/trace.rs`) and the
  constraints' (`EnforcedOps`, from the masks). `rate`, `bound`, `loaded` and
  `unchecked` accumulate over rows what the hash is fed with, which registers
  are tied by constraints to the first row or the public roots, which scalar bit
  is loaded, and which bits no constraint has found binary.
* `TransactionSlots`: the intervals of the result array each constraint is added
  to on a row.

Properties: `MasksFollowBuilder` (on each row the masks enable the constraints
of what the builder does), `RegistersKeptApart`, `InputsTied`,
`UncheckedAtMostLast`, `RateFollowsMasks`, `BodySlotsExclusive`,
`SlotsDeclared`.

## 3. Runs

Every run takes less than a minute; the bounds are the constants in the `.cfg`.

| run | what it shows | instance |
|---|---|---|
| `tx_metadata` | `build_random` for every way to draw the accounts: safety, `Ledger`, termination | 3 slots, 2 transactions, p = 5, words 0 and 9, 3 keys; 101 thousand states |
| `tx_metadata_overflow` | *violation*: a credit may wrap | two slots, one transaction |
| `range` | the builder's rows for every number, and every trace the constraints admit | p = 37, 7 rows; 6290 states |
| `merkle_update` | two chained transfers, fragments filled in every order | depth 2, 2 rounds per hash, 9 rows per transaction, p = 5; 29 thousand states |
| `merkle_air` | every trace of two transactions over four leaves | depth 2, 12 rows per transaction, p = 2; 203 thousand states |
| `merkle_init` | *violation*: the sender's leaf is not the one hashed | the code's 16 rows, p = 97 |
| `schnorr` | every row of the verification of 42 signatures of three messages | p = 41, 3 rounds, 7-bit words, 56 rows, G of order 7; 2352 states |
| `transaction_trace` | two composed transactions, fragments filled in every order | depth 1, 2 rounds, 36 rows per transaction, p = 65521; 44 thousand states |
| `transaction_rows` | all rows of a transaction of the composed program | the code's constants, both depths; 2048 states |
| `transaction_keys` | *violation*: the keys are read after their copies stop | same |
| `transaction_ranges` | *violation*: sigma is never compared | same |
| `transaction_tail_slots` | *violation*: result indices overlap | same |

### Why the bounds are enough

* **Metadata.** Three slots and two transfers give every relation two transfers
  can have (same pair, reversed pair, shared sender, shared receiver, chained,
  sibling slots). The words drawn are zero (an empty sender, a zero nonce) and
  9, which is p - 1 once reduced (a nonce and a balance about to wrap);
  `MaxU64` is 19 for p = 5, close to four moduli like `u64::MAX` in the code. The
  theorems have no such bounds and ask only that it exceeds 2p.
* **Range.** The code has 64 rows, 63 bits and 2^62 < p < 2^63. The instance has
  7 rows, 6 bits and 2^5 < 37 < 2^6: the bits reach past the modulus in the same
  way. The theorems below lift the bounds altogether.
* **Merkle update.** Depth 2 is the least where a path has an inner node and two
  slots may or may not share a parent. Two rounds in cycles of three keep the
  three kinds of row (first round, last round, insertion) apart, and
  `TxLength` = 9 leaves a row without hashing at the end of a transaction, as
  512 does in the code. Two transactions are needed for a border of fragments.
* **Soundness of the Merkle constraints.** A prover may write any of the values
  and siblings of `MCMerkleUpdateAir`, in every position, and bits 0, 1 and 2.
  The siblings include every digest of the trees before and after a sender's
  update, and digests of no tree, so that a wrong path can be tried at each
  level. `TxLength` = 12 leaves three free rows before the next transaction.
* **Schnorr.** A word is two bits longer than a number just below p, as 64 bits
  are for 2^62 < p < 2^63; 56 rows hold 27 bits of each scalar and five hashes of
  three rounds, in the order 510, 255, 40 of the code. Scalars are far longer
  than the order of G, so that the lanes run through infinity, equal and opposite
  points many times; the signatures include all that `sign` can make and pairs
  that are none, with x zero and s zero among them. Two messages have different
  keys, and two differ in their last element only.
* **Composed trace.** 36 rows are two halves of 18, the first with one level of
  path, the second with five hashes of two rounds and 16 bits of range in the
  code's order (hashes end, ranges end, half ends). One path level is enough here, since the climb
  is `merkle_update`'s subject. The balances are chosen so that sigma has its top
  bits set, that a credit reaches p exactly and that the sender's nonce wraps.
* **Leaf hashes.** The code's lengths.
* **Composed rows.** No reduction: constants, masks and indices are the
  code's.

### Fairness

`build_random` is one sequential call, so `CallEnds` assumes weak fairness of
its whole next-state relation. The redraw of a receiver equal to the sender
changes no variable of the model, so that it is a stuttering step; weak
fairness then also says that a random draw from more than one slot finds
another in the end, which is true with probability one and not for a fixed
random source. `TraceCompletes` assumes weak fairness of the worker of each
fragment (rayon runs every item of `for_each` to its end; without `concurrent`
a loop does) and of the patch that follows the join. The liveness properties
are stated for these specifications only, and every other property for
specifications without fairness.

The self-loops `Ended`, `Filled`, `Built` and `Stop` stand for the end of a call
or of a trace, so that deadlock checking stays on: any other state without a
successor is reported. In `MerkleUpdateAir`, `Stop` is enabled everywhere, since
a prover may always fail to find a next row.

### Where the code differs from what it says

Five runs state a comment of the repository and find it violated; each is an
entry of `findings` with the lines quoted.

* `ReceiverNeverOverflows` (`lib.rs` 353-354 on the bound of delta): the bound
  subtracts the receiver's balance from `u64::MAX`, not from the modulus, so a
  credit can wrap. `FundsConserved` still holds modulo p.
* `KeyTied` (`air.rs` 506, "for the remainder of the transaction"): the copy mask
  ends with the range proof on row 576; the sender's key is read by additions
  until row 1021.
* `BothRangesCompared` (`air.rs` 599, `constants.rs` 67): both final constraints
  of the range proofs compare delta; sigma's accumulator is compared with
  nothing.
* `TailSlotsExclusive` (`constants.rs` 55-68): result indices from
  `SENDER_KEY_POINT_RES` on are two apart for constraints 7 and 12 wide.

* `ExampleAccepted` (`merkle/init/trace.rs` 23-29, "Sender's initial state in the
  initial merkle tree ... then the coins... and the nonce"): the balance and the
  nonce are written to the updated state, where they are overwritten, so the
  initial state has zeroes. The standalone program holds only for the zero inputs
  of its example; `merkle/update` and the composed program fill these registers
  by other code and are not concerned.

Observed while modelling and kept here without a run:

* `merkle/update/air.rs` 272 compares the two lanes one round before the
  intermediate root is computed. Under the idealised hash (no collision at any
  round, at least two rounds) the comparison still implies equal roots, which is
  why `AttestsTransfer` holds; with a single round it would compare raw inputs,
  hence the assumption `Rounds > 1`.
* 63 bits reach past the modulus, so every field element, -3 included, has an
  accepted trace, while `range/tests.rs` 64-73 expects a panic. `AttestsBits`
  says exactly what an accepted trace means.
* The composed program has no constraint that fixes the range accumulators where
  they start, on row 512; the stand-alone program asserts it on its first row.
* The bit loaded by the last doubling of a scalar multiplication is added on
  row 1021 and no later doubling checks it; `UncheckedAtMostLast` is the part
  that does hold.
* On the setup row the indices of `merkle::init` are shifted by 1 and 2 against
  those of `merkle::update`, so that first rounds of different registers are
  summed. `BodySlotsExclusive` therefore leaves the setup row out.
* `air.rs` 178-182 asserts two of the seven registers of each public root, the
  Merkle program all seven. `AssertedRoot` records it.
* `constants.rs` 50 and 63 call the nonce copy the sender's *updated* nonce; trace,
  constraint and message all take the old one (`ExampleVerifies` would fail with
  the new one).
* `schnorr/air.rs` 205-212 asserts 13 of the 14 first hash registers; the last may
  start anywhere. The composed program asserts none, on row 512.
* The scalar s is a public input that no assertion reads; it is bound only as what
  makes the points end at x(R).
* Where R is the point at infinity the final constraint reads 0 = 0 and lets x be
  anything; the builder's x is then zero, and so is the library's, so that
  `AcceptedIffVerified` covers it for the builder's traces.
* `Rescue63::update` and `finalize` are not called in the crate; `digest` repeats
  them. `Hash::to_bytes` would read past its array and is not called either.

## 4. Theorems

Every theorem is checked by TLAPS to the last leaf and holds for all values of
the constants that satisfy the named assumptions; TLC evaluates the assumptions
on the instances of section 3. `theorems` in PROJECT.json lists them.

| proof module | about | theorems |
|---|---|---|
| `NaturalLemmas` | induction, recursion, powers of two, division, halving, vectors | lemmas only |
| `RangeProofProofs` | `RangeProof` | all four properties of the run `range` |
| `TxMetadataProofs` | `TxMetadata`, `Ledger` | all properties of `tx_metadata` but `CallEnds` |
| `TransferBatchProofs` | `RescueCluster`, `MerkleTree`, `MerkleUpdateRows`, `TransferBatch` | lemmas only |
| `MerkleUpdateProofs` | `MerkleUpdate`, `MerkleUpdateAir` | all properties of `merkle_update` but `TraceCompletes`, all of `merkle_air` |
| `TransactionTraceProofs` | `TransactionTrace` | all properties of `transaction_trace` |
| `TransactionSlotsProofs` | `TransactionColumns`, `TransactionRows`, `TransactionSlots` | all properties of `transaction_rows` |
| `SchnorrTraceProofs` | `Tower`, `Curve`, `Rescue`, `Schnorr`, `SchnorrTrace` | all properties of `schnorr`; `MulFp6IsProduct`, `InvertFp6Inverts`, `EnforcedRoundIsApplied`, `SchnorrFormulasAdd`, `SchnorrOnlyOwnInputs`, `SchnorrSumDecides` |

### Assumptions, and why the code meets them

* `TxMetadata`: `WidthAssumption` (p > 1, `u64::MAX` > 2p, random words are `u64`:
  p is below 2^63); `TreeAssumption` (the tree is finite); `NonceAssumption` (no
  more transactions than p: a batch is a vector in memory); `BatchAssumption` (at
  least one); `IdentityAssumption`, `EmptyAssumption` (the placeholders are no
  key, no slot and no value).
* `RangeProof`: `ModulusAssumption` (0 and 1 are the only idempotents: p is prime);
  `RangeAssumption`; `WidthAssumption` (p < 2^(RangeLog - 1), in the code
  p < 2^63).
* `RescueCluster`, `MerkleTree`, `MerkleUpdateRows`: `CycleAssumption` (a cycle has
  one row more than rounds, and more than one round: 8 and 7); `DepthAssumption`;
  `FieldAssumption`; `LengthAssumption` (the hashes fit a transaction, whose rows
  are whole cycles); `BatchAssumption` (at least one transaction).
* `TransferBatch`: `GenesisAssumption` and `DeltasAssumption`
  (the values and amounts of a batch are field elements).
* `MerkleUpdateAir`: `ValueAssumption`, `TreesAssumption`. `Siblings`
  and `Bits`, what the prover writes, are arbitrary.
* `TransactionTrace`: `RowsAssumption` (the code's 512, 120, 40 and 64 rows in this
  order; in particular the range proofs end before the half does) and
  `ModulusAssumption` (p < 2^RangeLog: 64 bits).
* `TransactionColumns`: `DepthsAssumption` (every depth is positive and its hashing is
  shorter than half a transaction: 15 and 3 in the code's builds, up to 63 fit). Everything
  else in the modules over it is a constant of the code, a number.
* `Tower`: `FieldAssumption` (every element but 0 has an inverse: p is prime).
  `Curve`: `CurveAssumption` (B3 is an element of Fp6); `RootAssumption` (the
  polynomials of the tower, u^2 - 2u - 2 over the base field and v^3 + v + 1 over Fp2,
  have no roots there: without that Fp6 would not be a field and `invert_fp6` not an
  inverse). TLC checks it for the instance's p; for the code's p,
  4719772409484279809, it is arithmetic on 63-bit numbers: 3 is no square modulo p and
  v^3 + v + 1 is irreducible.
* `Rescue`: `CycleAssumption`, `ArkAssumption` (sizes and entries of the constants);
  `MdsAssumption` (the two matrices undo each other, from both sides);
  `AlphaAssumption` (raising to `INV_ALPHA` undoes cubing, from both sides).
* `Schnorr`: `WordAssumption` (p has one bit less than a word: 63 and 64);
  `LengthAssumption` (the hash ends before the scalar multiplications do, and the
  rows are whole cycles); `MessageAssumption` (a message is 28 elements and starts
  with a key); `SignatureAssumption` (scalars are residues below Q, and Q has no more bits
  than a lane is fed, 255); `GroupAssumption` (the order Q is odd and above 3, and the
  multiples of G are related by tangents and chords as section 3 says). This is what
  "k times G" means for a point of odd order: it is stated with the equation of the curve
  and with products of polynomials, never with a formula of `utils/ecc.rs`. That chords and
  tangents make a group at all, associativity above everything, is taken from it and not
  proved; TLC evaluates it for all pairs of multiples of the instance.

### Arguments

**Induction and recursion** (`NaturalLemmas`). The provers cannot instantiate the
library's induction theorems, which take an operator. `SetInduction` states
induction for a *set* of numbers instead, by the least element of its complement
(`LeastNatural`), and `Recursion` shows that a function defined by its first value
and a step exists and obeys its equation; `SubsetRecursion` and `SubsetInduction`
do the same along the subsets of a finite set. With these, what `Pow2`, the nodes
of a tree, the chain of transfers of a batch, the digests of a message and the
fold behind `TotalFunds` compute is proved for all inputs.

**Metadata builder.**

* `TypeCorrect`, `BuilderTyped`: the types alone are not inductive: that the slots
  used in the third loop were drawn, and that the vectors have the right lengths,
  depends on what the earlier loops completed. `TypedSchedule`, the conjunction
  with `Schedule`, is.
* `TreeAlwaysInSync`, `WitnessExplainsChain`, `NoUnderflow`,
  `SignaturesAlwaysVerify`: from one invariant, `Sound`. That a recorded path
  belongs to the recorded old value needs `TreeInSync`; that the receiver's path,
  taken after both leaves changed, shows the sender's new leaf needs that the two
  slots differ; that a signature verifies needs that the copied key is the one
  behind the recorded address (`KeysMatch`), true because tree and keys are in
  sync when it is copied. `DeltaSmall` bounds the amount drawn.
* `MessagesAlwaysDistinct`: `Fresh` adds to `Sound` that no two slots share a key
  (`KeysDistinct`) and that, for every recorded transaction, the nonce of its
  sender has since moved on by at least one step and by no more than there were
  transactions since (`NonceMoved`). The nonce is reduced modulo p, so this needs
  `NonceAssumption`.
* `PanicAlwaysExplained`: `Accounted` says of each slot that it holds a coin
  (`Solvent`), or was empty when it first took part in a transfer, or had its
  balance wrapped by a credit. A sender keeps at least one coin because
  the draw is below its balance.
* `FundsAlwaysConserved`: a debit and a credit change partial sums over subsets of
  the slots (`Partial`); the sum over all of them is the fold of the property
  (`TotalIsPartial`), and the two changes cancel modulo p (`PartialShift`).
* `BuilderImplementsLedger`: the builder's steps map to steps of `Ledger` or to
  stutters, under `book`, `running` and `applied` as defined in `TxMetadata`.

**Range proof.** `Inv` says, for the builder, that bits are binary and the accumulator
is the number shifted right by the bits to come, and for any prover that the
accumulator is the residue of an integer of as many bits as there were rows. The
builder's step rests on `HalfQuotient`, the prover's on `ModDoubleAdd`, that
doubling and adding commutes with the reduction; that a bit the constraints
accept is binary is where primality enters.

**Merkle update, builder's side.** Each register of row k of a transaction has a closed
form: `LaneAt` is what a lane holds after k steps of climbing from a leaf (the digest
of the node above the leaf, in round k mod Cycle), `RowIs` the whole row in terms of the
accounts before the transfer and the move. `RowBegins`, `RowUpdated` and `RowObeys`
show that the builder writes this row and that two such rows obey the constraints;
`LanesMeet` that the sender's new lane and the receiver's old lane reach one
intermediate root, because the receiver's path is the one after the debit. The
invariant of `MerkleUpdateProofs` is only that every row written so far of every
fragment has its closed form for *some* chain of transfers, the one in the batch
(`BatchRecords`), which no order of filling fragments can disturb; rows that meet
across a border (`BorderObeys`) follow from the chain of recorded roots. From it:
`FragmentsTyped`, `TraceAlwaysObeys`, `PathsAlwaysMeet`, `PublicInputsAlwaysMatch`.

**Merkle update, any prover.** `Opens` says of a lane at level l that *if* its old
digest is the node of a tree above some slot, then the leaf there is the one the lane
started from, and its new digest is the node after that leaf alone is replaced: the
soundness of a Merkle path. `OpensLeaf`, `OpensAbove` and `OpensRoot` carry it from leaf
to root; `LaneClimbs` shows the rows do, whatever sibling and bit the prover inserts. The
invariant `AirInv` ties both lanes to ghost leaves by `Opens`, and the leaves to one
another by what the setup constraints force (`Related`, which `RelatedTransfers` turns
into a debit and a credit of one amount). On the finish row the equality of
the two middle digests, compared one round early, closes the argument
(`FinishTransfers`). From it: `AirTyped`, `RootAlwaysTracksTree`, and
`TransfersAlwaysAttested`, for any number of transactions and any depth.

**Composed trace.** The first half of a transaction reuses `RowIs`; the copies are constant
on all rows; in the second half `SigAt` gives the hash state (`HashOf`, over the digests of
the message's chunks) and both accumulators (`RangeOf`). `TxRowUpdated` shows the builder
writes these rows, `TxRowObeys` that they obey the constraints row by row, and
`TxBorderObeys` that nothing but the Merkle constraints relates the last row of a
transaction to the first of the next, since no mask of the second half is on there. From the
same kind of invariant as for the Merkle trace: `ExampleAlwaysVerifies`,
`RangesAlwaysMeetCopies`, `MessageAlwaysHashed`.

**Masks, registers and results.** `MerkleMasks` and `SignatureMasks` bring each column, as
it is stitched, filled and padded, into closed form: the rows of a transaction where it is
one, as a condition on the row and on the step of the signature. From it `MerkleRow`,
`StartRow` and `SignatureRow` compare, operation by operation, what the masks of a row
enforce with what the builder performs there, in the three phases of a transaction. They
need no history, but the other properties do: `RowInv` says that from the row on that
follows the last iteration of the hash the rate is zero, that the copies are tied up to the
row after the range proofs, and that `loaded` is the bit the last doubling loaded and the
only one that may be unchecked. It is inductive as it stands: `RowInvInit`, `RowInvNext`. That operations of one row are
kept apart is shown by naming, for a step and a register, the one operation that writes it
(`WriterAt`); that results are, by naming for a row and a result the one group of
constraints it belongs to (`MerkleOwner`, `SignatureOwner`, by `MerkleOwned` and
`SignatureOwned`), while the tail lies past all of them (`TailApart`). From it:
`RowsTyped`, `MasksAlwaysFollow`, `RateAlwaysFollows`, `RegistersAlwaysApart`,
`InputsAlwaysTied`, `BitsCheckedButLast`, `BodySlotsAlwaysExclusive`,
`SlotsAlwaysDeclared`, for every depth of the tree that fits.

**Signature trace.** `Typed` says the registers have their types and the signature and
its hash belong to the message; every formula of `Tower`, `Curve` and `Rescue` keeps
its type (`Fp6Typed`, `SumsTyped`, `RoundTyped`), and so does each branch of the update
(`UpdatedTyped`). From it alone:
`SchnorrTyped`, and, by arithmetic modulo Q (`SumOfScalars`), `SchnorrSignedVerifies`.

`Follows` gives the hash registers of row n in closed form (`StateOn`: the state of
chunk n div Cycle after n mod Cycle rounds) and says that each word's register holds the
bits fed so far (`Top`). `StateFollows` carries the first from row to row, across the rows
that take a new chunk and past the last of them; `LimbsFollow` the second, with one bit
less in the first word: four words of w bits and 4w - 1 doublings. That the accumulated bits
stay below p, so that doubling modulo p is exact, is `WordAssumption`. From it:
`SchnorrLimbsFollowHash`.

`EnforcedRoundIsApplied` is about the code's trick of checking a round in its middle: the
first half forwards from one row equals the second half backwards from the next. Each
layer is undone by its inverse (`LayersUndo`, `SumsUndo`); for the matrices this is that a
product with the identity is the vector itself, which needs sums of 14 products to be
exchanged and reduced modulo p (`SumSwaps`, `MatricesUndo`). It holds in both directions:
the builder's rows pass, and a prover has no other.

`SchnorrOnlyOwnInputs` is what of `TraceObeysConstraints` and `AcceptedIffVerified` does not
depend on the curve. `BitsKept` says a bit loaded by a doubling is still there when the
sum uses it; with `Follows` each of the code's constraints is then met on every row up to
the one that adds the lanes (`StepObeys`, over `HashObeys`, `DoubledObeys`,
`MixedObeys` and the word and digest constraints), so a trace is never refused its own
inputs (`OwnConvincedInvariant`). Conversely an input that still agrees has the trace's x,
and the chunk of every cycle that has ended (`Agreeing`): `EnforceHashCopy` compares the
new half of the state with the chunk, so after the fourth cycle the whole message is fixed
(`ChunksTell`). `SchnorrSumDecides` adds the last row: the words meet the digest there
(`WordsMeetDigest`), so that whether the verifier accepts is one question about two numbers,
whether the x it was told times the z of the sum is the sum's x.

The arithmetic of Fp6 is proved to be that of a field. `Lifts6` relates an element to any
six integers it is the residue of; sums, `MulFp2` and `MulFp6` take such integers to
polynomials in them (`LiftsMul`), and so does the reference product (`LiftsProduct`). What
is left of `MulFp6IsProduct`, of associativity (`MulAssociates`) and of the claim that an
element times the cofactors that `invert_fp6` computes is its norm are identities of
integer polynomials, which the SMT solver decides. That the norm of an element other than
zero is not zero is another matter: if it were, the element would divide zero, v^3 + v + 1
would have a root in Fp2 or u^2 - 2u - 2 one in the field (`NormNotZero`, by
`RootAssumption`). Then `InvertFp6Inverts` follows with the inverse of the base field.

`SchnorrFormulasAdd` says that the three formulas double and add what points represent,
whatever their z, with no exception for infinity, equal or opposite points. A modulus is in
the way of an identity of polynomials, so elements are lifted to six integers each, for
which `\oplus`, `\ominus`, `\odot` and `\otimes` obey the laws of a ring exactly
(`TimesCommutes`, `TimesDistributes`, `TimesSwaps`). The equation of the curve enters as a
line: if y = l.x + c meets the curve in two points (`Meets`; `TangentMeets`, `ChordMeets`
from `GroupAssumption`), then the coefficients of the equation, 1 and B3, are polynomials in
l, c and the two x (`LiftsLine`), and so is everything the formulas compute. With these the
sum by the formulas is a multiple of the point opposite to the third one on the line
(`SumOnLine`, `ThirdOfLine`), which `GroupAssumption` says is the next multiple of G. That
the multiple is not zero needs a second line: the sum of k and m is that of k and the
opposite of Q - m, and along the chord through k and Q - m its z is the cube of the
difference of their x times the y of a third point (`SumAcrossLine`), none of them zero
(`ChordAdds`). Doubling has z = 8y^3 (`AffineDoubles`, `TangentAdds`), which is not zero
as neither 2 nor 3 is (`TwoAndThree`, by `RootAssumption`); opposite points and infinity have no line and are computed
(`OppositesAdd`, `ZeroAdds`). Other values of z scale the result (`AddScales`,
`DoubleScales`), and the mixed sum is the sum with a z of one (`MixedIsAdd`).

With that, the *trace* uses the formulas rightly. The
four words of h are one number below 2^(4w - 1), whose bits are those that are fed
(`WordsMakeNumber`), although it is never reduced modulo Q; a doubling and a sum take a lane
from the bits fed so far to one more (`FedSteps`), which
keeps `PointsAreMultiples` (`StepPoints`). So the sum of the lanes is s + h.L times G, L the
key's logarithm. Its x is divided by a z that is zero exactly at infinity, where quotient and
product are both zero (`QuotientIsAbscissa`): `SchnorrTraceObeys`. `verify_signature`
reduces the hash first and reaches the same point (`ReducedOrNot`):
`SchnorrAcceptedIffVerified`.

### What the proofs showed about the models

* `RowsAssumption` once allowed range proofs as long as half a transaction. Then the
  copy mask would reach the last row and force the next transaction's copies to equal the
  last one's: `TxBorderObeys` is false. The code's 64 is far below 512.
* `HashStep` was a `CASE` with overlapping guards, which leaves open which branch
  is taken; the code's order of tests makes the first one win, and the definition now
  says so.
* The assumptions on the matrices and the exponent were one-sided. To run half a round
  backwards and then forwards again needs the other side too; the code's comments
  promise inverses, and TLC now checks both products on the instance.
* `AttestsTransfer` applies the credit to the tree *after* the debit, which
  matters when a prover names one leaf twice; the property says so by nesting the two.

* Two definitions of `TransactionRows` applied `UNION` to a set without parentheses before
  another operator, which the two tools read differently; they are now unambiguous.

### Only model-checked

* Liveness under fairness (`CallEnds`, `TraceCompletes`): out of the provers' reach, as is
  ENABLED.
* That the multiples of G exist: chords and tangents through them meet further multiples
  (`GroupAssumption`), which rests on the associativity of the group of an elliptic curve.
* The violations of section 3, which are refuted and not proved.

## 5. Idealisations

* Hash functions have no collisions, and neither has either half of a partially
  permuted state, in `RescueCluster` and the modules over it; signatures are free
  terms in `TxMetadata`. `Rescue` and `SchnorrTrace` compute instead, over a small
  field where collisions exist but are not met in the instance.
* What the polynomial commitments of winterfell guarantee is taken as: the
  verifier accepts only traces whose rows satisfy constraints and assertions.
* `bound` in `TransactionRows` takes each constraint to have a result of its own;
  what sharing a result weakens is the subject of `TransactionSlots`.
* `MessagesDistinct` is about batches shorter than p.
* `SchnorrTrace` tells the verifier one signature at a time. Points are the multiples of
  G: a point outside of their group is neither a key nor an x(R); the curve of the
  instance is one with a point of order 7.
* Random draws are nondeterministic choices from small sets.

## 6. Not modelled

`PROJECT.json` lists the status of each component. Left out for good:
benchmarks and drivers, proof options and logging, serialisation, the declared
degrees of the constraints (they are the prover's, not the program's, and no
property of a trace depends on them), and the STARK itself. The examples are
modelled as far as the public inputs they pass. The numbers of `GENERATOR`, `B3`,
`MDS`, `INV_MDS` and `ARK` are parameters: that the code's own matrices undo each
other and that its generator has the order of the scalar field is arithmetic on
63-bit numbers, beyond TLC's integers.

Not modelled yet: what *any* composed trace attests, beyond the Merkle part
(`MerkleUpdateAir`) and the ties of `TransactionRows`. Register values a prover
may choose in the second half are too many to enumerate; the ties say which of
them are free.

## 7. Plan

1. *Done*: `TxMetadata` with `Ledger` and proofs; `RangeProof` with proofs; the
   Merkle update from both sides; the rows, registers and results of the
   composed program; `MerkleInit`; the arithmetic of the curve and of Rescue;
   `Schnorr` and its trace; the composed trace with values.
2. *Done*: theorems for every safety property of the runs `tx_metadata`, `range`,
   `merkle_update`, `merkle_air`, `transaction_trace`, `transaction_rows` and
   `schnorr`. That Fp6 is a field and that the formulas of the curve add is proved.
