----------------------------- MODULE MerkleInit -----------------------------
(***************************************************************************)
(* The program that proves the hashes of the four leaves of one transfer   *)
(* (merkle/init/), by itself: the rows its prover fills, its assertions    *)
(* and its constraints.  A row has the four hash states of SENDER_INITIAL, *)
(* SENDER_UPDATED, RECEIVER_INITIAL and RECEIVER_UPDATED.                  *)
(***************************************************************************)
EXTENDS RescueCluster

CONSTANTS P,           \* the modulus of BaseElement
          InitLength,  \* TRANSACTION_CYCLE_LENGTH of merkle::init
          Inputs       \* the s_inputs, r_inputs and delta of an example

VARIABLES inputs,  \* what prove and verify are called with
          rows     \* the rows of the trace filled so far

vars == <<inputs, rows>>

(* The registers of one value: 12 of its key, then balance and nonce.      *)
Registers(pkey, balance, nonce) ==
  Fresh([lowKey |-> pkey],
        [highKey |-> pkey, balance |-> balance % P, nonce |-> nonce % P])

(* init_merkle_initialization_state.  The sender's balance and nonce go to *)
(* SENDER_UPDATED_POS and are overwritten there; the registers they leave  *)
(* out keep the zeroes of a new trace.                                     *)
FirstRow(s, r, delta) ==
  [sOld |-> Registers(s.pkey, 0, 0),
   sNew |-> Registers(s.pkey, s.balance - delta, s.nonce + 1),
   rOld |-> Registers(r.pkey, r.balance, r.nonce),
   rNew |-> Registers(r.pkey, r.balance + delta, r.nonce)]

(* update_merkle_initialization_state                                      *)
UpdateRow(step, row) == [lane \in DOMAIN row |-> ApplyRound(row[lane], step)]

Init == inputs \in Inputs /\ rows = <<>>

InitTrace == /\ rows = <<>>
             /\ rows' = <<FirstRow(inputs.s, inputs.r, inputs.delta)>>
             /\ UNCHANGED inputs

Update == /\ rows # <<>>
          /\ Len(rows) < InitLength
          /\ rows' = Append(rows, UpdateRow(Len(rows) - 1, rows[Len(rows)]))
          /\ UNCHANGED inputs

Built == Len(rows) = InitLength /\ UNCHANGED vars

Next == InitTrace \/ Update \/ Built
Spec == Init /\ [][Next]_vars

-----------------------------------------------------------------------------
(* PreMerkleProver::get_pub_inputs, as values of 14 elements.              *)
ValueOf(c) == [pkey |-> c.fst.lowKey, balance |-> c.snd.balance,
               nonce |-> c.snd.nonce]
PublicInputs ==
  [s |-> ValueOf(rows[1].sOld), r |-> ValueOf(rows[1].rOld),
   delta |-> (rows[1].rNew.snd.balance - rows[1].rOld.snd.balance) % P]

(* PreMerkleAir::get_assertions, all of them on the first row.             *)
Asserted(pub) ==
  [sOld |-> Registers(pub.s.pkey, pub.s.balance, pub.s.nonce),
   sNew |-> Registers(pub.s.pkey, pub.s.balance - pub.delta, pub.s.nonce + 1),
   rOld |-> Registers(pub.r.pkey, pub.r.balance, pub.r.nonce),
   rNew |-> Registers(pub.r.pkey, pub.r.balance + pub.delta, pub.r.nonce)]

(* evaluate_constraints with the flag one: a round on every row.           *)
TransitionHolds(g) ==
  \A lane \in DOMAIN rows[g + 1] :
    rows[g + 2][lane] = ApplyRound(rows[g + 1][lane], g)

(* What PreMerkleExample::verify is given is what prove hashed.            *)
Accepted(pub) == /\ pub = PublicInputs
                 /\ rows[1] = Asserted(pub)
                 /\ \A g \in 0 .. (InitLength - 2) : TransitionHolds(g)

(* An example proves and verifies the leaves it was made for, whatever     *)
(* they are; the repository's only example has zeroes for both parties     *)
(* (merkle/init/mod.rs 66-115, trace.rs 23-37, tests.rs 11-16).            *)
ExampleAccepted == Len(rows) = InitLength => Accepted(inputs)
=============================================================================
