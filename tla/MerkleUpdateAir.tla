-------------------------- MODULE MerkleUpdateAir --------------------------
(***************************************************************************)
(* What the constraints of merkle/update/air.rs attest.  A prover writes   *)
(* row after row whatever the constraints let it write, and commits to the *)
(* trace by its first and last root.  tree, sender and receiver are ghosts *)
(* that read the meaning off the rows.                                     *)
(***************************************************************************)
EXTENDS MerkleUpdateRows

CONSTANTS Value,    \* the values a prover may claim
          Trees,    \* the trees the first root may commit to, as values
          Siblings, \* Siblings[k]: the digests a prover may insert on level k
          Bits      \* what a prover may write as an index bit

ASSUME ValueAssumption == \A v \in Value : IsValue(v)
ASSUME TreesAssumption == Trees \subseteq [Index -> Value]

VARIABLES row,      \* the row of the trace
          regs,     \* its registers
          tree,     \* ghost: the values under the last root
          sender,   \* ghost: [index, old, new] read off the sender's lane
          receiver  \* ghost: the same of the receiver's

airVars == <<row, regs, tree, sender, receiver>>

Rows == 0 .. (NumTx * TxLength - 1)
Step == row % TxLength

(* The row a transaction starts on may hold any values.                    *)
Claim(s, r, root) ==
  [s |-> [old |-> Load(s.old), bit |-> 0, new |-> Load(s.new)],
   r |-> [old |-> Load(r.old), bit |-> 0, new |-> Load(r.new)],
   root |-> root]
Claimed == [index : {0}, old : Value, new : Value]

AirInit == /\ row = 0
           /\ tree \in Trees
           /\ sender \in Claimed
           /\ receiver \in Claimed
           /\ regs = Claim(sender, receiver, Root(Committed(tree)))

-----------------------------------------------------------------------------
(* What a prover may try to write: an untouched or a permuted state on a   *)
(* row that hashes, a digest beside a sibling on a row that inserts.       *)
Written(c) ==
  IF InputMask(row)
  THEN LET nodes == Siblings[Step \div Cycle]
       IN {Fresh(First(c), x) : x \in nodes}
            \cup {Fresh(x, First(c)) : x \in nodes}
  ELSE {c, ApplyRound(c, row)}

WrittenLane(lane) ==
  {l \in [old : Written(lane.old), bit : IF InputMask(row) THEN Bits ELSE {0},
          new : Written(lane.new)] : LaneHolds(row, lane, l)}

Climb(opened, lane) ==
  IF InputMask(row)
  THEN [opened EXCEPT !.index = @ + lane.bit * Pow2[Step \div Cycle]]
  ELSE opened

Advance == row + 1 \in Rows /\ row' = row + 1

(* A row of the hashes.  On the last one the root may change.              *)
HashRow ==
  /\ Step < HashLength
  /\ Advance
  /\ \E s \in WrittenLane(regs.s), r \in WrittenLane(regs.r) :
       \E root \in {regs.root, First(r.new)} :
         regs' = [s |-> s, r |-> r, root |-> root]
  /\ TransitionHolds(row, regs, regs')
  /\ sender' = Climb(sender, regs'.s)
  /\ receiver' = Climb(receiver, regs'.r)
  /\ tree' = IF FinishMask(row)
             THEN [tree EXCEPT ![sender.index] = sender.new,
                               ![receiver.index] = receiver.new]
             ELSE tree

(* Past the hashes the lanes are free until the next transaction starts.   *)
FreeRow ==
  /\ Step \in HashLength .. (TxLength - 2)
  /\ Advance
  /\ \E root \in {regs.root, First(regs.s.new)} :
       regs' = [regs EXCEPT !.root = root]
  /\ TransitionHolds(row, regs, regs')
  /\ UNCHANGED <<tree, sender, receiver>>

StartRow ==
  /\ Step = TxLength - 1
  /\ Advance
  /\ sender' \in Claimed
  /\ receiver' \in Claimed
  /\ \E root \in {regs.root, First(regs.s.new)} :
       regs' = Claim(sender', receiver', root)
  /\ TransitionHolds(row, regs, regs')
  /\ UNCHANGED tree

(* The trace is complete, or no row obeys the constraints: no proof.       *)
Stop == UNCHANGED airVars

AirNext == HashRow \/ FreeRow \/ StartRow \/ Stop

AirSpec == AirInit /\ [][AirNext]_airVars

-----------------------------------------------------------------------------
Opening == [index : Index, old : Value, new : Value]

AirTypeOK == /\ row \in Rows
             /\ tree \in [Index -> Value]
             /\ sender \in Opening
             /\ receiver \in Opening

(* Between transactions the root register commits to the values reached by *)
(* the transfers so far: the public final root is that of a tree nobody    *)
(* but the transfers changed (merkle/update/air.rs 148-172, 245-288).      *)
RootTracksTree == regs.root = Root(Committed(tree))

(* Every change a trace makes to the tree is a transfer: the old values    *)
(* were in the tree, the receiver's below the sender's update, and as much *)
(* leaves one as reaches the other.  Sender and receiver may be the same   *)
(* and the amount is any field element: those are excluded elsewhere.      *)
AttestsTransfer ==
  [][FinishMask(row) =>
       \E s, r \in Index, d \in Field :
         LET debited == [tree EXCEPT ![s] = Debit(@, d)]
         IN tree' = [debited EXCEPT ![r] = Credit(@, d)]]_airVars
=============================================================================
