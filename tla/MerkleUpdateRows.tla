-------------------------- MODULE MerkleUpdateRows --------------------------
(***************************************************************************)
(* The rows of the Merkle update trace (merkle/update/): how the builder   *)
(* computes the next row (trace.rs) and what the constraints require of    *)
(* two consecutive rows (air.rs).                                          *)
(*                                                                         *)
(* A row is [s, r, root]: the sender's and the receiver's lane and the     *)
(* registers from PREV_TREE_ROOT_POS.  A lane is [old, bit, new]: the hash *)
(* states that climb from the old and from the new leaf, and the index bit *)
(* between them.                                                           *)
(***************************************************************************)
EXTENDS MerkleTree

CONSTANTS P,         \* the modulus of BaseElement
          TxLength,  \* TRANSACTION_CYCLE_LENGTH
          NumTx      \* the number of transactions of the trace

HashLength == Cycle * Depth + Rounds

ASSUME FieldAssumption == P \in Nat /\ P > 1
ASSUME LengthAssumption ==
  TxLength \in Nat /\ TxLength > HashLength /\ TxLength % Cycle = 0
ASSUME BatchAssumption == NumTx \in Nat \ {0}

Field == 0 .. (P - 1)
IsValue(v) == v \in [pkey : {v.pkey}, balance : Field, nonce : Field]

(* A value of 14 elements in the two halves of a state: the key covers the *)
(* first half and a part of the second.                                    *)
Load(value) == Fresh([lowKey |-> value.pkey],
                     [highKey |-> value.pkey, balance |-> value.balance,
                      nonce |-> value.nonce])
Leaf(value) == Merge(Load(value).fst, Load(value).snd)
Committed(values) == [i \in Index |-> Leaf(values[i])]

(* init_merkle_update_state                                                *)
Debit(value, delta) == [value EXCEPT !.balance = (@ - delta) % P,
                                     !.nonce = (@ + 1) % P]
Credit(value, delta) == [value EXCEPT !.balance = (@ + delta) % P]

FirstRow(tx) ==
  [s |-> [old |-> Load(tx.sOld), bit |-> 0,
          new |-> Load(Debit(tx.sOld, tx.delta))],
   r |-> [old |-> Load(tx.rOld), bit |-> 0,
          new |-> Load(Credit(tx.rOld, tx.delta))],
   root |-> tx.root]

-----------------------------------------------------------------------------
(* Mutant: the higher bits left in.                                        *)
IndexBitUnmasked(index, level) == index \div Pow2[level]

(* update_merkle_update_auth_state: a round, or the next sibling beside    *)
(* the digest, on the side the index bit says.                             *)
IndexBit(index, level) == (index \div Pow2[level]) % 2

Insert(c, bit, node) == IF bit = 0 THEN Fresh(First(c), node)
                                   ELSE Fresh(node, First(c))

UpdateLane(step, index, path, lane) ==
  IF step % Cycle < Rounds
  THEN [lane EXCEPT !.old = ApplyRound(@, step), !.new = ApplyRound(@, step)]
  ELSE LET level == step \div Cycle
           bit == IndexBit(index, level)
           node == path[level + 1]
       IN [old |-> Insert(lane.old, bit, node), bit |-> bit,
           new |-> Insert(lane.new, bit, node)]

(* Mutants: the root left alone, and the root of the other lane.           *)
UpdateRowKeepsRoot(step, tx, row) ==
  IF step < HashLength
  THEN [s |-> UpdateLane(step, tx.sIndex, tx.sPath, row.s),
        r |-> UpdateLane(step, tx.rIndex, tx.rPath, row.r), root |-> row.root]
  ELSE row
UpdateRowSenderRoot(step, tx, row) ==
  LET updated == UpdateRowKeepsRoot(step, tx, row)
  IN IF step = HashLength - 1
     THEN [updated EXCEPT !.root = First(updated.s.new)] ELSE updated

(* update_merkle_update_state                                              *)
UpdateRow(step, tx, row) ==
  IF step < HashLength
  THEN LET s == UpdateLane(step, tx.sIndex, tx.sPath, row.s)
           r == UpdateLane(step, tx.rIndex, tx.rPath, row.r)
       IN [s |-> s, r |-> r,
           root |-> IF step = HashLength - 1 THEN First(r.new) ELSE row.root]
  ELSE row

-----------------------------------------------------------------------------
(* The masks of periodic_columns, at row g of the whole trace.             *)
SetupMask(g) == g % TxLength = 0
HashingMask(g) == g % TxLength < HashLength
InputMask(g) == g % Cycle = Cycle - 1
FinishMask(g) == g % TxLength = HashLength - 1
RoundMask(g) == HashingMask(g) /\ (g % TxLength) % Cycle < Rounds

(* evaluate_transition: the old and the new value of both accounts.        *)
SetupHolds(cur) ==
  LET sOld == cur.s.old  sNew == cur.s.new
      rOld == cur.r.old  rNew == cur.r.new
  IN /\ sOld.fst = sNew.fst /\ sOld.snd.highKey = sNew.snd.highKey
     /\ rOld.fst = rNew.fst /\ rOld.snd.highKey = rNew.snd.highKey
     /\ rOld.snd.nonce = rNew.snd.nonce
     /\ (sOld.snd.balance - sNew.snd.balance) % P
          = (rNew.snd.balance - rOld.snd.balance) % P
     /\ sNew.snd.nonce = (sOld.snd.nonce + 1) % P

(* Mutant: bits of any value.                                              *)
AnyBit(bit) == TRUE

(* evaluate_merkle_update_auth                                             *)
IsBinary(bit) == bit \in {0, 1}
RoundHolds(g, cur, next) == next = ApplyRound(cur, g)
CopyHolds(cur, next) == First(next) = First(cur)
InsertHolds(bit, cur, next) == IF bit = 0 THEN First(next) = First(cur)
                                          ELSE Second(next) = First(cur)
SameSibling(next) == IF next.bit = 0 THEN Second(next.new) = Second(next.old)
                                     ELSE First(next.new) = First(next.old)

LaneHolds(g, cur, next) ==
  /\ HashingMask(g) => IsBinary(next.bit)
  /\ \A c \in {"old", "new"} :
       /\ RoundMask(g) => RoundHolds(g, cur[c], next[c])
       /\ HashingMask(g) /\ ~RoundMask(g) /\ ~InputMask(g)
            => CopyHolds(cur[c], next[c])
       /\ HashingMask(g) /\ InputMask(g)
            => InsertHolds(next.bit, cur[c], next[c])
  /\ HashingMask(g) /\ InputMask(g) => SameSibling(next)

(* Mutants: a root free between the hashes, lanes that need not meet.      *)
RootHoldsAtFinish(g, cur, next) ==
  FinishMask(g) => /\ next.root = First(next.r.new)
                   /\ First(cur.s.new) = First(cur.r.old)
                   /\ First(next.s.old) = cur.root
RootHoldsApart(g, cur, next) ==
  IF FinishMask(g)
  THEN next.root = First(next.r.new) /\ First(next.s.old) = cur.root
  ELSE next.root = cur.root

(* evaluate_constraints: the lanes, then the roots.  The two lanes are     *)
(* compared on the current row, one round before their digests.            *)
RootHolds(g, cur, next) ==
  IF FinishMask(g)
  THEN /\ next.root = First(next.r.new)
       /\ First(cur.s.new) = First(cur.r.old)
       /\ First(next.s.old) = cur.root
  ELSE next.root = cur.root

TransitionHolds(g, cur, next) ==
  /\ SetupMask(g) => SetupHolds(cur)
  /\ LaneHolds(g, cur.s, next.s)
  /\ LaneHolds(g, cur.r, next.r)
  /\ RootHolds(g, cur, next)
=============================================================================
