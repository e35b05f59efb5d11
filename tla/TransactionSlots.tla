-------------------------- MODULE TransactionSlots --------------------------
(***************************************************************************)
(* The results the composed constraints are aggregated in (air.rs,         *)
(* merkle/init/air.rs, merkle/update/air.rs, schnorr/air.rs, constants.rs).*)
(* agg_constraint adds to a slot, so two constraints active on one row     *)
(* with a common slot are only required to cancel.  A group is a name and  *)
(* its slots; alternatives an index bit selects between are one group.     *)
(***************************************************************************)
EXTENDS TransactionRows

Group(condition, name, slots) ==
  IF condition THEN {[name |-> name, slots |-> slots]} ELSE {}

(* merkle::init, with the shifted results, and the values of the accounts. *)
SetupGroups(g) ==
  LET on == On(mask.setup, g)
  IN Group(on, <<"init", "initSenderOld">>, Span(SenderPos, StateWidth))
     \cup Group(on, <<"init", "initSenderNew">>, Span(StateWidth, StateWidth))
     \cup Group(on, <<"init", "initReceiverOld">>, Span(ReceiverPos - 1, StateWidth))
     \cup Group(on, <<"init", "initReceiverNew">>,
                Span(ReceiverPos + StateWidth - 1, StateWidth))
     \cup Group(on, <<"body", "senderKeyKept">>, Span(ValueRes, AffineWidth))
     \cup Group(on, <<"body", "receiverKeyKept">>, Span(ValueRes + AffineWidth, AffineWidth))
     \cup Group(on, <<"body", "receiverNonce">>, {ValueRes + 2 * AffineWidth})
     \cup Group(on, <<"body", "balance">>, {BalanceRes})
     \cup Group(on, <<"body", "nonce">>, {NonceUpdateRes})

(* The copies, written on the setup row and kept on the copy rows.         *)
CopyGroups(g) ==
  LET on == On(mask.setup, g) \/ On(mask.copy, g)
  IN Group(on, <<"tail", "senderKeyCopy">>, Span(SenderKeyRes, AffineWidth))
     \cup Group(on, <<"tail", "receiverKeyCopy">>, Span(ReceiverKeyRes, AffineWidth))
     \cup Group(on, <<"tail", "deltaCopy">>, {DeltaCopyRes})
     \cup Group(on, <<"tail", "sigmaCopy">>, {SigmaCopyRes})
     \cup Group(on, <<"tail", "nonceCopy">>, {NonceCopyRes})

LaneGroups(g, lane, pos) ==
  LET insert == On(mask.merkle, g) /\ On(mask.input, g)
      new == pos + StateWidth + 1
  IN Group(On(mask.merkle, g), <<lane, "bit">>, {pos + StateWidth})
     \cup Group(On(mask.hash, g), <<lane, "oldRound">>, Span(pos, StateWidth))
     \cup Group(On(mask.hash, g), <<lane, "newRound">>, Span(new, StateWidth))
     \cup Group(insert, <<lane, "oldInsert">>, Span(pos, StateWidth))
     \cup Group(insert, <<lane, "newInsert">>, Span(new, StateWidth))

RootGroups(g) ==
  Group(TRUE, <<"body", "root">>, Span(RootPos, DigestWidth))
  \cup Group(On(mask.finish, g), <<"body", "intermediateRoot">>, Span(IntRootRes, DigestWidth))
  \cup Group(On(mask.finish, g), <<"tail", "rootMatch">>, Span(RootMatchRes, DigestWidth))

PointGroups(g, point, pos) ==
  Group(On(mask.doubling, g), <<point, "double">>, Span(pos, PointWidth))
  \cup Group(Addition(g), <<point, "add">>, Span(pos, PointWidth))

SignatureGroups(g) ==
  PointGroups(g, "S", 0) \cup PointGroups(g, "hP", PointWidth)
  \cup Group(On(mask.doubling, g), <<"body", "limbs">>, Span(LimbPos, 4))
  \cup Group(Addition(g), <<"body", "limbsKept">>, Span(LimbPos, 4))
  \cup Group(On(mask.sigHash, g), <<"body", "sigRound">>, Span(HashPos, StateWidth))
  \cup Group(CopyHash(g), <<"body", "sigCopy">>, Span(HashPos, StateWidth))
  \cup Group(FinalAddition(g), <<"body", "finalAdd">>, Span(0, ProjectiveWidth))
  \cup Group(FinalAddition(g), <<"body", "digest">>, Span(LimbPos, 4))

RangeGroups(g) ==
  Group(On(mask.range, g), <<"body", "deltaRange">>, {DeltaBitPos, DeltaAccPos})
  \cup Group(On(mask.range, g), <<"body", "sigmaRange">>, {SigmaBitPos, SigmaAccPos})
  \cup Group(On(mask.rangeFinish, g), <<"tail", "deltaCompared">>, {DeltaRangeRes})
  \cup Group(On(mask.rangeFinish, g), <<"tail", "sigmaCompared">>, {SigmaRangeRes})

Active(g) ==
  SetupGroups(g) \cup CopyGroups(g)
    \cup LaneGroups(g, "sender", SenderPos)
    \cup LaneGroups(g, "receiver", ReceiverPos)
    \cup RootGroups(g) \cup SignatureGroups(g) \cup RangeGroups(g)

Clash(a, b) == a # b /\ a.slots \cap b.slots # {}

(* The groups placed from PREV_TREE_MATCH_RES on.                          *)
InTail(group) == group.name[1] = "tail"

(* Past the setup row, no constraint of the paths, the roots, the points,  *)
(* the hash or the range steps shares a slot with another on the same row, *)
(* though three programs overlay their results (air.rs 383-610).           *)
BodySlotsExclusive ==
  ~On(mask.setup, row) =>
    \A a, b \in Active(row) :
      Clash(a, b) => InTail(a) /\ InTail(b)

(* The comments at constants.rs 55-68: each result index belongs to one    *)
(* constraint.                                                             *)
TailSlotsExclusive ==
  \A a, b \in Active(row) :
    Clash(a, b) => ~(InTail(a) /\ InTail(b))

(* A slot is only ever used within the results the degrees are declared    *)
(* for: transition_constraint_degrees of the Merkle update, then one per   *)
(* index from SENDER_KEY_POINT_RES to SIGMA_RANGE_RES (air.rs 76-104).     *)
DeclaredResultsShort == RootMatchRes + SigmaRangeRes - SenderKeyRes + 1 \* a mutant
DeclaredResults == RootMatchRes + DigestWidth + SigmaRangeRes - SenderKeyRes + 1
SlotsDeclared ==
  \A a \in Active(row) : a.slots \subseteq 0 .. (DeclaredResults - 1)
=============================================================================
