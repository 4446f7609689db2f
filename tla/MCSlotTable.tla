----------------------------- MODULE MCSlotTable -----------------------------
(* Three partitions in a shard of three slots.  a and b hash to slot 1 and c *)
(* to slot 2, so that a probe is displaced, wraps around and meets a full    *)
(* shard.                                                                    *)
EXTENDS SlotTable, TLC

CONSTANTS a, b, c, t1, t2

MCPartitions == {a, b, c}
MCStart == a :> 1 @@ b :> 1 @@ c :> 2
MCHolders == {t1, t2}
HolderSymmetry == Permutations(MCHolders)
AllDroppable == MCPartitions
OneDroppable == {a}
=============================================================================
