------------------------ MODULE MCLiquidityMiningV2 ------------------------
(***************************************************************************)
(* Small instances of LiquidityMiningV2.  Contracts that are paused or in  *)
(* emergency mode, or whose epochs have been topped up, are followed until *)
(* DisturbedTime; the others, those that were paused for a while included, *)
(* until all rewards have vested.                                          *)
(***************************************************************************)
EXTENDS LiquidityMiningV2, TLC

CONSTANT DisturbedTime    \* bound on block.timestamp

Disturbed == status # "live" \/ \E e \in Epoch : totalRewards[e] \notin Reward \cup {0}

MCNext == Next /\ (Disturbed' => now' <= DisturbedTime)

MCSpec == Init /\ [][MCNext]_vars

Users == Permutations(User)
=============================================================================
