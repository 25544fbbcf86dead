-------------------------- MODULE MCRewardManager --------------------------
(* Small instances of RewardManager. *)
EXTENDS RewardManager, TLC

Users == Permutations(User)
============================================================================
