-------------------------- MODULE MCYieldContract --------------------------
(* Small instances of YieldContract. *)
EXTENDS YieldContract, TLC

Users == Permutations(User)
============================================================================
