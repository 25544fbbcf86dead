---------------------------- MODULE MCGovernance ----------------------------
(***************************************************************************)
(* Instances of Governance for TLC.  Votes move until LastMove only: until *)
(* the first proposals are voted on, and before a second one is made.      *)
(***************************************************************************)
EXTENDS Governance

CONSTANT LastMove    \* bound on the blocks in which votes move

MCNext == Next /\ (block > LastMove => votes' = votes)

MCSpec == Init /\ [][MCNext]_vars

Users == Permutations(User)
=============================================================================
