-------------------------- MODULE MCManageScripts --------------------------
(***************************************************************************)
(* ManageScripts for TLC: the yield contract that expires at 1 exists, with *)
(* a market; the one that expires at 2 is still to be created.              *)
(***************************************************************************)
EXTENDS ManageScripts

MCOldMarkets == OldYields \X Base

Job(kinds, expiries) == [kind : kinds, e : expiries, b : Base]

NewYield == Job({"deploy_new_yield"}, Expiry \ OldYields)

Mint == {"mint_xyt_bootstrap_market"}

World(array, governs, switches, jobs, maxRuns, maxChanges) ==
  [arrayFile |-> array, governs |-> governs, switches |-> switches, jobs |-> jobs,
   runs |-> maxRuns, changes |-> maxChanges]

\* A yield contract whose first creation reverts, tried again, and its market;
\* the way from a new yield contract to its bootstrapped market; bootstraps one
\* after the other; mining contracts, of both kinds; and with the array that
\* deploy.ts writes, for a deployer who does not govern them.
MCWorlds ==
  {World(FALSE, TRUE, {"forge"},
         NewYield \cup Job({"deploy_new_market"}, Expiry \ OldYields), 3, 2),
   World(FALSE, TRUE, {"forge", "pair"},
         NewYield \cup Job(Mint \cup {"deploy_new_market"}, Expiry \ OldYields), 3, 1),
   World(FALSE, TRUE, {"forge", "market"}, Job(Mint, OldYields), 2, 1),
   World(FALSE, TRUE, {"liqMining"},
         Job({"deploy_liquitiy_mining", "deploy_liquitiy_mining_v2"}, OldYields), 2, 1),
   World(TRUE, FALSE, {"liqMining"},
         NewYield \cup Job({"deploy_liquitiy_mining", "deploy_liquitiy_mining_v2_slp"}, OldYields), 2, 1)}
=============================================================================
