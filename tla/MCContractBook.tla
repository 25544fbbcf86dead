--------------------------- MODULE MCContractBook ---------------------------
(***************************************************************************)
(* ContractBook for TLC: each kind of forge deployed into a system without *)
(* it; a live forge, listed or not, growing; the contracts of fetch-all.   *)
(***************************************************************************)
EXTENDS ContractBook

Names(recipe) ==
  LET contracts == SelectSeq(recipe, LAMBDA step : step.do = "contract")
  IN  [i \in DOMAIN contracts |-> contracts[i].name]

CoreNames == Names(deployGovernanceAndPausingManagers \o deployPendleData \o deployPendleRouter
                     \o deployGenericMarketFactory)

World(names, kits, live, listed, operations, maxOps) ==
  [names |-> names, core |-> Len(CoreNames), kits |-> kits, live |-> live, listed |-> listed,
   outdated |-> {}, ops |-> operations, maxOps |-> maxOps]

\* A forge from nothing, deployed once, or in every mode.
NewForge(k, modes, maxOps) ==
  World(CoreNames, {k.id}, {}, {},
    Deploys(k, modes)
      \cup (IF k.shared THEN {Op("init", k.id, ""), Op("add", k.id, "")} ELSE {})
      \cup {Op("newYield", k.id, "")}, maxOps)

Representative == {BenQi, JoeComplex, Aave}

\* A live forge.
LiveForge(k, listed) ==
  World(CoreNames \o Names(deployForge(k)), {k.id}, {k.id}, listed,
    {Op("newYield", k.id, ""), Op("saveYield", k.id, ""), Op("newMarket", k.id, ""),
     Op("newLiqYT", k.id, "DEPLOY"), Op("newLiqOT", k.id, "DEPLOY"),
     Op("governance", "", "FORCE_DEPLOY")}
      \cup (IF k = JoeComplex THEN {Op("newLiqJLP", "", "DEPLOY")} ELSE {}), 4)

\* A forge with a yield contract that an older version of the scripts booked.
OldForge(k) ==
  [World(CoreNames \o Names(deployForge(k)), {k.id}, {k.id}, {k.id},
     {Op("saveYield", k.id, ""), Op("newMarket", k.id, ""), Op("newLiqYT", k.id, "DEPLOY"),
      Op("newLiqOT", k.id, "DEPLOY")}, 4) EXCEPT !.outdated = {k.id}]

Avalanche ==
  World(CoreNames \o SelectSeq(Names(fetchAll("AVAX")),
          LAMBDA n : \A i \in DOMAIN CoreNames : CoreNames[i] # n),
        {}, {}, {}, {Op("fetchAll", "AVAX", "FETCH"), Op("retroactive", "AVAX", "DEPLOY")}, 3)

MCWorlds ==
  {NewForge(k, {"DEPLOY", "FETCH"}, 3) : k \in Kits \ Representative}
    \cup {NewForge(k, Modes, 4) : k \in Representative} \cup {Avalanche}
    \cup {LiveForge(BenQi, {"BenQi"}), LiveForge(SushiSimple, {}),
          LiveForge(JoeComplex, {"TraderJoeComplex"}), OldForge(Wonderland)}
=============================================================================
