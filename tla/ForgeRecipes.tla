---------------------------- MODULE ForgeRecipes ----------------------------
(***************************************************************************)
(* pendle-deployment-scripts/deploy-forge: what each function of the       *)
(* console scripts does, as a sequence of steps for module ContractBook.   *)
(* Every forge comes with a reward manager and a yield contract deployer;  *)
(* the files differ in the names they save the three under, in whether     *)
(* (and in which mode) they list the forge in forgeMap, and in the market  *)
(* factory they pair it with.                                              *)
(*                                                                         *)
(* The steps:                                                              *)
(*   contract      deployOrFetchContract, with the names it is built with  *)
(*   saveNewForge  the listing, skipped unless the mode allows it          *)
(*   initialize, addForge, addMarketFactory, setForgeFactoryValidity       *)
(*                 transactions                                            *)
(***************************************************************************)
EXTENDS Sequences

Contract(name, uses) == [do |-> "contract", name |-> name, uses |-> uses]

GOV_MAIN   == "PendleGovernanceManagerMain"
GOV_LIQ    == "PendleGovernanceManagerLiqMining"
PAUSE_MAIN == "PendlePausingManagerMain"
PAUSE_LIQ  == "PendlePausingManagerLiqMining"
GENERIC    == "PendleGenericMarketFactory"

\* lists: "DEPLOY" - saveNewForge in that mode only; "always"; "never".
\* factory: the market factory the forge is paired with; own: the file deploys
\* that factory too.  shared: initXForge and addXForgeToPendleData are exported.
Kit(id, rm, ycd, forge, lists) ==
  [id |-> id, rm |-> rm, ycd |-> ycd, forge |-> forge, lists |-> lists,
   factory |-> GENERIC, own |-> FALSE, shared |-> TRUE]

BenQi == Kit("BenQi", "PendleRewardManagerBenQi", "PendleBenQiYieldContractDeployer",
             "PendleBenQiForge", "DEPLOY")

JoeSimple == Kit("TraderJoeSimple", "PendleRewardManagerJoeSimple",
                 "PendleJoeSimpleContractDeployer", "pendleTraderJoeSimpleForge", "DEPLOY")

JoeComplex == Kit("TraderJoeComplex", "PendleRewardManagerTraderJoeComplex",
                  "PendleTraderJoeComplexYieldContractDeployer", "PendleTraderJoeComplexForge",
                  "always")

XJoe == Kit("xJoe", "PendleRewardManagerXJoe", "PendleXJoeYieldContractDeployer",
            "PendleXJoeForge", "DEPLOY")

Wonderland == Kit("Wonderland", "PendleWonderlandRewardManager",
                  "PendleWonderlandYieldContractDeployer", "PendleWonderlandForge", "DEPLOY")

Redacted == Kit("Redacted", "PendleRedactedRewardManager",
                "PendleRedactedYieldContractDeployer", "PendleRedactedForge", "DEPLOY")

Aave == [Kit("AaveV2", "PendleRewardManagerAaveV2", "PendleAaveV2YieldContractDeployer",
             "PendleAaveV2Forge", "never")
         EXCEPT !.factory = "PendleAaveMarketFactory", !.own = TRUE]

\* Its addCompoundForgeAndFactoryToPendleData, which nothing can call, would add
\* the factory under the forge's id.
Compound == [Kit("Compound", "PendleRewardManagerCompound",
                 "PendleCompoundYieldContractDeployer", "PendleCompoundForge", "never")
             EXCEPT !.factory = "PendleCompoundMarketFactory", !.own = TRUE, !.shared = FALSE]

CompoundV2 == Kit("CompoundV2", "PendleRewardManagerCompoundV2",
                  "PendleCompoundV2YieldContractDeployer", "PendleCompoundV2Forge", "never")

SushiSimple == Kit("SushiswapSimple", "PendleRewardManagerSushiswapSimple",
                   "PendleSushiswapSimpleYieldContractDeployer", "PendleSushiswapSimpleForge",
                   "never")

SushiComplex == [Kit("SushiswapComplex", "PendleRewardManagerSushiswapComplex",
                     "PendleSushiswapComplexYieldContractDeployer",
                     "PendleSushiswapComplexForge", "never")
                 EXCEPT !.shared = FALSE]

Kits == {BenQi, JoeSimple, JoeComplex, XJoe, Wonderland, Redacted,
         Aave, Compound, CompoundV2, SushiSimple, SushiComplex}

KitById == [id \in {k.id : k \in Kits} |-> CHOOSE k \in Kits : k.id = id]

KitOf(id) == KitById[id]

-----------------------------------------------------------------------------
(***************************************************************************)
(* The three functions of a forge's file.                                  *)
(***************************************************************************)
deployForge(k) ==
  <<Contract(k.rm, {GOV_MAIN}), Contract(k.ycd, {GOV_MAIN}),
    Contract(k.forge, {GOV_MAIN, "PendleRouter", k.rm, k.ycd})>>
    \o (IF k.own THEN <<Contract(k.factory, {"PendleRouter"})>> ELSE << >>)
    \o (IF k.lists = "never" THEN << >>
        ELSE <<[do |-> "saveNewForge", id |-> k.id, forge |-> k.forge, rm |-> k.rm,
                always |-> k.lists = "always"]>>)

initForge(k) ==
  <<[do |-> "initialize", target |-> k.rm,  forge |-> k.forge],
    [do |-> "initialize", target |-> k.ycd, forge |-> k.forge]>>

addForgeToPendleData(k) ==
  <<[do |-> "addForge", id |-> k.id, forge |-> k.forge]>>
    \o (IF k.own THEN <<[do |-> "addMarketFactory", factory |-> k.factory]>> ELSE << >>)
    \o <<[do |-> "setForgeFactoryValidity", id |-> k.id, factory |-> k.factory]>>

-----------------------------------------------------------------------------
(***************************************************************************)
(* The contracts every forge leans on.                                     *)
(***************************************************************************)
deployGovernanceAndPausingManagers ==
  <<Contract(GOV_MAIN, {}), Contract(GOV_LIQ, {}),
    Contract(PAUSE_MAIN, {GOV_MAIN}), Contract(PAUSE_LIQ, {GOV_LIQ}),
    Contract("PendlePausingManagerLiqMiningV2", {GOV_LIQ})>>

deployPendleData   == <<Contract("PendleData", {GOV_MAIN, PAUSE_MAIN})>>
deployPendleRouter == <<Contract("PendleRouter", {GOV_MAIN, "PendleData"})>>

deployRetroactiveDist == <<Contract("PendleRetroactiveDistribution", {})>>
deployRedeemProxy(net) ==
  IF net = "AVAX"
  THEN <<Contract("PendleRedeemProxyMulti", {"PendleRouter", "PendleRetroactiveDistribution"})>>
  ELSE <<Contract("PendleRedeemProxy", {"PendleRouter"})>>

deployPendleWhitelist      == <<Contract("PendleWhitelist", {GOV_LIQ})>>
deployGenericMarketFactory == <<Contract(GENERIC, {"PendleRouter"})>>
deployOnePause             == <<Contract("PendleOnePause", {PAUSE_MAIN})>>
deployPendleProxyAdmin     == <<Contract("PendleProxyAdmin", {})>>
deployPendleWrapper ==
  <<Contract("PendleWrapperImplementation", {"PendleRouter"}),
    Contract("PendleWrapper", {"PendleWrapperImplementation", "PendleProxyAdmin"})>>
deployPendleZapEstimator ==
  <<Contract("PendleZapEstimatorPAP", {"PendleData"}),
    Contract("PendleZapEstimatorSingle", {"PendleData"})>>
deployMerkleDistributor    == <<Contract("PendleMerkleDistributor", {})>>
deployIncentiveData        == <<Contract("PendleIncentiveData", {})>>
deployMultipleBalanceQuery == <<Contract("MultipleBalanceQuery", {})>>

\* retroactive-distribution.ts
deployNewContracts(net) == deployRetroactiveDist \o deployRedeemProxy(net)

\* fetch-all.ts.  TraderJoeComplex, CompoundV2 and Redacted are not in it.
fetchAll(net) ==
  deployGovernanceAndPausingManagers \o deployPendleData \o deployPendleRouter
    \o (IF net = "AVAX" THEN deployRetroactiveDist \o deployPendleProxyAdmin \o deployPendleWrapper
        ELSE << >>)
    \o deployRedeemProxy(net) \o deployPendleWhitelist \o deployGenericMarketFactory
    \o (IF net = "ETH"
        THEN deployForge(Compound) \o deployForge(Aave) \o deployForge(SushiSimple)
               \o deployForge(SushiComplex) \o deployMerkleDistributor \o deployIncentiveData
               \o deployMultipleBalanceQuery
        ELSE deployOnePause \o deployForge(BenQi) \o deployForge(JoeSimple) \o deployForge(XJoe)
               \o deployPendleZapEstimator \o deployForge(Wonderland))
=============================================================================
