---------------------------- MODULE DeploySteps ----------------------------
(***************************************************************************)
(* The twenty-one steps of scripts/deploy: what each step asks of the      *)
(* chain, in order.  An operation names contracts by the key under which   *)
(* the deployment book records them; the address behind a name is looked   *)
(* up when the operation is sent (module Deployment).                      *)
(*                                                                         *)
(*   kind   what is called: a constructor, initialize, addForge, ...       *)
(*   on     the contract it is called on (for "deploy": the new contract)  *)
(*   args   the contracts whose addresses it is given                      *)
(*   key    the slot it writes: an id, a parameter, or the name itself     *)
(*                                                                         *)
(* Arguments that are not contracts of this deployment (tokens, external   *)
(* pools, amounts) are left out: no later operation depends on them.       *)
(***************************************************************************)
EXTENDS Naturals, Integers, Sequences, FiniteSets

\* "avalanche" is any network with ISAVAX set (hardhat.config.ts calls the chain
\* itself "avax"), "hardhat" any other that is neither mainnet nor kovan.
Networks == {"mainnet", "kovan", "avalanche", "hardhat"}

NUMBER_OF_STEPS == 20

isNotAvax(net) == net # "avalanche"

\* Everywhere else the deployer itself stands in for the multisigs.
MultisigIsDeployer(net) == net \notin {"mainnet", "kovan"}

GovMain == "PendleGovernanceManagerMain"
GovLiq  == "PendleGovernanceManagerLiqMining"
Data    == "PendleData"
Router  == "PendleRouter"

Operation(kind, on, args, key) ==
  [kind |-> kind, on |-> on, args |-> args, key |-> key]

Deploy(name, args)        == Operation("deploy", name, args, <<name>>)
Initialize(name, arg)     == Operation("initialize", name, {arg}, <<name>>)
AddForge(forge)           == Operation("add", Data, {forge}, <<forge>>)
AddMarketFactory(factory) == Operation("add", Data, {factory}, <<factory>>)
SetValidity(forge, fact)  == Operation("set", Data, {}, <<forge, fact>>)
SetParam(param)           == Operation("set", Data, {}, <<param>>)
SetSkippingRewards(rm)    == Operation("set", rm, {}, <<"skippingRewards">>)
TransferGovernance(gov)   == Operation("transfer", gov, {}, <<gov>>)

\* A forge comes with a reward manager and a yield contract deployer; the
\* forge is told both, and both are initialised with the forge.
ForgeStack(rm, ycd, forge) ==
  << Deploy(rm, {GovMain}), Deploy(ycd, {GovMain}),
     Deploy(forge, {GovMain, Router, rm, ycd}),
     Initialize(rm, forge), Initialize(ycd, forge) >>

ListForge(forge, factory) == << AddForge(forge), SetValidity(forge, factory) >>

Generic == "PendleGenericMarketFactory"

step0 == << Deploy("PendleTeamTokens", {}), Deploy("PendleEcosystemFund", {}) >>

step1(net) ==
  << Deploy("PENDLE", IF isNotAvax(net)
                      THEN {"PendleTeamTokens", "PendleEcosystemFund"} ELSE {}) >>

step2 ==
  << Deploy(GovMain, {}), Deploy(GovLiq, {}),
     Deploy("PendlePausingManagerMain", {GovMain}),
     Deploy("PendlePausingManagerLiqMining", {GovLiq}) >>

step3 == << Deploy(Data, {GovMain, "PendlePausingManagerMain"}) >>

step5 == << Deploy(Router, {GovMain, Data}) >>

\* Mistake: PendleData is never told its router.
step6Mistake == << >>

step6 == << Initialize(Data, Router) >>

step7(net) ==
  (IF isNotAvax(net) THEN << >> ELSE << Deploy("PendleWrapper", {Router}) >>)
    \o << Deploy("PendleWhitelist", {GovLiq}) >>

step8 ==
  ForgeStack("PendleRewardManagerCompound", "PendleCompoundYieldContractDeployer",
             "PendleCompoundForge")
    \o << Deploy("PendleCompoundMarketFactory", {Router}) >>

step9 ==
  ForgeStack("PendleRewardManagerAaveV2", "PendleAaveV2YieldContractDeployer",
             "PendleAaveV2Forge")
    \o << Deploy("PendleAaveMarketFactory", {Router}) >>

step10 ==
  << SetParam("lock"), SetParam("interestUpdateRateDelta"), SetParam("forgeFee"),
     SetParam("marketFees"), SetParam("expiryDivisor"), SetParam("curveShiftBlockDelta") >>

step11(net) ==
  << AddForge("PendleCompoundForge"), AddMarketFactory("PendleCompoundMarketFactory"),
     SetValidity("PendleCompoundForge", "PendleCompoundMarketFactory"),
     AddForge("PendleAaveV2Forge"), AddMarketFactory("PendleAaveMarketFactory"),
     SetValidity("PendleAaveV2Forge", "PendleAaveMarketFactory") >>
    \o (IF net = "kovan" THEN << SetSkippingRewards("PendleRewardManagerAaveV2") >>
                         ELSE << >>)

step12 == << TransferGovernance(GovMain), TransferGovernance(GovLiq) >>

step13 ==
  ForgeStack("PendleRewardManagerSushiswapSimple",
             "PendleSushiswapSimpleYieldContractDeployer", "PendleSushiswapSimpleForge")

step14 ==
  ForgeStack("PendleRewardManagerSushiswapComplex",
             "PendleSushiswapComplexYieldContractDeployer", "PendleSushiswapComplexForge")

step15 ==
  ForgeStack("PendleRewardManagerCompoundV2", "PendleCompoundV2YieldContractDeployer",
             "PendleCompoundV2Forge")

step16 == << Deploy(Generic, {Router}), AddMarketFactory(Generic) >>

step17 ==
  << AddMarketFactory(Generic) >>
    \o ListForge("PendleSushiswapSimpleForge", Generic)
    \o ListForge("PendleSushiswapComplexForge", Generic)
    \o ListForge("PendleCompoundV2Forge", Generic)

step18 ==
  ForgeStack("PendleRewardManagerUniswapV2", "PendleYieldContractDeployerBaseV2",
             "PendleUniswapV2Forge")
    \o ListForge("PendleUniswapV2Forge", Generic)

step19 ==
  ForgeStack("PendleRewardManagerBenqi", "PendleBenQiYieldContractDeployer",
             "PendleBenQiForge")
    \o ListForge("PendleBenQiForge", Generic)

step20 ==
  ForgeStack("PendleRewardManagerTraderJoe", "PendleTraderJoeYieldContractDeployer",
             "PendleTraderJoeForge")
    \o ListForge("PendleTraderJoeForge", Generic)

SkippedOnAvax == {0, 8, 9, 11, 12, 13, 14, 15, 17}

(***************************************************************************)
(* The switch of main: the program of a step.  A skipped step runs nothing *)
(* and is recorded as done all the same; step 4 is commented out.          *)
(***************************************************************************)
StepBody(net, step) ==
  CASE step = 0  -> step0        [] step = 1  -> step1(net)   [] step = 2  -> step2
    [] step = 3  -> step3        [] step = 5  -> step5        [] step = 6  -> step6
    [] step = 7  -> step7(net)   [] step = 8  -> step8        [] step = 9  -> step9
    [] step = 10 -> step10       [] step = 11 -> step11(net)  [] step = 12 -> step12
    [] step = 13 -> step13       [] step = 14 -> step14       [] step = 15 -> step15
    [] step = 16 -> step16       [] step = 17 -> step17       [] step = 18 -> step18
    [] step = 19 -> step19       [] step = 20 -> step20       [] OTHER -> << >>

Program ==
  [net \in Networks |-> [step \in 0 .. NUMBER_OF_STEPS + 1 |->
     IF ~isNotAvax(net) /\ step \in SkippedOnAvax THEN << >> ELSE StepBody(net, step)]]

Operations ==
  [net \in Networks |-> [step \in 0 .. NUMBER_OF_STEPS + 1 |->
     {Program[net][step][i] : i \in DOMAIN Program[net][step]}]]

(***************************************************************************)
(* What goes wrong inside the script before anything is sent.  deploy.ts   *)
(* takes Avalanche's constants from helpers/constants.ts, which exports    *)
(* none: consts is undefined there, and the first step to read it throws,  *)
(* each before its first operation.  Step 20 gives two constructors one    *)
(* argument too many, which ethers refuses.                                *)
(***************************************************************************)
ConstsExported(net) == isNotAvax(net)

ReadsConsts == {0, 5} \cup 7 .. 11 \cup 13 .. 20

TooManyArguments == {"PendleTraderJoeYieldContractDeployer", "PendleTraderJoeForge"}

Throws(net, step, i) ==
  \/ ~ConstsExported(net) /\ step \in ReadsConsts /\ i = 1
  \/ LET op == Program[net][step][i] IN op.kind = "deploy" /\ op.on \in TooManyArguments

AllOperations ==
  UNION {Operations[net][step] : net \in Networks, step \in 0 .. NUMBER_OF_STEPS}

DeployedBy(ops) == {op.on : op \in {o \in ops : o.kind = "deploy"}}

Contracts == DeployedBy(AllOperations)

(***************************************************************************)
(* What the script relies on in the order of its steps.                    *)
(***************************************************************************)
Kinds == {"deploy", "initialize", "add", "set", "transfer"}

IsOperation(op) ==
  /\ DOMAIN op = {"kind", "on", "args", "key"}
  /\ op.kind \in Kinds /\ op.on \in Contracts /\ op.args \subseteq Contracts
  /\ op.kind = "initialize" => \E a \in op.args : op = Initialize(op.on, a)
  /\ op.kind = "add" => \E a \in op.args : op = AddForge(a)

\* The operations of the steps before s and of s before its i-th.
OperationsBefore(net, s, i) ==
  (UNION {Operations[net][t] : t \in 0 .. s - 1})
    \cup {Program[net][s][j] : j \in {j \in DOMAIN Program[net][s] : j < i}}

OperationsOf(net) == OperationsBefore(net, NUMBER_OF_STEPS + 1, 1)

\* The contracts an operation is called on or given.
Uses(op) == op.args \cup (IF op.kind = "deploy" THEN {} ELSE {op.on})

\* Nothing is used before it is deployed, and nothing deployed after it is used.
DeploysFirst(op, before) ==
  /\ Uses(op) \subseteq DeployedBy(before)
  /\ op.kind = "deploy" => \A o \in before \cup {op} :
                              op.on \notin Uses(o) \cup DeployedBy({o} \ {op})

\* A forge or factory was given a router that was given PendleData, and what
\* else a forge was given has been initialised with it when it is listed.
WiresFirst(op, before) ==
  op.kind = "add" => \A a \in op.args :
    /\ \E d \in before : d.kind = "deploy" /\ d.on = Router /\ Data \in d.args
    /\ \E d \in before :
         /\ d.kind = "deploy" /\ d.on = a /\ Router \in d.args
         /\ \A x \in d.args \ {GovMain, Router} : Initialize(x, a) \in before

\* The factory that step 16 adds, step 17 opens with adding again.
RelistingStep == 17

\* What opens a step, and so may meet the same call of a run that was killed.
Openers(net) ==
  {Program[net][s][1] : s \in {s \in 0 .. NUMBER_OF_STEPS :
                                 s # RelistingStep /\ Program[net][s] # << >>}}

\* The last step that a network's script can finish.
LastFinished(net) == IF isNotAvax(net) THEN RelistingStep - 1 ELSE 4

StepsAreOrdered(net) ==
  /\ \A s \in 0 .. NUMBER_OF_STEPS + 1 : Program[net][s] \in Seq(Operations[net][s])
  /\ Program[net][NUMBER_OF_STEPS + 1] = << >>
  /\ \A s \in 0 .. NUMBER_OF_STEPS : \A i \in DOMAIN Program[net][s] :
       LET op == Program[net][s][i]
           before == OperationsBefore(net, s, i)
       IN  /\ IsOperation(op) /\ DeploysFirst(op, before) /\ WiresFirst(op, before)
           /\ i > 1 => op \notin Openers(net)
  /\ \A o, p \in OperationsOf(net) :
       o.on = p.on /\ o.kind = p.kind /\ o.kind \in {"deploy", "initialize"} => o = p
  /\ isNotAvax(net) =>
       \E op \in Operations[net][RelistingStep - 1] :
         /\ op.kind = "add"
         /\ Program[net][RelistingStep] # << >> /\ Program[net][RelistingStep][1] = op
  /\ ~isNotAvax(net) =>
       /\ Program[net][RelistingStep] = << >>
       /\ Program[net][LastFinished(net) + 1] # << >> /\ Throws(net, LastFinished(net) + 1, 1)
=============================================================================
