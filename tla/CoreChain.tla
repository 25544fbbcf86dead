----------------------------- MODULE CoreChain -----------------------------
(***************************************************************************)
(* What the deployed core contracts accept from the deployer: the guards   *)
(* and effects of PermissionsV2, PendleGovernanceManager, PendleData,      *)
(* PendleRewardManager and the yield contract deployers, as far as setting *)
(* a deployment up is concerned.                                           *)
(*                                                                         *)
(* An instance of a contract is its name and the number of its deployment: *)
(* <<"PendleData", 2>> is the second PendleData on the chain.              *)
(*                                                                         *)
(*   made[name][n].with[arg]  the instance of arg its constructor was given*)
(*   made[name][n].init       the instance initialize gave it, 0 before    *)
(*   registered               <<data, id, n>>: getForgeAddress[id] or      *)
(*                            getMarketFactoryAddress[id] of that PendleData*)
(*   settings                 <<contract, n, key>>: a parameter or a       *)
(*                            forge-factory validity that has been set     *)
(*   offered, claimed         governance managers with a pending and with  *)
(*                            a new governance                             *)
(*                                                                         *)
(* A transaction is an operation with the instances its names stood for    *)
(* when it was sent.                                                       *)
(***************************************************************************)
EXTENDS DeploySteps

EmptyChain ==
  [made |-> [name \in Contracts |-> << >>],
   registered |-> {}, settings |-> {}, offered |-> {}, claimed |-> {}]

Exists(chain, name, n) == n \in DOMAIN chain.made[name]

\* The governance manager that guards an instance.
ManagerOf(chain, name, n) == chain.made[name][n].with[GovMain]

\* modifier initialized: the deployer has spent its right to initialise.
initialized(chain, name, n) == chain.made[name][n].init # 0

\* The deployer passes onlyGovernance until somebody else claims governance.
onlyGovernance(chain, gov, g) == <<gov, g>> \notin chain.claimed

(***************************************************************************)
(* Would the transaction succeed on this chain?  A constructor that gets   *)
(* the arguments it takes does; what the script cannot even send is        *)
(* DeploySteps!Throws.                                                     *)
(***************************************************************************)
CanInitialize(chain, tx) == ~initialized(chain, tx.op.on, tx.at[tx.op.on])

IsFree(chain, data, key) == \A r \in chain.registered : <<r[1], <<r[2]>>>> # <<data, key>>

CanAdd(chain, tx) ==
  LET d == tx.at[Data] IN
  /\ initialized(chain, Data, d)
  /\ onlyGovernance(chain, GovMain, ManagerOf(chain, Data, d))
  /\ IsFree(chain, d, tx.op.key)

CanSet(chain, tx) ==
  LET n == tx.at[tx.op.on] IN
  /\ tx.op.on = Data => initialized(chain, Data, n)
  /\ onlyGovernance(chain, GovMain, ManagerOf(chain, tx.op.on, n))

Succeeds(chain, tx) ==
  CASE tx.op.kind = "deploy"     -> TRUE
    [] tx.op.kind = "initialize" -> CanInitialize(chain, tx)
    [] tx.op.kind = "add"        -> CanAdd(chain, tx)
    [] tx.op.kind = "set"        -> CanSet(chain, tx)
    [] tx.op.kind = "transfer"   -> onlyGovernance(chain, tx.op.on, tx.at[tx.op.on])

(***************************************************************************)
(* Its effect when it does.                                                *)
(***************************************************************************)
Construct(chain, tx) ==
  [chain EXCEPT !.made[tx.op.on] =
     Append(@, [with |-> [a \in tx.op.args |-> tx.at[a]], init |-> 0])]

RunInitialize(chain, tx) ==
  [chain EXCEPT !.made[tx.op.on][tx.at[tx.op.on]].init =
     tx.at[CHOOSE a \in tx.op.args : TRUE]]

RunAdd(chain, tx) ==
  [chain EXCEPT !.registered =
     @ \cup {<<tx.at[Data], a, tx.at[a]>> : a \in tx.op.args}]

RunSet(chain, tx) ==
  [chain EXCEPT !.settings = @ \cup {<<tx.op.on, tx.at[tx.op.on], tx.op.key>>}]

RunTransfer(chain, tx) ==
  [chain EXCEPT !.offered = @ \cup {<<tx.op.on, tx.at[tx.op.on]>>}]

Effect(chain, tx) ==
  CASE tx.op.kind = "deploy"     -> Construct(chain, tx)
    [] tx.op.kind = "initialize" -> RunInitialize(chain, tx)
    [] tx.op.kind = "add"        -> RunAdd(chain, tx)
    [] tx.op.kind = "set"        -> RunSet(chain, tx)
    [] tx.op.kind = "transfer"   -> RunTransfer(chain, tx)

\* A transaction that reverts is mined too; it changes nothing.
Mined(chain, tx) == IF Succeeds(chain, tx) THEN Effect(chain, tx) ELSE chain

\* claimGovernance, called by the pending governance.
CanClaim(chain, gov) == gov \in chain.offered

Claimed(chain, gov, byOther) ==
  [chain EXCEPT !.offered = @ \ {gov},
                !.claimed = IF byOther THEN @ \cup {gov} ELSE @ \ {gov}]
=============================================================================
