# Pendle core, in TLA+

Models of the contracts of Pendle V1/V2 (`src/contracts`) and of the scripts that deploy and
manage them (`src/scripts`, `src/pendle-deployment-scripts`), model-checked with TLC and proved
about with TLAPS. A definition is translated from the Solidity or TypeScript it names in
`PROJECT.json` under "map"; what a module leaves out is said in its header and below.

## The system

Pendle splits a deposit of yield-bearing tokens (cTokens, aTokens, LP tokens) into **OT**, the
principal after an expiry, and **XYT**, the yield until then. XYT is traded on an AMM; OT and LP
holders earn rewards.

| part | state | operations | what must hold |
|---|---|---|---|
| Pausing manager | pause and lock flags at up to three levels, caches per target, three timelocked emergency handlers, permanent locks | 12 flag setters, 3 checks, request/apply/lock a handler, pausing admins | a check never returns an outdated status; emergency is for ever; a handler changes only through the timelock; permanent locks are final |
| Forge (Compound, Aave V2, V2 forges) | per yield contract: the last rate of each user, the rate before expiry, due interests, fees; balances of OT, XYT and the token holder | tokenize, redeem underlying, redeem after expiry, redeem interests, token transfers, fee withdrawal, emergency set-up | the holder covers principal, interest and fees; nobody's interest is lost or taken; XYT stop earning at the expiry; a settlement never reverts; pausing stops every write |
| Reward manager (one token, three tokens) | `paramL`, last balance, per-user `lastParamL` and `dueRewards` | redeem, hook of OT transfers, manual update, skipping, frequency | rewards recorded are covered, shared per OT, never lost |
| Emergency handlers | spender set-up and one withdrawal per user | set up, withdraw | every locked contract can be set up; shares are proportional |
| AMM market | reserves and weights in one word, LP balances and interests, `lastParamK`, curve shift block, lock | bootstrap, add/remove dual/single, swap in/out, redeem LP interests, transfers | fees are charged once on swap growth only; the lock only lets liquidity out; LP interests as for rewards |
| Liquidity mining V1, V2 | epochs with rewards and stake units, per-user units and vested rewards, LP or stake-token interests | fund, top up, allocate, stake, withdraw, redeem rewards and interests | units add up; PENDLE covers what is vested; an epoch claimed stays empty |
| Router | reentrancy counter | entry point of users for forges and markets, moves the tokens | one re-entry, by a market only |
| Data | forges, tokens, markets by key, fees and parameters | set-once registrations, governance setters | keys are unique |
| PENDLE token | balances, delegates, checkpoints, pending configuration, emission weeks | transfer, delegate, burn, claim emissions, initiate/apply configuration | votes follow balances; past weeks are paid at past rates |
| Governance, timelock | proposals, receipts, queued transactions | propose, vote, queue, execute, cancel | what is queued can be executed in its window; one vote each |
| Deployment scripts | `deployments/<network>.json` with contracts and the last step done, a copy in memory, the contracts on the chain | 21 steps of constructors, initialisations and registrations; resume, `LAST_STEP`, `RESET` | the file vouches only for what is on the chain; a run ends, and can be resumed |
| Management scripts | the same file, read and written whole by each script | new yield contract, market, first liquidity, liquidity mining | entries stand for contracts; nothing finished is lost; scripts end |
| Console scripts | the contract book (`contractMap`, `forgeMap`), its flattened copy, the contracts in `env` | deploy a forge in one of five modes, list it, grow it, pause everything | book and copy agree; what is returned is recorded; pausing reaches everything |
| Small contracts | governance manager, whitelist, distributions, one-pause, holders and deployers | two-step change of governance, set operations, claims | one claim each |

**How they interact.** Users call the router, which moves tokens and calls a forge or market; a
forge mints and burns OT and XYT, whose transfer hooks call back into the forge (interest) and its
reward manager (rewards) *before* balances change; a market is itself a holder of XYT and redeems
its interest through the router (the one permitted re-entry); a liquidity mining contract holds LP
and redeems interest from the market. Every write first asks the pausing manager. Everything runs
in atomic transactions: the concurrency is the order of transactions of different users,
governance and the outside protocols, several of them possibly in one block with one timestamp.
A transaction that reverts leaves no trace, so a `require` or a SafeMath check is a guard.

The scripts are processes: each keeps a copy of a file in memory, sends transactions one at a time,
waits for them without looking at their status, and writes the file now and then. A process may die
anywhere; what it has broadcast is mined without it. Two terminals may run scripts over one file,
and others (the governance multisig, anybody who creates a yield contract) act on the same chain.

**What is hard.** State brought up to date lazily (interest, rewards, epochs, caches) and read by
others in between; hooks that must run before a balance changes; rounding that must favour the
contract; the edges of time (expiry, lock, epochs, timelocks, several transactions in one block);
sentinel zeros ("never settled"); emergency paths that tests hardly run; for the scripts, crashes
between a transaction and the save of it, calls that succeed only once, and lost updates. `PROJECT.json` lists each
at its line under "hazards".

## Modules

| module | what it is |
|---|---|
| `PausingManager` | `core/PendlePausingManager.sol` |
| `PauseRegister` | abstract: pause and lock flags read without a cache; `PausingManager` implements it |
| `YieldContract` | one yield contract of the Compound forge: `PendleForgeBase.sol`, `PendleCompoundForge.sol`, the hooks of XYT and OT, the router's checks |
| `RewardManager` | `core/PendleRewardManager.sol` for one yield contract, with the hook of OT |
| `CompoundMarket` | the AMM market: `PendleMarketBase.sol` with `PendleCompoundMarket.sol`, the market's settings in `PendleData.sol` and what the router moves |
| `ForgeEmergencyHandler` | `core/emergency/PendleForgeEmergencyHandler.sol` |
| `LiquidityMiningV2` | `core/abstractV2/PendleLiquidityMiningBaseV2.sol` without interests |
| `StakeLedger` | abstract: stake units counted every second; `LiquidityMiningV2` implements it |
| `Timelock` | `periphery/Timelock.sol`: queue, window of execution, delay |
| `Governance` | `governance/PendleGovernance.sol`, on top of `Timelock` |
| `PENDLE` | `tokens/PENDLE.sol`: votes, emissions, settings |
| `VoteBook` | abstract: votes and a page of them per block; `PENDLE` implements it |
| `DeploySteps` | `scripts/deploy/step0.ts` to `step20.ts` as data: what each step asks of the chain, on each network |
| `CoreChain` | what the core contracts accept from the deployer: constructors, initialisation, registration, governance |
| `Deployment` | `scripts/deploy/deploy.ts`, on top of the two |
| `ManageScripts` | `scripts/manage/admin` with `scripts/helpers/deployHelpers.ts` |
| `ForgeRecipes` | `pendle-deployment-scripts/deploy-forge` and `fetch-all.ts` as data |
| `ContractBook` | the console session that runs them: `storage`, `admin` and `helpers` beside it |
| `MC*` | instances: symmetry sets, the situations scripts begin with, restricted next-state relations; `MCAccumulators` holds `RewardManager` and `CompoundMarket` side by side (with the theorems about the latter), `MCVoting` `Governance` and `PENDLE` |
| `*_proofs` | theorems |
| `Sums` | lemmas about sums over finite sets, induction and rounding that they share |

Conventions. A transaction is one action; a `require`, a modifier or a SafeMath check that would
revert is a conjunct of its guard. `block.timestamp` and `block.number` are variables a separate
action advances, so any number of transactions shares a block. Outside contracts (Compound, the
payer of rewards, the emergency spender) are actions marked external in the map. A definition
under a comment "Mistake" is a wrong variant of its neighbour, used only to see that the
properties notice it.

### PausingManager and PauseRegister

The code has one mapping for each level of flag (`forgePaused`, `forgeAssetPaused`, ...). They are
one function `pausedAt`, and one `lockedAt`, over *scopes* such as `<<"forge", f>>`; the three
check functions differ in the scopes of their *target* (`ScopesOf`) and the twelve setters in the
scope they write. `lastUpdated` is the timestamp `updateSomeStatus` stores, `cachedStatus` the
three caches. `answers` (what the last check of a target returned), `asked` (who asked since the
last write) and `requestedAt` are history. `uint256(-1)` is `Never`, beyond the last time.

`PauseRegister` has no clock and no cache: a check answers from the flags. The mapping is the
identity on the variables they share.

### YieldContract

`rate` is `exchangeRateCurrent()`, an input that only grows. Balances of cTokens, OT and XYT are
functions over users; the holder (`held`) and the treasury are apart. `UpdateDueInterests(S, paid)`
is `_updateDueInterests` for the users whose XYT is about to change, the hook that every mint, burn
and transfer runs, with `_beforeTransferDueInterests` for those who are paid. Every division
rounds as in the code. The pausing manager appears through `status`, which changes as
`PauseRegister` allows; a lock is never undone. Left out: the registration of the contract, renewal
of a yield (two of the actions in one transaction), fees' destination, the rewards of OT.

### RewardManager

`UpdateParamL(manual, paid)` is `_updateParamL` together with the payout that may follow it:
claiming from the protocol, growing `paramL`, and recording `lastRewardBalance` and the block.
`RewardsFromOT` has the code's sentinel: a user with `lastParamL` 0 is new and gets nothing. OT is
moved by the three actions that run the hook. `unclaimed` is what the protocol has yet to pay; it
can pay at any time by itself.

### CompoundMarket

`reserveData` is three variables. `Settle(S)` is the hook `_beforeTokenTransfer` for the holders
whose LP is about to move, which may run `_updateParamL` first (`UpdateParamL`, with the nested
call of the router that has the pool's interest redeemed); `FeeLiquidity` and `FeePayee` are
`_mintProtocolFees`, `UpdateLastParamK` and `CurveShift` what they are named after. An operation is
the market's function and the router's transfers after it. `ParamK` and `WeightAt` are parameters
and what `MarketMath`'s formulas give for a swap or a single-sided change is any amount: the books
of interests and fees rest on none of them. (The formulas round to nearest, so `paramK` may fall a
little by a swap; no fee is charged then.) The forge appears through its exchange rate, the interest it holds for the
pool (`accrued`) and its pause. `paramKBefore` is history: what fees should be measured from.

The model shows a detail worth knowing: fees on swaps made while the protocol fee was off are
charged later if it is turned on again before any change of liquidity or weights, for only those
reset `lastParamK`. `FeesAreOfSwapGrowth` therefore speaks of growth since the last change that was
no swap, whatever the fee was meanwhile. What is minted is the fee's exact part of that growth,
rounded down, but for the rounding of the division by the fee (`feeRatio`), which makes the divisor
smaller by less than one and what is minted a little larger: hence `FeesWithinRounding`.

### ForgeEmergencyHandler

The set-up and the withdrawals by proportion, with the require of the set-up as it is written.

### LiquidityMiningV2 and StakeLedger

`epochData` is five functions of the epoch. The two loops are given by the sets of epochs they
reach: `Refreshed` (backwards, stopping at the first complete epoch) and `Visited` (forwards from
the user's last update, skipping epochs without stake, and stopping at one if there is no stake
now). From them follow the new totals, the user's units, and what vests at each epoch
(`Available`). `fund` and `topUpRewards` take one epoch at a time: a call with several is several
in one block, with the same guards. Who pays for a stake and who receives a withdrawal makes no
difference to the contract and is left out.

`StakeLedger` counts at each tick of the clock. The mapping gives it the stored units plus those
not yet added, for the epochs that are funded.

### Governance and Timelock

`Governance` extends `Timelock`, whose operators change `queuedTransactions` and `delay` when a
proposal is queued, executed or cancelled; a list of actions is queued or removed in one
transaction, so as a set. A proposal is the record of the code without its id, its receipts a
function over users. Blocks and seconds are two clocks. `votes` and `votesAt`, the votes users have
now and had at the end of the earlier blocks a proposal refers to, stand for `getPriorVotes` of
PENDLE (see `VoteBook`). The governance contract calls `gracePeriod()`, which `ITimelock` declares and `Timelock.sol`
does not have: `AnswersGracePeriod` says which of the two is deployed. It is FALSE for finding 4
and TRUE elsewhere, so that the rest of the life of a proposal can be checked. With such a
timelock the model also shows that a cancelled proposal, cancelled again, clears its actions at its
eta, which another proposal may have queued since (`cancel` refuses only what was executed): hence
`QueueHasOwners` says that what is queued has an owner, and not that every owner has it queued.

### PENDLE and VoteBook

The checkpoints of a delegate are a sequence, and `WriteCheckpoint`, `MoveDelegates` and
`PriorVotes` with its binary search (`Search`, a recursive function) are the code's. The four
emission settings are the record `config`, `pending` the proposed one; `MintWeek` folds the loop
of `_mintLiquidityEmissions`. `drift` (what burning and minting did to a delegate's votes),
`weekConfig` (the settings when a week began) and `paid` are history. Allowances and signatures
only decide who may transfer or delegate, and any account does here. `VoteBook` has no checkpoints:
it copies the votes at the end of a block, and a page is never touched again. The mapping gives it
`CurrentVotes`, and `PriorVotes` of every finished block, so that what `Governance` reads in its
`votesAt` is what the token answers.

### DeploySteps, CoreChain and Deployment

`DeploySteps` gives, for each network, the sequence of operations of each step; an operation names
contracts by their keys in the book, and `Deployment` looks the addresses up when it sends it, as
`getContractFromDeployment` does. `CoreChain` has of each contract what the set-up depends on:
which contracts it was constructed with, what initialised it, what is registered, who governs. An
instance is a name and the number of its deployment, so that a `RESET` that leaves old addresses in
the book is told from a clean one. The file is written only by `SaveStep`; `Crash` may come
anywhere; `Mine` goes on without the script. `doomed` is history. `StepsAreOrdered` states what the
order of the steps is for: an operation uses only what earlier ones deploy, and a forge is listed
after the contracts it relies on were initialised with it. A call may also be refused before it is
sent: `Throws` has the constants a network's script does not get and the constructors it calls with
too many arguments.

### ManageScripts

Each script is a list of steps over its copy of the file (`mem`). A call is refused if it would
revert on the chain as it is (`Send`, `Fail`); what no longer succeeds when it is mined reverts
(`Mine`), which a script notices of a deployment, by `deployed()`, and not of a call, since
`waitForTransaction` does not look at the receipt. So `Succeeds` has the checks of the contracts
whose answer may change in between: the expiry and its duplicate (`CanCreateYield`), the market and
the validity of its pair, an expired yield contract, a paused forge, market or liquidity mining, who
governs the mining contracts, and the start of their first epoch. What others do to change an answer
is `Change` (time passes, a keeper pauses or unpauses, the multisig takes the governance) and
`SomebodyCreatesYield`; `reverted` is the history of what was mined in vain. A `Read` asks
`PendleData` for the address of what was to be created: after an unnoticed revert it is 0x0, and the
copy, then the file, gets an entry without a contract (`zeroYields`, `zeroMarkets`). `Save` writes
the whole copy. The two shapes of the file are the ones in use: `directories: []`, which `deploy.ts`
writes, and an object. The base tokens and the PENDLE that scripts spend are taken to suffice.

### ForgeRecipes and ContractBook

A recipe is the sequence of calls a `deploy-*.ts` makes. The files are so alike that a *kit* of
names and two flags generates most of them; the flags are where they differ, and where they go
wrong: whether and in which mode the forge is listed. A save is a process of its own with the
`await`s of `writeToDeploymentFile` as its steps, so that the one save that nobody waits for runs
beside the next function; `mem` is changed before it starts. Of what an entry says of its contract
one bit is kept, `outdated`: the data are not what the chain answers. Saving a known yield contract
again (`InfoKnown`) replaces the data in memory and returns without a write.
`happened` and `finished` are history.

## Properties and runs

Nothing in the contracts makes anybody act: every transaction is voluntary, so the contracts' runs
assume no fairness and state no liveness. Scripts are different. A process that runs takes its next
step, and a network mines what was broadcast; nobody has to start a run, kill one or claim
governance. Hence weak fairness of `Script` and `Mine` (`Deployment`, `ManageScripts`) and of
`Main`, `InfoKnown` and each `Save` (`ContractBook`), and of the first run of `deploy.ts`, without
which there would be nothing to say. The runs with `CHECK_DEADLOCK FALSE` end where a bound is
reached or the system really stops: a contract never funded or locked for ever, all scripts ended.

A property that a run checks is often a conjunction of named parts, given in brackets.

| run | checks |
|---|---|
| `pausing` | 1 forge, 1 asset, 2 expiries, a market of a factory and a mining contract, one kind of target per behaviour; or the change of a handler among three, beside checks; a timelock of 1 in 4 timestamps: that the abstract register is implemented (`RegisterSpec`), `HandlerChangeIsTimelocked`, `TypeOK` |
| `pausing_locked_handler` | finding 1 |
| `yield_contract` | 2 users, 3 rates, fee 0 or half, an expiry inside the run: `Solvent` (and `OTMatchesXYT`), `SurplusNeverFalls`, `InterestIsKept`, `NoInterestAfterExpiry`, `SettlementNeverReverts`, `TypeOK` |
| `accumulators` | `RewardManager`: 2 holders, supply up to 3, multiplier 10, frequencies 0 and 2: `RewardsCovered` (and types), `RewardsAreKept`, `EqualShares`. `CompoundMarket`: 2 users, the treasury and the first LP, 3 blocks of which the last is locked, up to 5 transactions, fee off or half: `LpInterestsCovered` (and its types), `LpInterestsAreKept`, `LossIsWithinDelta`, `FeesAreOfSwapGrowth` |
| `reward_manager_skipped` | finding 2 |
| `forge_emergency_handler` | finding 3 |
| `liquidity_mining` | 2 users, 2 epochs of 2 seconds and 2 vesting epochs, stake up to 2, top-ups, pauses and emergency at one time: that the ledger is implemented (`LedgerSpec`), `RewardsExact`, `PaidAsVested` (and `ClaimedEpochsStayEmpty`), `RewardsCovered` (and types) |
| `governance` | 2 users, 2 votes that move until block 3, 2 proposals, 7 blocks, one proposed delay that is accepted and one that is not: `NoVoteTwice`, `ExecutedAsDecided`, `LifeCycle`, `QueueHasOwners` (and types). `PENDLE`: 2 accounts, 2 tokens, 4 blocks, 5 weeks of which two decay, 4 transactions: `VotesAreBalances` (and types), `WeeksFollowTheirConfig`, that the book is implemented (`BookSpec`) |
| `governance_grace_period` | finding 4 |
| `deployment` | 3 networks, two runs of `deploy.ts`, one crash or early `LAST_STEP`, one `RESET`, the multisig at any time: `StepsDoneWhileGoverning` (and `StopsShort`, `ListedForgeIsWired`, types), `StuckUntilReset`; live: `EveryRunSettles`, `FirstRunGoesAllTheWay` |
| `manage_scripts` | 2 terminals, 2 expiries, one crash, a yield contract created by somebody else; five situations of up to 3 scripts, each with the switches that matter to them and 1 or 2 changes by others: `FileIsClosed` (and `RevertsExplain`, types), `FinishedIsRecorded` (and `OneDirectory`, `BootstrapsOwnMint`), `LostYieldStaysLost`; live: `EveryScriptEnds` |
| `contract_book` | each of the kits deployed, in every mode for three of them, or live and growing, once with an outdated entry; up to 4 calls in 2 sessions, one failed write or crash: `BookIsConsistent` (and `InitialisedAsBuilt`, types), `ReturnedIsRecorded` (and `FlatIsCurrent`), `PauseReachesReturned`, `UnlistedStaysUnlisted`; live: `FileCatchesUp` |

Why these bounds. A stale cache needs a write and a check in one block and a check in a later one:
two timestamps show it, three let a second write follow. Interest is lost between two parties of a
transfer, so two users; a third would only repeat one of them, since the books relate a user to
totals. Three rates give one settlement between two changes. In the market a fee takes a bootstrap,
two swaps and a change of weights in a later block; an interest that is lost takes a bootstrap, two
rises of the rate (the first stays below the delta), a transfer and a redemption: five transactions
beside the passing of blocks do both. In liquidity mining an epoch must be
caught up with from within it, from the next one and from after the program, and its vesting must
straddle the end of the program: two epochs and two vesting epochs do, up to the fourth epoch
(time 7). A proposal made in block 1 is voted on in block 3, while votes still move, and
queued in block 4 or later, with an eta from 5 on; it expires 2 seconds after that. Two proposals
share a transaction only if they are queued for one second, so the votes pass between two proposers
in the first blocks. A delegate with three checkpoints takes a delegation and two transfers; two
changes of settings, each settled late, take four transactions; `MaxSupply`, beyond which nothing is
minted, lies above what five weeks mint. A script interferes with another by one overlap, and a crash with a rerun by
one crash: the third script of `manage_scripts` is the one that finds what the two left. A call that
reverts when it is mined takes one change by others after it was accepted; two changes let the
creation of a yield contract revert, and then succeed for a script that finds the entry of 0x0. The
situations are: such a creation with its market; a new yield contract up to the bootstrap of its
market; bootstraps one after the other; mining contracts of both kinds; and those with the array
that `deploy.ts` writes and a deployer who does not govern them. Every property
has a variant of the code, in `PROJECT.json` under "mutants", that breaks it within the same bounds.

## Findings

Runs that expect a violation:

1. **A permanently locked handler can still change** (`pausing_locked_handler`).
   `applyForgeHandlerChange` and its siblings (`PendlePausingManager.sol:156`) do not ask whether the
   handler was locked permanently after the change was requested.
2. **A holder of OT may be taken for new** (`reward_manager_skipped`). "ParamL is always >=1"
   (`PendleRewardManager.sol:226`) does not hold while rewards are skipped before the first update.
3. **No emergency set-up succeeds** (`forge_emergency_handler`). The require labelled
   `DUPLICATED_EMERGENCY_SETUP` (`PendleForgeEmergencyHandler.sol:59`) demands a duplicate; the other
   four handlers have the same test.
4. **No queued proposal can be executed** (`governance_grace_period`). `state` asks the timelock for
   `gracePeriod()` (`PendleGovernance.sol:374`), declared at `ITimelock.sol:57`; `Timelock.sol` has
   only `GRACE_PERIOD`, and the call reverts.

Faults that properties of the passing runs are stated around, or establish:

5. `deploy.ts` completes on no network (`StopsShort`, `FirstRunGoesAllTheWay`). Off Avalanche it
   never gets past step 16: `step17.ts:37` adds the generic market factory that step 16 has added,
   and `PendleData` refuses a known id. On Avalanche it never gets past step 4: `deploy.ts:4` imports
   `avaxConstants`, which `helpers/constants.ts` does not export (hardhat runs scripts without type
   checks, so the import is `undefined`), and `step5.ts:4` is the first to read from it; `deploy.ts:55`
   also expects the network to be called `avalanche`, which `hardhat.config.ts:112` calls `avax`.
   Further on, `step20.ts:33-49` gives two constructors 3 and 9 arguments that take 2 and 8.
6. A crash after a call that succeeds once (`initialize`, `addForge`) and before the save leaves a
   file no rerun can continue from (`StuckUntilReset`); a `RESET` starts over.
7. A governance call overtaken by the multisig's `claimGovernance` reverts, is logged as confirmed
   and its step is saved as done: the proviso of `StepsDoneWhileGoverning`.
8. Two management scripts that overlap lose each other's entries, the poll of
   `deployHelpers.ts:246` may then never end, and an expiry whose script died before the save, or
   that somebody else created first (`newYieldContracts` is open to all), is out of the scripts'
   reach for good (`LostYieldStaysLost`). Without any overlap, a call that is accepted and reverts
   when it is mined goes unnoticed (`RevertsExplain`, the provisos of `EveryScriptEnds` and
   `Recorded`): `newYieldContracts` and `createMarket` leave an address of 0x0 in the file, the
   former for good (`deployHelpers.ts:143` never replaces an entry), `setAllocationSetting` leaves a
   mining contract without an allocation, and after `tokenizeYield` the poll never ends.
9. `deploy.ts:78` begins `directories` as an array; with such a file every V2 mining script
   deploys a directory of its own (`OneDirectory` holds for the other shape only).
   `deploy_liquitiy_mining_v2.ts` saves its contract before it is registered and funded.
10. A forge whose `DEPLOY` was cut short is never listed, and `genPauseAllTx` never pauses it
    (`UnlistedStaysUnlisted`); the Aave, Compound, Compound V2 and Sushi recipes never list theirs.
    `FORCE_DEPLOY` of the pausing managers leaves mining contracts on the old ones.
11. `newLiqMiningYT` returns before its save is done (`liquidity-mining-YT-admin.ts:56`), and a
    repeated `saveNewYieldContract` (`ext-save-helpers.ts:81`) replaces the entry in memory and
    returns without writing, so the file has it only with the next entry that is saved. It makes a
    difference for the Wonderland entry of `src/deployments/AVAX.json:494`, which has no `start`
    (`FileCatchesUp`, whose claim is therefore about all but outdated entries).
12. PENDLE that is minted to an account with a delegate adds no votes to the delegate
    (`VotesAreBalances`, the negative `drift`). As `_moveDelegates` takes the amount from the
    delegate's votes with `sub`, the account can then neither transfer all it has nor delegate to
    anybody else, unless others delegate to the same delegate and lose their votes. Burnt PENDLE leaves its votes behind.
13. The emission of a week after the 259th is a share of the supply when it is claimed, not when
    the week began: what is burnt in between lowers it (`WeeksFollowTheirConfig` compares with the
    supply at the claim).

Seen while reading, not modelled: `fund_epochs.ts` run again funds again; `set_allocation.ts` does
not await its prompt; `deploy_liquitiy_mining_v2.ts:50` needs `PendlePausingManagerLiqMiningV2`,
which `deploy.ts` does not deploy; `seed_test_contracts.ts:114` passes its arguments shifted by one;
`fetch-all.ts` leaves out three of the forges; the `forgeMap` of `src/deployments/ETH.json` has
under `CompoundV2` a forge that is not the `PendleCompoundForge` of its `contractMap`, so that book
is not one that `IsWorld` lets a session begin with.

## Proofs

Assumptions are those named in the modules: the multiplier, rates, fees and durations the
constructors require, and that bounds are natural numbers. Users, contracts and amounts are
arbitrary sets and numbers; sets of users are finite (`UserAssumption`, `HolderAssumption`,
`TokenAssumption`), for the books sum over them. `Scale` of `YieldContract`, in which its books are
kept without rounding, is a common multiple of the rates a behaviour goes through
(`ScaleAssumption`): any finite set of rates has one. The bounds `MaxOT`, `MaxSupply`, `MaxBlock`
and the like are arbitrary numbers too.

`Sums` holds what the proofs need of sums and division. A sum is a fold over a set, whose
definition chooses an element; the induction theorems of the library take operators and cannot be
used, so induction is on a *set* of the numbers, or of the subsets, that satisfy the claim
(`NatSetInduction`, `SetInduction`, from the well-foundedness of `<`). From it: the fold exists and
does not depend on the choices (`FoldExists`, `FoldUnique`), adding and removing an element, one
or two summands that change, sums of sums (`SumSwap`), constant and scaled sums, and what rounding
keeps of them.

* `SetUpAndPausing_proofs`, for `PausingManager`. `IInv` = types, the clock is never behind `lastUpdated` nor any cache
  entry, caches are coherent, and a target told that it is locked is locked. The clock is what makes
  coherence inductive: after a write no entry can be younger than `lastUpdated = now`, so none is
  usable; a check in a later block fills one with the flags. The invariant gives
  `CacheCoherence`, `EmergencyIsPermanent`, `PermLockIsFinal` and, as every answer equals the
  register's, `ImplementsRegister`. `HandlerTimelock` rests on `DeadlineInv`: the deadline of a
  pending handler is its last request plus the timelock.
* The same module, for `Deployment` (the two components share no variable). `SetUpInv` is what
  makes the claims about the file inductive, for any number of runs, crashes and resets: types; every
  address in the file, in the script's memory and in the mempool is one of the chain's, and what is
  registered or offered exists and is wired (`ChainInv`, `Sound`); the operations before the one the
  script is at, and those of the steps the file has, are executed by the book that counts
  (`DoneInv`: done on the chain, or lost to the governance multisig); the transaction the script waits
  for either still succeeds or is already executed (`WaitInv`), although transactions of a run that
  was killed may be mined before it (`RunInv`: then the script is at the first operation of a step,
  and `OpenerInv`: they ask for the same); step 16, or on Avalanche step 4, is never
  passed (`ReachInv`); and a doomed run has an operation before it that throws or that the chain
  refuses for good (`DoomInv`). Three facts
  carry it: the chain only grows (`MinedGrows`, `ClaimedGrows`), so what is executed stays executed
  and what is refused stays refused; a transaction that succeeded when it was sent can only be
  overtaken by one that does the same, or by `claimGovernance` (`Overtaken`, `ClaimExecutes`); and the
  steps are in an order in which no step lists what an earlier one has not wired. That order is
  `StepsAreOrdered`, a statement about the twenty-one steps as data and the only thing the proof knows
  of them. It has no free constant and no variable, so TLC, which evaluates it as part of
  `DeploymentAssumption` in every run, decides it once and for all; a proof of it would be a case for each
  pair of operations. It gives `DeploymentIsSafe` and `DoomedRunsSaveNothing`.
* `YieldContract_proofs`. `IInv` = types, `RatesInOrder` (nobody was settled at a rate above the
  last one before the expiry, itself not above the rate) and `RedeemableOT` (there is a rate before
  expiry when there is OT, so the division of `redeemAfterExpiry` is defined). It gives
  `SettlementsSucceed`, `PauseFreezes` and `InterestStopsAtExpiry`; for the types it is needed that
  a fee is at most the interest it is taken from. The books need `SInv`: OT and XYT are in step,
  and whoever has XYT was settled. Then what is owed is one sum over users of what each is owed at
  the present rate, in `1/Scale`ths; a settlement moves it from interest to come to interest due
  and may only round it down, a step of the rate moves it not at all, and every other operation
  changes one or two summands by what it pays. So the surplus never falls (`SurplusKept`) and is
  never negative (`AlwaysSolvent`), and what each user has and can claim never falls
  (`InterestKept`).
* `RewardManager_proofs`. `IInv` = types, nobody was settled at a `paramL` to come, and
  `lastRewardBalance <= held`; it gives `NobodyLosesRewards`. `CInv` adds that the OT sum up to the
  supply and that `MULTIPLIER` times what was recorded covers what each user is owed, settled or
  not, summed up: a rise of `paramL` by `d` adds at most `d` per OT, which is what was recorded,
  rounded down. It gives `RewardsAreCovered`, and `HoldersShareEqually`: what an update adds to each
  user is his share within the stated rounding, for any supply and multiplier.
* `CompoundMarket_proofs`. `IInv` = types and `Begun` (what the bootstrap has set up); the
  assumptions on constants are the hypothesis `Assumptions`. It gives `MarketTypeOK` - no reserve,
  balance or due interest ever becomes negative - and `LossStaysWithinDelta`. `CInv`, on the sums
  over the holders as for rewards, with `lastNYield <= yieldHeld` through every payment, gives
  `LpInterestsAreCovered` and `LpInterestsKept`: the two caps never bind. `MInv` says that
  `lastParamK`, unless it was reset to 0, is the `paramK` swaps have started from
  (`MeasuredFromLast`); then what `_mintProtocolFees` divides, multiplied out (`FeeArithmetic`), is
  `FeesOfSwapGrowth`. `MCAccumulators` instantiates these theorems and satisfies their hypothesis
  (`MarketAssumption`), so they are theorems about its behaviours too (`MarketCoversInterests`,
  `MarketKeepsInterests`, `MarketLossWithinDelta`, `MarketFeesAreOfGrowth`, at the end of
  `RewardManager_proofs`).
* `Governance_proofs`, for `Governance`. `IInv` = types, `ClocksOK`, and for each proposal
  `Scheduled` (the votes at its start are on record, and only what was queued is executed) and
  `Decided` (what has an eta has won a vote that is over, and the eta lies a delay after it was
  queued); for the queue, `Owned`. It gives `ProposalsFollowLifeCycle`, `OnlyDecidedIsExecuted` and
  `QueueIsOwned`. `VInv` adds that the votes of every block sum up to the supply and that a
  proposal's two counts sum up to the votes of those with a receipt: `VotesCountOnce`.
* The same module, for `PENDLE`, which is put beside it in `MCVoting`; each is proved of `PENDLE`
  alone and follows there. `TokenInv` (the balances sum up to the supply, and a delegate's votes are
  `drift` and the balances delegated to it) gives `VotesFollowBalances`. For the weeks, the fold of
  `MintLiquidityEmissions` is taken apart into the sequence of its intermediate results (`ByWeek`),
  and `Due`, a recursive function, into its equation, which has one solution (`DueExists`,
  `DueUnique`); `WeeksInv` says that the weeks not paid yet began under the settings in force, which
  is why `applyConfigChanges` must pay first: `PastWeeksKeepTheirConfig`. For `ImplementsVoteBook`:
  the recursive function of `Search` exists (`SearchExists`), and by induction on the distance of
  its bounds it finds the checkpoint in force (`SearchFinds`), of which there is one (`OneInForce`);
  `RecordInv` says that checkpoints are in the order of their blocks and none is of a later one, and
  writing the present block's leaves every earlier answer (`WriteKeepsPrior`). Then transfers and
  delegations are moves of `VoteBook`, a block is a page, and everything else stutters.
* `MiningAndBook_proofs`, for `LiquidityMiningV2`. `TInv` = types, `NothingBefore` (an epoch that is not funded or has
  not begun has no units) and a time `T` at which all epochs were last brought up to date together
  (`UpToDate`). Hence the backward loop, which stops at the first epoch that is complete, misses
  none (`LoopReachesAll`): `TotalsAreALedger`. `LInv` adds that stakes sum up to the total stake and
  that the lazy units of users sum up to the lazy total, which makes the users' part a ledger too:
  `ImplementsLedger`, the refinement of `StakeLedger` step by step. For claims, `CInv` =
  `SettledWhenClaimed` (who claimed was settled no earlier than the last epoch claimed, so whatever
  the forward loop still visits vests later) and the property itself: `ClaimedIsFinal`. `RInv` joins
  them: each vesting epoch holds, for each user, the sum of his parts of the epochs he is settled
  for (`AvailableAsGranted`), and he was paid the ones he claimed. Summed over vesting epochs these
  are the epochs' shares (`VestedBetween`): `PaidIsVested` and `GrantedExactly`. As the shares of
  all users, rounded down twice, are within an epoch's reward, and the contract holds what it was
  funded with less what it paid (`HoldsRewards`): `RewardsAreThere`.
* The same module, for `ContractBook` (the two components share nothing). `BookInv` is the inductive
  invariant of console sessions. A property of the file is not inductive by itself: a save is
  written in four steps, what it writes is memory as it is at the last of them, and the next step of
  the function may rest on an address that came from memory, from `env` or from the contract just
  deployed. So the invariant follows the data on its way: the contract deployed and not yet saved
  (`MadeOk`), the save that is waited for and the one that is not (`MainOk`, `LiqOk`), what every step
  already done has left in `env` and in memory (`ProgressOk`), and that the file is memory as of the
  last save (`SyncOk`, `AloneOk`, `FlatOk`), but for entries whose data are fresher in memory
  (`outdated`), which name the same contracts. On these rest the claims: without FORCE_DEPLOY and
  DEPLOY_NOSAVE the three sources of an address agree (`UnforcedOk`), and with them a forge still goes
  with what it was built with, except in the middle of a function that is replacing it (`SettledOk`),
  which is what keeps `InitialisedAsBuilt` true in every mode; and what functions that returned
  have made is in memory, and in the file unless a write failed (`RecordOk`). It gives
  `BookStaysConsistent`, `ReturnedStaysRecorded` and `PauseAlwaysReachesReturned`, and with the fact
  that names never leave a book, `UnlistedForgesStayUnlisted`. Of the recipes the proof knows
  `RecipesAreOrdered` alone: what a step needs comes before it, a forge follows its reward manager
  and its deployer, and every operation has a step that records what it makes. Like `StepsAreOrdered`
  this speaks of data only, with no free constant, so TLC decides it completely whenever it evaluates
  `BookAssumption`. The other conjunct, `IsWorld`, says that a session begins with a book that is in
  order; the constants are otherwise arbitrary (any worlds, calls, faults and restarts).
* `ManageScripts_proofs`. `IInv` = types, files that are `Closed` on disk and in every process's
  memory, `RunsOK` (what a script has seen confirmed exists or has reverted, and what it read from
  the chain was there) and `SendersOK` (a transaction in the mempool is that of the script that
  waits for it, or nobody's). `Closed` relates a copy of the file to the chain and to the calls that
  have reverted: its entries stand for contracts (`EntriesClosed`), its mining contracts have their
  allocation or the call for it reverted (`MiningClosed`), and so did the call behind each 0x0
  (`ZerosExplained`). The argument is that the chain only grows (`Grows`), as do the calls that
  have reverted, so what was closed when it was read is closed when it is written back. It gives
  `FileStaysClosed`, and `LostForEver`: a lost yield contract cannot be made again, so nobody comes
  to record it. `FInv` is about behaviours in which nothing has overlapped: one script runs, the
  mempool is its own, its copy of the file has all that the file has (`AloneOK`), the file has all
  that finished scripts made (a market unless its call reverted), and there is one directory, or one
  that is about to be written. It gives `WhatFinishedIsRecorded`.

Some theorems are about properties that no run checks on their own, for a stronger one that
is run covers them (`CacheCoherence`, `EmergencyIsPermanent` and `PermLockIsFinal` by `RegisterSpec`,
`TotalsCountEverySecond` by `LedgerSpec`, `ClaimedEpochsStayEmpty` by `PaidAsVested`, `BooksMatch` by
`Solvent`, the types by the properties they are conjuncts of) or, for `PauseFreezes`, because the
theorem says it all.

Only model-checked:

* All liveness properties (`EveryRunSettles`, `FirstRunGoesAllTheWay`, `EveryScriptEnds`,
  `FileCatchesUp`): every safety invariant and action property that a passing run checks is proved.
* `OnlyDuplicatesRefused` and `AvailableAtEta`, which are about `ENABLED`, and which TLC refutes.

## Not modelled

Everything `PROJECT.json` lists as `not_modelled` or `partly`, with the reason there. In particular:

* the formulas of the market (`rpow`, `ln` in fixed point; their results are any amounts), its emergency set-up, and the markets of other forges;
* the Aave V2 and V2 forges, whose interest arithmetic differs from Compound's; the reward manager
  for several tokens; liquidity mining V1 and the interests of V2's stake;
* the router's re-entry counter, `PendleData`'s registrations as seen by users (the deployment
  model has them as seen by the deployer), distributions, whitelist, permissions, wrapper, readers;
* tests, mocks, the network-bound monitors under `scripts/manage/monitor`, verification scripts.

Arithmetic is on unbounded numbers: 2^256 is not reached by amounts that exist, and SafeMath would
revert. Allowances, permits and signatures, and events are left out throughout; the wiring of
addresses is left out of the contracts' models, and is what the scripts' models are about.

## Plan

What is left, in this order.

1. **The forge and its reward manager together**: OT whose transfers run both hooks, paused
   through `PausingManager`; the composition keeps the properties of the parts.
2. **Aave forge and V2 forges**: the second arithmetic of interest over the same actions; the V2
   check that the holder covers the OT.
3. **Liquidity mining V1**: expiries, allocation settings, LP interests.
4. **Governance over PENDLE**: the votes of `Governance` become `PriorVotes`; the handover of the
   timelock's admin.
5. **Router** (re-entry by a market only), **distributions** (one claim each): small modules.
