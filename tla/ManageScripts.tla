--------------------------- MODULE ManageScripts ---------------------------
(***************************************************************************)
(* scripts/manage/admin: the scripts an operator runs, from one terminal   *)
(* or two, to grow a deployed system: a yield contract for a new expiry, a *)
(* market for it, its first liquidity, a liquidity mining contract.        *)
(*                                                                         *)
(* Each reads the whole deployments/<network>.json when it starts, works   *)
(* on the copy, and writes the whole copy back.  Transactions are sent and *)
(* waited for as in module Deployment: refused when they would revert on   *)
(* the chain as it is, confirmed whatever happens before they are mined.   *)
(* A call that reverts when it is mined is not noticed (waitForTransaction *)
(* does not look at the receipt); a deployment that does is (deployed()).  *)
(*                                                                         *)
(* One forge and one underlying asset; a market is an expiry and a base    *)
(* token; an expiry is its time.  Approvals are left out: they only raise  *)
(* allowances; the base tokens and the PENDLE the scripts spend suffice.   *)
(***************************************************************************)
EXTENDS Naturals, Integers, Sequences, FiniteSets

CONSTANTS
  Proc,          \* terminals, numbered; a script takes the first free one
  Expiry, Base,
  Worlds,        \* the situations to begin with (variable world)
  OldYields, OldMarkets, \* yield contracts and markets, in the file, to begin with
  YieldTokens,   \* what the deployer can tokenise, in units of one bootstrap
  MaxTime, MaxCrashes

Kinds == {"deploy_new_yield", "deploy_new_market", "mint_xyt_bootstrap_market",
          "deploy_liquitiy_mining", "deploy_liquitiy_mining_v2", "deploy_liquitiy_mining_v2_slp"}

V2Kinds == {"deploy_liquitiy_mining_v2", "deploy_liquitiy_mining_v2_slp"}

\* What is switched off by its keepers: the forge, the market or the liquidity
\* mining is paused; the pair of forge and market factory is invalid.
Switches == {"forge", "market", "liqMining", "pair"}

ASSUME ManageAssumption ==
  /\ Proc \subseteq Nat /\ Expiry \subseteq Nat
  /\ Worlds \subseteq [arrayFile : BOOLEAN, governs : BOOLEAN, switches : SUBSET Switches,
                      jobs : SUBSET [kind : Kinds, e : Expiry, b : Base],
                      runs : Nat, changes : Nat]
  /\ OldYields \subseteq Expiry /\ OldMarkets \subseteq OldYields \X Base
  /\ YieldTokens \in Nat /\ MaxTime \in Nat /\ MaxCrashes \in Nat

VARIABLES
  chain,          \* what exists on the chain
  mempool,        \* transactions broadcast and not mined
  file,           \* the deployment file
  world,          \* arrayFile: deploy.ts wrote the file, with directories: [];
                  \* governs: the deployer governs the mining contracts at first;
                  \* switches: what may be switched; jobs: what the operator may
                  \* ask for; runs, changes: bounds on runs and on what others do
  proc,           \* the scripts that run
  runs, crashes, changes,
  reverted,       \* (history) the transactions that were mined and reverted
  overlapped,     \* (history) a script was started while another one, or a
                  \* transaction of a dead one, was on its way
  finished        \* (history) what scripts that ran to their end had created,
                  \* as long as none overlapped

vars == <<chain, mempool, file, world, proc, runs, crashes, changes, reverted, overlapped, finished>>

\* zeroYields, zeroMarkets: entries whose contract has the address 0x0.
InitialFile == [yields |-> OldYields, zeroYields |-> {}, markets |-> OldMarkets, zeroMarkets |-> {},
                mining |-> {}, miningV2 |-> {}, directory |-> 0]

Nobody == -1

Idle == [kind |-> "none"]

Init ==
  /\ world \in Worlds
  /\ chain = [now |-> 0, governs |-> world.governs,
              shut |-> {},              \* the switches that are off
              yields |-> OldYields, markets |-> OldMarkets,
              pools |-> {},             \* <<expiry, base, XYT it was bootstrapped with>>
              xyt |-> [e \in Expiry |-> 0], yieldTokens |-> YieldTokens,
              mining |-> << >>,         \* allocation set?
              miningV2 |-> << >>,       \* funded epochs
              directories |-> << >>]    \* the mining contracts listed
  /\ mempool = << >> /\ file = InitialFile
  /\ proc = [p \in Proc |-> Idle]
  /\ runs = 0 /\ crashes = 0 /\ changes = 0
  /\ reverted = {} /\ overlapped = FALSE /\ finished = {}

(***************************************************************************)
(* What each script does after it has read the file.  "save" and           *)
(* "saveDirectory" write it, "read" asks the chain for the address of what *)
(* was created, "poll" waits for the minted XYT, the others are            *)
(* transactions.                                                           *)
(***************************************************************************)
createNewYieldContract    == <<"newYieldContracts", "read">>
createNewMarket           == <<"createMarket", "read">>
mintXytAndBootstrapMarket == <<"tokenizeYield", "poll", "bootstrapMarket">>
setupLiquidityMining      == <<"deployMining", "setAllocationSetting">>

deploy_new_yield          == createNewYieldContract \o <<"save">>
deploy_new_market         == createNewMarket \o <<"save">>
mint_xyt_bootstrap_market == mintXytAndBootstrapMarket

\* Mistake: the file is written before the allocation is set.
deploy_liquitiy_miningMistake  == <<"deployMining", "save", "setAllocationSetting">>

deploy_liquitiy_mining         == setupLiquidityMining \o <<"save">>

deploy_liquitiy_mining_v2 ==
  <<"deployDirectory", "saveDirectory", "deployMiningV2", "save", "addAddress", "fund">>
deploy_liquitiy_mining_v2_slp ==
  <<"deployDirectory", "saveDirectory", "deployMiningV2", "save", "addAddress", "fund">>

Body(kind) ==
  CASE kind = "deploy_new_yield"              -> deploy_new_yield
    [] kind = "deploy_new_market"             -> deploy_new_market
    [] kind = "mint_xyt_bootstrap_market"     -> mint_xyt_bootstrap_market
    [] kind = "deploy_liquitiy_mining"        -> deploy_liquitiy_mining
    [] kind = "deploy_liquitiy_mining_v2"     -> deploy_liquitiy_mining_v2
    [] kind = "deploy_liquitiy_mining_v2_slp" -> deploy_liquitiy_mining_v2_slp

Running(p) == proc[p] # Idle
AtEnd(p)   == proc[p].pc > Len(Body(proc[p].kind))
Step(p)    == Body(proc[p].kind)[proc[p].pc]

YieldEntries(f) == f.yields \cup f.zeroYields

\* Entries of the copy that the code indexes: a missing one is a TypeError.
Needs(p) ==
  CASE Step(p) = "createMarket"         -> proc[p].e \in YieldEntries(proc[p].mem)
    [] Step(p) = "setAllocationSetting" -> YieldEntries(proc[p].mem) # {}
    [] Step(p) = "save" /\ proc[p].kind \in V2Kinds
                                        -> proc[p].e \in YieldEntries(proc[p].mem)
    [] OTHER -> TRUE

(***************************************************************************)
(* The contracts.  A transaction carries what it was sent with; xyt says   *)
(* whether the XYT it names, from the copy of the file, is one and not 0x0.*)
(***************************************************************************)
\* Mistake: deploy_new_market, too, asks the chain for the XYT, not the file.
TransactionMistake(p) ==
  [by |-> p, run |-> proc[p].run, call |-> Step(p), e |-> proc[p].e, b |-> proc[p].b,
   xyt |-> proc[p].e \in chain.yields, start |-> proc[p].start,
   amount |-> proc[p].minted, at |-> proc[p].made, dir |-> proc[p].mem.directory]

Transaction(p) ==
  [by |-> p, run |-> proc[p].run, call |-> Step(p), e |-> proc[p].e, b |-> proc[p].b,
   xyt |-> proc[p].e \in proc[p].mem.yields, start |-> proc[p].start,
   amount |-> proc[p].minted, at |-> proc[p].made, dir |-> proc[p].mem.directory]

\* Mistake: an existing yield contract is returned.
CanCreateYieldMistake(c, e) == e > c.now /\ "forge" \notin c.shut

\* INVALID_EXPIRY, DUPLICATE_YIELD_CONTRACT, and the forge's checkNotPaused.
CanCreateYield(c, e) == e > c.now /\ e \notin c.yields /\ "forge" \notin c.shut

\* ZERO_ADDRESS, INVALID_YT, EXISTED_MARKET, INVALID_FORGE_FACTORY.
CanCreateMarket(c, tx) ==
  /\ tx.xyt /\ tx.e \in c.yields
  /\ <<tx.e, tx.b>> \notin c.markets /\ "pair" \notin c.shut

\* INVALID_YT, YIELD_CONTRACT_EXPIRED, the deployer's balance, checkNotPaused.
CanTokenize(c, tx) ==
  tx.e \in c.yields /\ c.now < tx.e /\ c.yieldTokens > 0 /\ "forge" \notin c.shut

\* INVALID_YT_AMOUNT, MARKET_NOT_FOUND, checkNotPaused, ALREADY_BOOTSTRAPPED; and
\* the transfer of XYT settles interests, which a paused forge refuses.
CanBootstrap(c, tx) ==
  /\ tx.amount > 0 /\ tx.amount <= c.xyt[tx.e]
  /\ <<tx.e, tx.b>> \in c.markets
  /\ \A pool \in c.pools : <<pool[1], pool[2]>> # <<tx.e, tx.b>>
  /\ c.shut \cap {"market", "forge"} = {}

\* START_TIME_OVER.
CanDeployMining(c, tx) == tx.start > c.now

\* INVALID_START_TIME.
CanDeployMiningV2(c, tx) == tx.start > c.now

\* onlyGovernance, checkNotPaused, LATE_FIRST_ALLOCATION.
CanSetAllocation(c, tx) == c.governs /\ "liqMining" \notin c.shut /\ c.now < tx.start

\* ALREADY_EXISTS.
CanAdd(c, tx) == tx.at \notin c.directories[tx.dir]

\* onlyGovernance, LAST_EPOCH_OVER: without a funded epoch, the first must not have begun.
CanFund(c, tx) == c.governs /\ c.now < tx.start

Succeeds(c, tx) ==
  CASE tx.call = "newYieldContracts"    -> CanCreateYield(c, tx.e)
    [] tx.call = "createMarket"         -> CanCreateMarket(c, tx)
    [] tx.call = "tokenizeYield"        -> CanTokenize(c, tx)
    [] tx.call = "bootstrapMarket"      -> CanBootstrap(c, tx)
    [] tx.call = "deployMining"         -> CanDeployMining(c, tx)
    [] tx.call = "setAllocationSetting" -> CanSetAllocation(c, tx)
    [] tx.call = "deployMiningV2"       -> CanDeployMiningV2(c, tx)
    [] tx.call = "addAddress"           -> CanAdd(c, tx)
    [] tx.call = "fund"                 -> CanFund(c, tx)
    [] OTHER -> TRUE

Effect(c, tx) ==
  CASE tx.call = "newYieldContracts" -> [c EXCEPT !.yields = @ \cup {tx.e}]
    [] tx.call = "createMarket"      -> [c EXCEPT !.markets = @ \cup {<<tx.e, tx.b>>}]
    [] tx.call = "tokenizeYield"     -> [c EXCEPT !.yieldTokens = @ - 1, !.xyt[tx.e] = @ + 1]
    [] tx.call = "bootstrapMarket"   -> [c EXCEPT !.xyt[tx.e] = @ - tx.amount,
                                           !.pools = @ \cup {<<tx.e, tx.b, tx.amount>>}]
    [] tx.call = "deployMining"      -> [c EXCEPT !.mining = Append(@, FALSE)]
    [] tx.call = "setAllocationSetting" -> [c EXCEPT !.mining[tx.at] = TRUE]
    [] tx.call = "deployDirectory"   -> [c EXCEPT !.directories = Append(@, {})]
    [] tx.call = "deployMiningV2"    -> [c EXCEPT !.miningV2 = Append(@, 0)]
    [] tx.call = "addAddress"        -> [c EXCEPT !.directories[tx.dir] = @ \cup {tx.at}]
    [] tx.call = "fund"              -> [c EXCEPT !.miningV2[tx.at] = @ + 4]

Deployments == {"deployMining", "deployMiningV2", "deployDirectory"}

\* The instance a deployment created.
Created(c, call) ==
  CASE call = "deployMining"    -> Len(c.mining)
    [] call = "deployMiningV2"  -> Len(c.miningV2)
    [] call = "deployDirectory" -> Len(c.directories)

(***************************************************************************)
(* The file.  JSON.stringify writes the elements of an array, and nothing  *)
(* that is set on it under a name: a file that began with directories: []  *)
(* never shows the directory.                                              *)
(***************************************************************************)
Written(mem) == IF world.arrayFile THEN [mem EXCEPT !.directory = 0] ELSE mem

\* An entry that is there stays as it is, an XYT of 0x0 too.
WithYield(m, e, real) ==
  IF e \in YieldEntries(m) THEN m
  ELSE IF real THEN [m EXCEPT !.yields = @ \cup {e}] ELSE [m EXCEPT !.zeroYields = @ \cup {e}]

\* The address is written over whatever was there.
WithMarket(m, market, real) ==
  [m EXCEPT !.markets     = IF real THEN @ \cup {market} ELSE @ \ {market},
            !.zeroMarkets = IF real THEN @ \ {market} ELSE @ \cup {market}]

\* Mistake: the new market is put in the copy after it has been written.
NotedMistake(p) == LET m == proc[p].mem IN
  CASE Step(p) = "saveDirectory"               -> [m EXCEPT !.directory = proc[p].made]
    [] proc[p].kind = "deploy_new_yield"       -> WithYield(m, proc[p].e, proc[p].real)
    [] OTHER -> m

Noted(p) == LET m == proc[p].mem IN
  CASE Step(p) = "saveDirectory"               -> [m EXCEPT !.directory = proc[p].made]
    [] proc[p].kind = "deploy_new_yield"       -> WithYield(m, proc[p].e, proc[p].real)
    [] proc[p].kind = "deploy_new_market"      -> WithMarket(m, <<proc[p].e, proc[p].b>>, proc[p].real)
    [] proc[p].kind = "deploy_liquitiy_mining" ->      \* one slot per base token
         [m EXCEPT !.mining = {x \in @ : x[1] # proc[p].b} \cup {<<proc[p].b, proc[p].made>>}]
    [] Step(p) = "save" /\ proc[p].kind \in V2Kinds ->
         [m EXCEPT !.miningV2 = @ \cup {<<proc[p].e, proc[p].made>>}]

-----------------------------------------------------------------------------
Start(p, job) ==
  /\ ~Running(p) /\ \A q \in Proc : q < p => Running(q)
  /\ runs < world.runs /\ runs' = runs + 1
  /\ proc' = [proc EXCEPT ![p] =
       [kind |-> job.kind, e |-> job.e, b |-> job.b, run |-> runs', pc |-> 1, waiting |-> FALSE,
        mem |-> file, start |-> chain.now + 1, initial |-> chain.xyt[job.e],
        minted |-> 0, made |-> 0, real |-> FALSE]]
  /\ overlapped' = (overlapped \/ mempool # << >> \/ \E q \in Proc : Running(q))
  /\ finished' = IF overlapped' THEN {} ELSE finished
  /\ UNCHANGED <<chain, mempool, file, world, crashes, changes, reverted>>

Ready(p) == Running(p) /\ ~AtEnd(p) /\ ~proc[p].waiting

Writes == {"save", "saveDirectory"}

Quiet == <<crashes, changes, reverted, overlapped>>

Send(p) ==
  /\ Ready(p) /\ Step(p) \notin Writes \cup {"poll", "read"}
  /\ ~(Step(p) = "deployDirectory" /\ proc[p].mem.directory # 0)
  /\ Needs(p) /\ Succeeds(chain, Transaction(p))
  /\ mempool' = Append(mempool, Transaction(p))
  /\ proc' = [proc EXCEPT ![p].waiting = TRUE]
  /\ UNCHANGED <<chain, file, world, runs, Quiet, finished>>

\* The file knows a directory already.
SkipDirectory(p) ==
  /\ Ready(p) /\ Step(p) = "deployDirectory" /\ proc[p].mem.directory # 0
  /\ proc' = [proc EXCEPT ![p].pc = @ + 2]
  /\ UNCHANGED <<chain, mempool, file, world, runs, Quiet, finished>>

\* Mistake: the error of a missing entry is swallowed.
FailMistake(p) ==
  /\ Ready(p) /\ Step(p) \notin {"poll", "read"}
  /\ Needs(p) /\ Step(p) \notin Writes /\ ~Succeeds(chain, Transaction(p))
  /\ proc' = [proc EXCEPT ![p] = Idle]
  /\ UNCHANGED <<chain, mempool, file, world, runs, Quiet, finished>>

\* A TypeError or a refused transaction: process.exit(1).
Fail(p) ==
  /\ Ready(p) /\ Step(p) \notin {"poll", "read"}
  /\ ~Needs(p) \/ (Step(p) \notin Writes /\ ~Succeeds(chain, Transaction(p)))
  /\ proc' = [proc EXCEPT ![p] = Idle]
  /\ UNCHANGED <<chain, mempool, file, world, runs, Quiet, finished>>

Confirmed(p, tx) ==
  [proc[p] EXCEPT !.waiting = FALSE, !.pc = @ + 1,
     !.made = IF tx.call \in Deployments THEN Created(chain', tx.call) ELSE @]

Mine ==
  /\ mempool # << >>
  /\ LET tx == Head(mempool) IN
     /\ chain' = IF Succeeds(chain, tx) THEN Effect(chain, tx) ELSE chain
     /\ reverted' = IF Succeeds(chain, tx) THEN reverted ELSE reverted \cup {tx}
     /\ proc' =
          IF tx.by = Nobody THEN proc
          ELSE [proc EXCEPT ![tx.by] =
                  IF tx.call \in Deployments /\ ~Succeeds(chain, tx) THEN Idle ELSE Confirmed(tx.by, tx)]
  /\ mempool' = Tail(mempool)
  /\ UNCHANGED <<file, world, runs, crashes, changes, overlapped, finished>>

\* The script asks PendleData for the address: 0x0 if there is no such contract.
Read(p) ==
  /\ Ready(p) /\ Step(p) = "read"
  /\ proc' = [proc EXCEPT ![p].pc = @ + 1,
       ![p].real = IF proc[p].kind = "deploy_new_yield" THEN proc[p].e \in chain.yields
                   ELSE <<proc[p].e, proc[p].b>> \in chain.markets]
  /\ UNCHANGED <<chain, mempool, file, world, runs, Quiet, finished>>

\* Mistake: the whole balance is taken for what was minted.
PollMistake(p) ==
  /\ Ready(p) /\ Step(p) = "poll"
  /\ chain.xyt[proc[p].e] # proc[p].initial
  /\ proc' = [proc EXCEPT ![p].minted = chain.xyt[proc[p].e], ![p].pc = @ + 1]
  /\ UNCHANGED <<chain, mempool, file, world, runs, Quiet, finished>>

\* mintXytAndBootstrapMarket: while (true), until the balance has changed.
Poll(p) ==
  /\ Ready(p) /\ Step(p) = "poll"
  /\ chain.xyt[proc[p].e] # proc[p].initial
  /\ proc' = [proc EXCEPT ![p].minted = chain.xyt[proc[p].e] - proc[p].initial, ![p].pc = @ + 1]
  /\ UNCHANGED <<chain, mempool, file, world, runs, Quiet, finished>>

Save(p) ==
  /\ Ready(p) /\ Step(p) \in Writes /\ Needs(p)
  /\ file' = Written(Noted(p))
  /\ proc' = [proc EXCEPT ![p].mem = Noted(p), ![p].pc = @ + 1]
  /\ UNCHANGED <<chain, mempool, world, runs, Quiet, finished>>

Result(p) ==
  [kind |-> proc[p].kind, e |-> proc[p].e, b |-> proc[p].b, run |-> proc[p].run, made |-> proc[p].made]

Finish(p) ==
  /\ Running(p) /\ AtEnd(p)
  /\ finished' = IF overlapped THEN {} ELSE finished \cup {Result(p)}
  /\ proc' = [proc EXCEPT ![p] = Idle]
  /\ UNCHANGED <<chain, mempool, file, world, runs, Quiet>>

\* The process dies; what it has broadcast is mined without it.
Crash(p) ==
  /\ Running(p) /\ crashes < MaxCrashes /\ crashes' = crashes + 1
  /\ proc' = [proc EXCEPT ![p] = Idle]
  /\ mempool' = [i \in DOMAIN mempool |->
       IF mempool[i].by = p THEN [mempool[i] EXCEPT !.by = Nobody] ELSE mempool[i]]
  /\ UNCHANGED <<chain, file, world, runs, changes, reverted, overlapped, finished>>

\* newYieldContracts is open to everybody, not only to the operator.
SomebodyCreatesYield(e) ==
  /\ CanCreateYield(chain, e)
  /\ chain' = [chain EXCEPT !.yields = @ \cup {e}]
  /\ UNCHANGED <<mempool, file, world, proc, runs, Quiet, finished>>

\* Time passes; a keeper pauses or unpauses, or the owner of PendleData switches
\* the pair off or on; the multisig takes the governance of the mining contracts.
Changed ==
  \/ \E t \in chain.now + 1 .. MaxTime : chain' = [chain EXCEPT !.now = t]
  \/ \E x \in world.switches :
       chain' = [chain EXCEPT !.shut = IF x \in @ THEN @ \ {x} ELSE @ \cup {x}]
  \/ chain.governs /\ chain' = [chain EXCEPT !.governs = FALSE]

Change ==
  /\ changes < world.changes /\ changes' = changes + 1 /\ Changed
  /\ UNCHANGED <<mempool, file, world, proc, runs, crashes, reverted, overlapped, finished>>

Script(p) == Send(p) \/ SkipDirectory(p) \/ Fail(p) \/ Read(p) \/ Poll(p) \/ Save(p) \/ Finish(p)

Next ==
  \/ \E p \in Proc, job \in world.jobs : Start(p, job)
  \/ \E p \in Proc : Script(p) \/ Crash(p)
  \/ Mine
  \/ \E e \in Expiry : SomebodyCreatesYield(e)
  \/ Change

\* A live process goes on and the network mines; nobody has to start a script.
Fairness == WF_vars(Mine) /\ \A p \in Proc : WF_vars(Script(p))

Spec == Init /\ [][Next]_vars /\ Fairness

-----------------------------------------------------------------------------
TypeOK ==
  /\ YieldEntries(file) \subseteq Expiry /\ file.markets \cup file.zeroMarkets \subseteq Expiry \X Base
  /\ chain.yields \subseteq Expiry /\ chain.markets \subseteq Expiry \X Base
  /\ chain.yieldTokens \in 0 .. YieldTokens
  /\ \A e \in Expiry : chain.xyt[e] \in 0 .. YieldTokens
  /\ \A p \in Proc : Running(p) =>
       /\ proc[p].kind \in Kinds /\ proc[p].pc \in 1 .. 7
       /\ proc[p].waiting => \E i \in DOMAIN mempool : mempool[i].by = p

\* What a call that reverted when it was mined, unnoticed, leaves behind in the
\* file: the address 0x0 for the contract it did not create, and a mining
\* contract without an allocation.  Nothing else does.
RevertsExplain ==
  /\ \A e \in file.zeroYields : \E tx \in reverted : tx.call = "newYieldContracts" /\ tx.e = e
  /\ \A m \in file.zeroMarkets :
       \E tx \in reverted : tx.call = "createMarket" /\ <<tx.e, tx.b>> = m
  /\ \A m \in file.mining :
       \/ chain.mining[m[2]]
       \/ \E tx \in reverted : tx.call = "setAllocationSetting" /\ tx.at = m[2]

\* Every entry of the file that is not 0x0 stands for a contract on the chain,
\* a market has the address of its yield contract beside it and a mining
\* contract has the entry, whatever scripts ran, together or one after the
\* other, and died, and whatever others did meanwhile; and where the file says
\* 0x0 or lists a mining contract without allocation, the very call that was to
\* provide it has reverted after it had been accepted.
FileIsClosed ==
  /\ TypeOK /\ RevertsExplain
  /\ file.yields \subseteq chain.yields /\ file.markets \subseteq chain.markets
  /\ file.yields \cap file.zeroYields = {} /\ file.markets \cap file.zeroMarkets = {}
  /\ \A m \in file.markets \cup file.zeroMarkets : m[1] \in file.yields
  /\ \A m \in file.mining : YieldEntries(file) # {} /\ m[2] \in DOMAIN chain.mining
  /\ \A m \in file.miningV2 : m[1] \in YieldEntries(file) /\ m[2] \in DOMAIN chain.miningV2
  /\ file.directory \in {0} \cup DOMAIN chain.directories

\* With a file that holds the directory in an object, undisturbed runs share
\* one directory.  A file that deploy.ts wrote holds an array, and every run
\* deploys a directory of its own.
OneDirectory == world.arrayFile \/ overlapped \/ crashes > 0 \/ Len(chain.directories) <= 1

\* The run's own transaction of this call was mined and reverted.
Reverted(run, call) == \E tx \in reverted : tx.run = run /\ tx.call = call

Recorded(r) ==
  CASE r.kind = "deploy_new_yield"       -> \/ r.e \in file.yields
                                            \/ r.e \in file.zeroYields
    [] r.kind = "deploy_new_market"      -> \/ <<r.e, r.b>> \in file.markets
                                            \/ Reverted(r.run, "createMarket")
    [] r.kind = "deploy_liquitiy_mining" -> \E m \in file.mining : m[1] = r.b /\ m[2] >= r.made
    [] r.kind \in V2Kinds                -> <<r.e, r.made>> \in file.miningV2
    [] OTHER -> TRUE

\* A market is bootstrapped with what its own run has minted, and XYT left
\* over by a run that died is not swept in, unless runs overlapped (the poll
\* compares with the balance read at the start of the run).
BootstrapsOwnMint == overlapped \/ \A pool \in chain.pools : pool[3] = 1

\* What a script that ran to its end has deployed is in the file from then on
\* ("This will save the new yield contracts to deployments/<network>.json",
\* README.md:32): a market by its address unless the run's own createMarket
\* reverted unnoticed, a yield contract by an entry that is 0x0 only as
\* FileIsClosed says.  Only undisturbed runs are remembered in finished: when
\* two overlap each writes back the copy it read, and the one that saves last
\* undoes what the other has saved.  And what it has bootstrapped is its own.
FinishedIsRecorded ==
  /\ OneDirectory /\ BootstrapsOwnMint
  /\ \A r \in finished : Recorded(r)

\* Nobody is about to write the address of the yield contract of e: a script
\* that has it in its copy, or deploys it and has no entry of 0x0 in its copy.
Unattended(e) ==
  \A p \in Proc : Running(p) =>
    /\ e \notin proc[p].mem.yields
    /\ ~(proc[p].kind = "deploy_new_yield" /\ proc[p].e = e /\ e \notin proc[p].mem.zeroYields
          /\ (proc[p].waiting \/ proc[p].pc > 1))

Lost(e) == e \in chain.yields /\ e \notin file.yields /\ Unattended(e)

\* A yield contract that exists and whose address is not in the file - its
\* script died before the save, somebody else created it, or an earlier call
\* reverted and left an entry of 0x0, which is never repaired - is lost to the
\* scripts for ever: deploy_new_yield is refused, and no market is recorded.
LostYieldStaysLost == [][\A e \in Expiry : Lost(e) => Lost(e)' /\ \A b \in Base :
                           <<e, b>> \in file.markets' => <<e, b>> \in file.markets]_vars

\* It polls for XYT that will not come.
Polling(p) == Running(p) /\ ~AtEnd(p) /\ Step(p) = "poll" /\ chain.xyt[proc[p].e] = proc[p].initial

\* Every script comes to an end, except for a poll: of an overlapping run, or
\* of one whose own tokenizeYield reverted unnoticed when it was mined.
EveryScriptEnds ==
  \A p \in Proc : Running(p) ~>
    \/ ~Running(p)
    \/ Polling(p) /\ (overlapped \/ Reverted(proc[p].run, "tokenizeYield"))
=============================================================================
