----------------------------- MODULE Deployment -----------------------------
(***************************************************************************)
(* scripts/deploy/deploy.ts: a script that sets up the core contracts in   *)
(* numbered steps, keeps a book of the addresses it deployed in memory,    *)
(* writes book and step number to deployments/<network>.json after each    *)
(* step, and on the next run resumes after the last step in the file.      *)
(*                                                                         *)
(* The script sends one transaction at a time and waits for it.  A         *)
(* transaction that would revert is refused when it is sent; one that      *)
(* comes to revert before it is mined counts as confirmed, for             *)
(* waitForTransaction does not look at the status.  The script may die     *)
(* anywhere; what it has broadcast is mined all the same, in nonce order.  *)
(***************************************************************************)
EXTENDS CoreChain

CONSTANTS
  Nets,               \* the networks explored
  LastSteps,          \* the values LAST_STEP may have, NUMBER_OF_STEPS for unset
  MaxRuns,            \* bound on the number of times the script is started
  MaxInterruptions,   \* bound on the runs that are killed or given a LAST_STEP
  MaxResets           \* bound on the runs started with RESET=true

ASSUME DeploymentAssumption ==
  /\ Nets \subseteq Networks
  /\ LastSteps \subseteq 0 .. NUMBER_OF_STEPS /\ NUMBER_OF_STEPS \in LastSteps
  /\ MaxRuns \in Nat /\ MaxInterruptions \in Nat /\ MaxResets \in Nat
  /\ \A n \in Networks : StepsAreOrdered(n)

VARIABLES
  net,            \* hre.network.name
  chain,          \* the contracts (module CoreChain)
  mempool,        \* broadcast, not yet mined, in nonce order
  file,           \* deployments/<network>.json: step and contracts
  running,        \* a run of the script is alive
  step,           \* the last step this run has finished
  pc,             \* the operation of the next step it is at
  waiting,        \* it waits for its own transaction, the last of mempool
  book,           \* deployment.contracts in its memory
  lastStep,       \* LAST_STEP
  cut,            \* the last run was killed or stopped at an early LAST_STEP
  doomed,         \* this run resumed at a step that was already Stuck (history)
  runs, interruptions, resets

scriptVars == <<running, step, pc, waiting, book, lastStep, cut, doomed>>
counters   == <<runs, interruptions, resets>>
deployVars == <<net, chain, mempool, file, scriptVars, counters>>

EmptyBook == [name \in Contracts |-> 0]

DeployInit ==
  /\ net \in Nets
  /\ chain = EmptyChain
  /\ mempool = << >>
  /\ file = [step |-> -1, contracts |-> EmptyBook]
  /\ running = FALSE /\ waiting = FALSE /\ cut = FALSE /\ doomed = FALSE
  /\ step = -1 /\ pc = 1 /\ book = EmptyBook /\ lastStep = NUMBER_OF_STEPS
  /\ runs = 0 /\ interruptions = 0 /\ resets = 0

(***************************************************************************)
(* The transaction the script is about to send.                            *)
(***************************************************************************)
Current == Program[net][step + 1]
Remaining == pc \in DOMAIN Current
Transaction(op, contracts) ==
  [op |-> op, at |-> [n \in op.args \cup {op.on} |-> contracts[n]]]

\* validAddress: every address the operation needs is in the book.
AddressesKnown(op, contracts) ==
  \A n \in op.args \cup (IF op.kind = "deploy" THEN {} ELSE {op.on}) : contracts[n] # 0

CanSend(op, contracts, c) ==
  AddressesKnown(op, contracts) /\ Succeeds(c, Transaction(op, contracts))

\* The step does not throw before the operation, and the operation can be sent.
Accepted == ~Throws(net, step + 1, pc) /\ CanSend(Current[pc], book, chain)

(***************************************************************************)
(* What a rerun from the file cannot do any more: an operation of the next *)
(* step at which the script throws, or, on a contract that step does not   *)
(* deploy afresh, which the chain refuses for good.                        *)
(***************************************************************************)
Fresh(s) == DeployedBy(Operations[net][s])

Refused(op, c) == LET tx == Transaction(op, file.contracts) IN
  \/ op.kind = "initialize" /\ ~CanInitialize(c, tx)
  \/ op.kind = "add" /\ ~IsFree(c, tx.at[Data], op.key)
  \/ op.kind \in {"add", "set"}
       /\ ~onlyGovernance(c, GovMain, ManagerOf(c, op.on, tx.at[op.on]))
  \/ op.kind = "transfer" /\ ~onlyGovernance(c, op.on, tx.at[op.on])

Stuck ==
  \/ \E i \in DOMAIN Program[net][file.step + 1] : Throws(net, file.step + 1, i)
  \/ \E op \in Operations[net][file.step + 1] :
      op.on \notin Fresh(file.step + 1) /\ Refused(op, chain)

-----------------------------------------------------------------------------
(***************************************************************************)
(* main: read the file, RESET only sets the step back, and the addresses   *)
(* of the old instance stay in the book until the steps overwrite them.    *)
(***************************************************************************)
StartRun(reset, last) ==
  /\ ~running
  /\ runs < MaxRuns /\ runs' = runs + 1
  /\ reset => resets < MaxResets
  /\ resets' = resets + (IF reset THEN 1 ELSE 0)
  /\ last < NUMBER_OF_STEPS => interruptions < MaxInterruptions
  /\ interruptions' = interruptions + (IF last < NUMBER_OF_STEPS THEN 1 ELSE 0)
  /\ step' = IF reset THEN -1 ELSE file.step
  /\ step' < last                       \* else the loop runs no step
  /\ book' = file.contracts
  /\ lastStep' = last /\ pc' = 1 /\ waiting' = FALSE /\ running' = TRUE
  /\ cut' = (last < NUMBER_OF_STEPS)
  /\ doomed' = (Stuck /\ ~reset)
  /\ UNCHANGED <<net, chain, mempool, file>>

\* Mistake: the transaction is sent without waiting for it, a deployment excepted.
BroadcastMistake ==
  LET op == Current[pc] IN
  /\ running /\ ~waiting /\ Remaining /\ Accepted
  /\ mempool' = Append(mempool, Transaction(op, book))
  /\ waiting' = (op.kind = "deploy")
  /\ pc' = pc + (IF op.kind = "deploy" THEN 0 ELSE 1)
  /\ UNCHANGED <<net, chain, file, running, step, book, lastStep, cut, doomed, counters>>

\* contractFactory.deploy or transaction(...): accepted when it would succeed
\* on the chain as it is now.
Broadcast ==
  /\ running /\ ~waiting /\ Remaining
  /\ Accepted
  /\ mempool' = Append(mempool, Transaction(Current[pc], book))
  /\ waiting' = TRUE
  /\ UNCHANGED <<net, chain, file, running, step, pc, book, lastStep, cut, doomed, counters>>

\* Mistake: the error is logged, and the script goes on with the next operation.
FailMistake ==
  /\ running /\ ~waiting /\ Remaining
  /\ ~Accepted
  /\ pc' = pc + 1
  /\ UNCHANGED <<net, chain, mempool, file, running, step, waiting, book, lastStep, cut,
                 doomed, counters>>

\* A missing address, a refused transaction or an exception: process.exit(1).
Fail ==
  /\ running /\ ~waiting /\ Remaining
  /\ ~Accepted
  /\ running' = FALSE
  /\ UNCHANGED <<net, chain, mempool, file, step, pc, waiting, book, lastStep, cut,
                 doomed, counters>>

\* The chain takes the next transaction.  The script, when it is its own,
\* notes the address of what it deployed and goes on, whatever the status.
Record(tx, n) == [book EXCEPT ![tx.op.on] = IF tx.op.kind = "deploy" THEN n ELSE @]

Confirm(tx) ==
  IF waiting /\ Len(mempool) = 1
  THEN /\ waiting' = FALSE /\ pc' = pc + 1
       /\ book' = Record(tx, Len(chain'.made[tx.op.on]))
  ELSE UNCHANGED <<waiting, pc, book>>

Mine ==
  /\ mempool # << >>
  /\ mempool' = Tail(mempool)
  /\ chain' = Mined(chain, Head(mempool))
  /\ Confirm(Head(mempool))
  /\ UNCHANGED <<net, file, running, step, lastStep, cut, doomed, counters>>

\* deployment.step = step, and the file is written.
SaveStep ==
  /\ running /\ ~waiting /\ ~Remaining
  /\ step' = step + 1 /\ pc' = 1
  /\ file' = [step |-> step + 1, contracts |-> book]
  /\ running' = (step + 1 < lastStep)
  /\ UNCHANGED <<net, chain, mempool, waiting, book, lastStep, cut, doomed, counters>>

\* The process dies: a network error, a closed terminal, a failed verification.
Crash ==
  /\ running /\ interruptions < MaxInterruptions
  /\ interruptions' = interruptions + 1
  /\ running' = FALSE /\ waiting' = FALSE /\ cut' = TRUE
  /\ UNCHANGED <<net, chain, mempool, file, step, pc, book, lastStep, doomed, runs, resets>>

\* The governance multisig accepts what step 12 offered it, whenever it likes.
ClaimGovernance(gov) ==
  /\ CanClaim(chain, gov)
  /\ chain' = Claimed(chain, gov, ~MultisigIsDeployer(net))
  /\ UNCHANGED <<net, mempool, file, scriptVars, counters>>

Script == Broadcast \/ Fail \/ SaveStep

DeployNext ==
  \/ \E reset \in BOOLEAN, last \in LastSteps : StartRun(reset, last)
  \/ Script \/ Mine \/ Crash
  \/ \E gov \in chain.offered : ClaimGovernance(gov)

(***************************************************************************)
(* A live process goes on, and the network mines what it was sent; the     *)
(* first run is started.  Nobody has to start another, to kill one, or to  *)
(* claim governance.                                                       *)
(***************************************************************************)
Fairness ==
  /\ WF_deployVars(Script) /\ WF_deployVars(Mine)
  /\ WF_deployVars(runs = 0 /\ StartRun(FALSE, NUMBER_OF_STEPS))

DeploySpec == DeployInit /\ [][DeployNext]_deployVars /\ Fairness

-----------------------------------------------------------------------------
IsBook(b) ==
  DOMAIN b = DOMAIN chain.made /\ \A name \in DOMAIN b : b[name] \in 0 .. Len(chain.made[name])

DeployTypeOK ==
  /\ net \in Nets
  /\ \A r \in chain.registered : Exists(chain, Data, r[1]) /\ Exists(chain, r[2], r[3])
  /\ \A gov \in chain.offered \cup chain.claimed : Exists(chain, gov[1], gov[2])
  /\ \A i \in DOMAIN mempool : mempool[i].op.on \in DOMAIN chain.made
  /\ file.step \in -1 .. NUMBER_OF_STEPS /\ IsBook(file.contracts)
  /\ step \in -1 .. NUMBER_OF_STEPS /\ IsBook(book) /\ lastStep \in LastSteps
  /\ {running, waiting, cut, doomed} \subseteq BOOLEAN
  /\ waiting => running /\ mempool # << >>

(***************************************************************************)
(* What the file vouches for.  An operation is on the chain when the       *)
(* contracts the file names were built from and given the contracts the    *)
(* file names, and not, say, those of an earlier run.                      *)
(***************************************************************************)
OnChain(op) == LET at(n) == file.contracts[n] IN
  /\ Exists(chain, op.on, at(op.on))
  /\ CASE op.kind = "deploy"     -> \A a \in op.args :
                                      chain.made[op.on][at(op.on)].with[a] = at(a)
       [] op.kind = "initialize" -> \A a \in op.args :
                                      chain.made[op.on][at(op.on)].init = at(a)
       [] op.kind = "add"        -> \A a \in op.args :
                                      <<at(Data), a, at(a)>> \in chain.registered
       [] op.kind = "set"        -> <<op.on, at(op.on), op.key>> \in chain.settings
       [] op.kind = "transfer"   -> \/ <<op.on, at(op.on)>> \in chain.offered \cup chain.claimed
                                    \/ MultisigIsDeployer(net)

StepsDone == \A s \in 0 .. file.step : \A op \in Operations[net][s] : OnChain(op)

GovernanceGone == chain.claimed # {}

\* A forge PendleData lists is usable: its reward manager and its yield
\* contract deployer were initialised with this very forge, and its router
\* leads back to the PendleData that lists it (steps 8-20 initialise before
\* they list; the forge reads data from the router it was given).
ListedForgeIsWired ==
  \A r \in chain.registered :
    LET inst == chain.made[r[2]][r[3]] IN
    /\ chain.made[Router][inst.with[Router]].with[Data] = r[1]
    /\ \A a \in DOMAIN inst.with \ {GovMain, Router} :
         chain.made[a][inst.with[a]].init = r[3]

\* No run ever finishes the NUMBER_OF_STEPS = 20 steps (deploy.ts:29).  On
\* Avalanche step 5 throws on the constants that are not exported; elsewhere
\* step 17 adds the generic market factory that step 16 has already added, and
\* PendleData refuses a known id.
StopsShort == file.step <= LastFinished(net)

\* A step the file records as done is done on the chain, with the contracts
\* the file records, and every forge that is listed is wired, however many
\* runs died on the way and whether or not a RESET replaced part of the
\* deployment - the steps as long as the deployer governs.  Without that
\* proviso it fails: a transaction overtaken by claimGovernance reverts, is
\* logged as "[Confirmed]" (deployHelpers.ts:356) and its step is saved as
\* done (deploy.ts:238-241).  The steps a network never reaches are not done.
StepsDoneWhileGoverning ==
  DeployTypeOK /\ StopsShort /\ ListedForgeIsWired /\ (GovernanceGone \/ StepsDone)

\* A run that resumes at a step it cannot redo changes nothing in the file:
\* after a crash between a one-shot call and the save, or once governance is
\* claimed, no rerun gets past the step; only RESET does.
StuckUntilReset == [][doomed /\ doomed' => file' = file]_deployVars

\* Every run comes to an end, and unless it is cut short it ends at a step no
\* rerun can do: in an undefined constant on Avalanche (deploy.ts:56), at the
\* second listing of the generic factory elsewhere, or at what a killed run or
\* a claim of governance has spent.
EveryRunSettles == running ~> (~running /\ (cut \/ Stuck))

\* The first run, left alone, finishes every step up to the one no network gets
\* past: each contract is at hand, and each call is permitted, when its step
\* comes.  Only a kill, an early LAST_STEP or a claim of governance after step
\* 12 prevents it.
FirstRunGoesAllTheWay ==
  <>(interruptions > 0 \/ GovernanceGone \/ file.step = LastFinished(net))
=============================================================================
