---------------------------- MODULE ContractBook ----------------------------
(***************************************************************************)
(* pendle-deployment-scripts: a console session over the contract book.    *)
(* The operator calls the functions of module ForgeRecipes and of admin/   *)
(* one after the other.  They keep the book in memory (env.contractMap and *)
(* env.forgeMap), the contracts they work with in env, and write the whole *)
(* book, with a flattened copy beside it, after every entry.               *)
(*                                                                         *)
(* What can go wrong: a write fails (the flattened copy is computed with   *)
(* calls to the chain), the process dies, or the one save that nobody      *)
(* waits for, newLiqMiningYT's, runs on beside the next function.          *)
(*                                                                         *)
(* An address is a position in chain.deployed.  A forge has one yield      *)
(* contract, one market and one mining contract for its YT and its OT.     *)
(* Of what an entry says of its contract only this is kept: a forge's      *)
(* "outdated" has its yield contract when the data of the entry are not    *)
(* those that the chain answers (deployments/AVAX.json has an entry        *)
(* without a start).                                                       *)
(* Local networks, where nothing is written, are left out.                 *)
(***************************************************************************)
EXTENDS ForgeRecipes, Naturals, FiniteSets

CONSTANTS
  Worlds,        \* the situations to begin with: which contracts exist and are
                 \* booked, which forges are live, what the operator may call and
                 \* how often
  MaxRestarts, MaxFaults

VARIABLES
  chain,      \* the contracts, what they were built with, and how they are tied
  file,       \* deployments/<network>.json: contractMap and forgeMap
  flat,       \* <network>-flat.json, by the maps it was computed from
  mem,        \* env.contractMap and env.forgeMap
  env,        \* name -> address: the contracts in env's fields
  up,         \* the console runs
  job,        \* the function it is in
  writer,     \* the saves under way: the one waited for, and the other
  world, ops, restarts, faults,
  happened,   \* (history) incidents
  finished    \* (history) operations that returned without an error

bookVars == <<chain, file, flat, mem, env, up, job, writer, world, ops, restarts, faults,
              happened, finished>>

Idle == [phase |-> "idle"]
NoJob == [op |-> "none"]
NoMap == [n \in {} |-> 0]

With(map, n, value) == [m \in DOMAIN map \cup {n} |-> IF m = n THEN value ELSE map[m]]

Busy(w) == writer[w] # Idle
Working == job # NoJob

-----------------------------------------------------------------------------
(***************************************************************************)
(* Operations: a kind, a forge (or a core recipe) and a run mode.          *)
(***************************************************************************)
Modes == {"DEPLOY", "FETCH", "FORCE_DEPLOY", "DEPLOY_NOSAVE"}

Op(kind, id, mode) == [kind |-> kind, id |-> id, mode |-> mode]

Deploys(k, modes) == {Op("deploy", k.id, m) : m \in modes}

LiqYT(id) == "LiqYT_" \o id
LiqOT(id) == "LiqOT_" \o id
Core == "core"

newYieldContracts(id)   == <<[do |-> "newYieldContracts", id |-> id],
                             [do |-> "noteYield", id |-> id]>>
saveNewYieldContract(id) == <<[do |-> "noteYield", id |-> id]>>
createNewYTMarket(id)   == <<[do |-> "createMarket", id |-> id], [do |-> "noteMarket", id |-> id]>>
\* getInfoMarket asks the chain; getOTAddrFromJoePool looks the OT up in the book.
newLiqMiningYT(id)      == <<[do |-> "getInfoMarket", id |-> id], Contract(LiqYT(id), {PAUSE_LIQ}),
                             [do |-> "noteLiqYT", id |-> id, name |-> LiqYT(id)]>>
newLiqMiningOTBase(id)  == <<[do |-> "getOTAddr", id |-> id], Contract(LiqOT(id), {PAUSE_LIQ}),
                             [do |-> "noteLiqOT", id |-> id, name |-> LiqOT(id)]>>
\* Traderjoe's LP mining is booked under TraderJoeComplex.
newLiqMiningJLP(id)     == <<Contract("LiqJLP", {PAUSE_LIQ}),
                             [do |-> "noteLiqOT", id |-> "TraderJoeComplex", name |-> "LiqJLP"]>>

Recipe(op) ==
  CASE op.kind = "deploy"          -> deployForge(KitOf(op.id))
    [] op.kind = "init"            -> initForge(KitOf(op.id))
    [] op.kind = "add"             -> addForgeToPendleData(KitOf(op.id))
    [] op.kind = "fetchAll"        -> fetchAll(op.id)
    [] op.kind = "governance"      -> deployGovernanceAndPausingManagers
    [] op.kind = "retroactive"     -> deployNewContracts(op.id)
    [] op.kind = "saveYield"       -> saveNewYieldContract(op.id)
    [] op.kind = "newYield"        -> newYieldContracts(op.id)
    [] op.kind = "newMarket"       -> createNewYTMarket(op.id)
    [] op.kind = "newLiqYT"        -> newLiqMiningYT(op.id)
    [] op.kind = "newLiqOT"        -> newLiqMiningOTBase(op.id)
    [] op.kind = "newLiqJLP"       -> newLiqMiningJLP(op.id)

\* What the operator can call.  The mining contracts are always deployed with
\* DEPLOY, and fetch-all fetches.
KitIds == {k.id : k \in Kits}
Nets == {"AVAX", "ETH"}

Calls ==
  UNION {Deploys(k, Modes)
           \cup (IF k.shared THEN {Op("init", k.id, ""), Op("add", k.id, "")} ELSE {})
           \cup {Op(kind, k.id, "") : kind \in {"newYield", "saveYield", "newMarket"}}
           \cup {Op(kind, k.id, "DEPLOY") : kind \in {"newLiqYT", "newLiqOT"}} : k \in Kits}
    \cup {Op("newLiqJLP", "", "DEPLOY")}
    \cup {Op("governance", "", m) : m \in Modes}
    \cup {Op("fetchAll", net, "FETCH") : net \in Nets}
    \cup {Op("retroactive", net, m) : net \in Nets, m \in Modes}

Step == Recipe(job.op)[job.pc]
AtEnd == job.pc > Len(Recipe(job.op))

\* The main thread goes on only when the save it waits for is done.
Ready == up /\ Working /\ ~AtEnd /\ ~Busy("main")

-----------------------------------------------------------------------------
(***************************************************************************)
(* What the functions rely on in the order of their steps and in what they *)
(* name.  It is a statement about the recipes as data, with no parameter.  *)
(***************************************************************************)
Notes == {"noteYield", "noteMarket", "noteLiqYT", "noteLiqOT"}
Transactions == {"initialize", "addForge", "addMarketFactory", "setForgeFactoryValidity",
                 "getInfoMarket", "getOTAddr", "newYieldContracts", "createMarket"}

MiningNames == UNION {{LiqYT(id), LiqOT(id)} : id \in KitIds} \cup {"LiqJLP"}

Deployed(r, i, n) == \E j \in 1 .. i - 1 : r[j].do = "contract" /\ r[j].name = n

\* A forge comes after its reward manager and its deployer, and after these it
\* always comes; a mining contract is paused by PAUSE_LIQ.
ContractIsOrdered(op, r, i) ==
  /\ op.mode \in Modes /\ ~Deployed(r, i, r[i].name)
  /\ \A k \in Kits :
       /\ r[i].name = k.forge =>
            {k.rm, k.ycd} \subseteq r[i].uses /\ Deployed(r, i, k.rm) /\ Deployed(r, i, k.ycd)
       /\ r[i].name \in {k.rm, k.ycd} =>
            \E j \in i + 1 .. Len(r) : r[j].do = "contract" /\ r[j].name = k.forge
  /\ r[i].name \in MiningNames => PAUSE_LIQ \in r[i].uses /\ op.mode = "DEPLOY"

ListingIsOrdered(op, r, i) ==
  \E k \in Kits :
    /\ r[i].id = k.id /\ r[i].forge = k.forge /\ r[i].rm = k.rm
    /\ r[i].always <=> k.lists = "always"
    /\ Deployed(r, i, k.rm) /\ Deployed(r, i, k.forge)
    /\ op.mode = "DEPLOY" => op = Op("deploy", k.id, "DEPLOY")

NoteIsOrdered(op, r, i) ==
  IF r[i].do \in {"noteLiqYT", "noteLiqOT"}
  THEN /\ op.mode = "DEPLOY" /\ "name" \in DOMAIN r[i]
       /\ r[i].name \in MiningNames /\ Deployed(r, i, r[i].name)
       /\ r[i].do = "noteLiqYT" => r[i].name = LiqYT(r[i].id)
  ELSE "name" \notin DOMAIN r[i]

\* Only contracts of one forge are initialised, and not where any is deployed.
InitializeIsOrdered(r, i) ==
  /\ {"target", "forge"} \subseteq DOMAIN r[i]
  /\ \E k \in Kits : r[i].target \in {k.rm, k.ycd} /\ r[i].forge = k.forge
  /\ \A j \in DOMAIN r : r[j].do # "contract"

\* What is to be recorded has a step that records it.
Records(op, r) ==
  LET noted(do, id) == \E i \in DOMAIN r : r[i].do = do /\ r[i].id = id
      mined(do, id, name) == \E i \in DOMAIN r : r[i].do = do /\ r[i].id = id /\ r[i].name = name
  IN  /\ op.kind = "deploy" =>
           LET k == KitOf(op.id) IN
           /\ k \in Kits /\ k.id = op.id /\ r # << >> /\ r[1].do = "contract" /\ r[1].name = k.rm
           /\ \A n \in {k.rm, k.ycd, k.forge} : Deployed(r, Len(r) + 1, n)
           /\ k.lists # "never" => noted("saveNewForge", k.id)
      /\ op.kind \in {"newYield", "saveYield"} => noted("noteYield", op.id)
      /\ op.kind = "newMarket" => noted("noteMarket", op.id)
      /\ op.kind = "newLiqYT"  => mined("noteLiqYT", op.id, LiqYT(op.id))
      /\ op.kind = "newLiqOT"  => mined("noteLiqOT", op.id, LiqOT(op.id))
      /\ op.kind = "newLiqJLP" => mined("noteLiqOT", "TraderJoeComplex", "LiqJLP")

RecipesAreOrdered ==
  /\ \A op \in Calls : LET r == Recipe(op) IN
       /\ r \in Seq({r[i] : i \in DOMAIN r}) /\ Records(op, r)
       /\ \A i \in DOMAIN r :
            \/ r[i].do = "contract" /\ ContractIsOrdered(op, r, i)
            \/ r[i].do = "saveNewForge" /\ ListingIsOrdered(op, r, i)
            \/ r[i].do \in Notes /\ NoteIsOrdered(op, r, i)
            \/ r[i].do \in Transactions /\ (r[i].do = "initialize" => InitializeIsOrdered(r, i))
  /\ \A k \in Kits : KitOf(k.id) = k /\ k.forge \notin {k.rm, k.ycd}

-----------------------------------------------------------------------------
(***************************************************************************)
(* A world's contracts are on the chain and in the book.                   *)
(***************************************************************************)
IndexOf(names, n) == CHOOSE i \in DOMAIN names : names[i] = n

InitialBook(w) ==
  [contractMap |-> [n \in {w.names[i] : i \in DOMAIN w.names} |-> IndexOf(w.names, n)],
   forgeMap |-> [id \in w.listed |->
     [forge |-> IndexOf(w.names, KitOf(id).forge), rm |-> IndexOf(w.names, KitOf(id).rm),
      yields |-> {id} \cap w.outdated, markets |-> {}, liqYTs |-> {}, liqOTs |-> {},
      outdated |-> {id} \cap w.outdated]]]

UsesOf(w, n) ==
  LET all == fetchAll("AVAX") \o fetchAll("ETH") \o deployForge(JoeComplex)
      is  == {i \in DOMAIN all : all[i].do = "contract" /\ all[i].name = n}
  IN  IF is = {} THEN {} ELSE {IndexOf(w.names, u) : u \in all[CHOOSE i \in is : TRUE].uses}

InitialChain(w) ==
  [deployed |-> [i \in DOMAIN w.names |-> [name |-> w.names[i], uses |-> UsesOf(w, w.names[i])]],
   forgeOf |-> [a \in {IndexOf(w.names, n) :
                         n \in UNION {{KitOf(id).rm, KitOf(id).ycd} : id \in w.live}} |->
                  CHOOSE f \in DOMAIN w.names :
                    /\ a \in UsesOf(w, w.names[f])
                    /\ \E k \in Kits : k.forge = w.names[f]],
   forges |-> [id \in w.live |-> IndexOf(w.names, KitOf(id).forge)],
   factories |-> {GENERIC}, pairs |-> {<<id, KitOf(id).factory>> : id \in w.live},
   yields |-> w.outdated, markets |-> {}]

\* setUpEnv, and the core contracts fetched from the book.
FetchedCore(book) ==
  LET names == DOMAIN book.contractMap \cap {world.names[i] : i \in 1 .. world.core}
  IN  [n \in names |-> book.contractMap[n]]

\* The contracts of a map were built with the contracts of the map, and a forge
\* that is listed is the one in the map, with the reward manager it was built with.
Linked(c, map) ==
  \A n \in DOMAIN map :
    /\ c.deployed[map[n]].name = n
    /\ \A u \in c.deployed[map[n]].uses :
         c.deployed[u].name \in DOMAIN map /\ map[c.deployed[u].name] = u

ListedAsBuilt(c, book) ==
  \A id \in DOMAIN book.forgeMap :
    /\ KitOf(id).forge \in DOMAIN book.contractMap
    /\ book.forgeMap[id].forge = book.contractMap[KitOf(id).forge]
    /\ book.forgeMap[id].rm \in c.deployed[book.forgeMap[id].forge].uses

\* Forges and mining contracts were built with what their recipes say.
BuiltAsOrdered(c) ==
  \A i \in DOMAIN c.deployed :
    LET uses(n) == \E u \in c.deployed[i].uses : c.deployed[u].name = n IN
    /\ \A k \in Kits : c.deployed[i].name = k.forge => uses(k.rm) /\ uses(k.ycd)
    /\ c.deployed[i].name \in MiningNames => uses(PAUSE_LIQ)

InitialisedWithUser(c) ==
  \A a \in DOMAIN c.forgeOf : a \in c.deployed[c.forgeOf[a]].uses

IsChain(c) ==
  /\ DOMAIN c = {"deployed", "forgeOf", "forges", "factories", "pairs", "yields", "markets"}
  /\ c.deployed \in Seq({c.deployed[i] : i \in DOMAIN c.deployed})
  /\ \A i \in DOMAIN c.deployed : c.deployed[i].uses \subseteq DOMAIN c.deployed
  /\ \A a \in DOMAIN c.forgeOf : c.forgeOf[a] \in DOMAIN c.deployed

\* The operator calls the functions there are, and begins with a book that is in
\* order and has the pausing manager of the mining contracts among its core.
IsWorld(w) ==
  /\ w.ops \subseteq Calls /\ w.kits \subseteq KitIds /\ w.maxOps \in Nat
  /\ w.outdated \subseteq w.listed \cap w.live
  /\ PAUSE_LIQ \in {w.names[i] : i \in 1 .. w.core}
  /\ PAUSE_LIQ \in DOMAIN InitialBook(w).contractMap
  /\ \A n \in DOMAIN InitialBook(w).contractMap :
       InitialBook(w).contractMap[n] \in DOMAIN InitialChain(w).deployed
  /\ IsChain(InitialChain(w)) /\ BuiltAsOrdered(InitialChain(w))
  /\ InitialisedWithUser(InitialChain(w))
  /\ Linked(InitialChain(w), InitialBook(w).contractMap)
  /\ ListedAsBuilt(InitialChain(w), InitialBook(w))

ASSUME BookAssumption ==
  /\ RecipesAreOrdered
  /\ \A w \in Worlds : IsWorld(w)
  /\ MaxRestarts \in Nat /\ MaxFaults \in Nat

BookInit ==
  /\ world \in Worlds
  /\ file = InitialBook(world) /\ mem = file
  /\ flat = [contracts |-> file.contractMap, forges |-> file.forgeMap]
  /\ env = FetchedCore(file)
  /\ chain = InitialChain(world)
  /\ up = TRUE /\ job = NoJob /\ writer = [w \in {"main", "liqYT"} |-> Idle]
  /\ ops = 0 /\ restarts = 0 /\ faults = 0 /\ happened = {} /\ finished = {}

-----------------------------------------------------------------------------
(***************************************************************************)
(* Leaving a function: by its end, or by an exception at any point of it.  *)
(***************************************************************************)
Bounds == <<world, restarts, faults>>

Call(op) ==
  /\ up /\ ~Working /\ ops < world.maxOps /\ ops' = ops + 1
  /\ job' = [op |-> op, pc |-> 1, made |-> 0]
  /\ happened' = happened \cup (IF op.mode \in {"FORCE_DEPLOY", "DEPLOY_NOSAVE"}
                                THEN {"forced"} ELSE {})
  /\ UNCHANGED <<chain, file, flat, mem, env, up, writer, finished, Bounds>>

Return ==
  /\ up /\ Working /\ AtEnd /\ ~Busy("main")
  /\ job' = NoJob /\ finished' = finished \cup {job.op}
  /\ UNCHANGED <<chain, file, flat, mem, env, up, writer, ops, happened, Bounds>>

Throw == job' = NoJob /\ happened' = happened \cup {"cut"}

Advance == job' = [job EXCEPT !.pc = @ + 1, !.made = 0]

-----------------------------------------------------------------------------
(***************************************************************************)
(* deployOrFetchContract                                                   *)
(***************************************************************************)
Mode == job.op.mode

AtContract == Ready /\ Step.do = "contract"

FetchContract ==
  /\ AtContract /\ Mode = "FETCH" /\ Step.name \in DOMAIN mem.contractMap
  /\ env' = With(env, Step.name, mem.contractMap[Step.name])
  /\ Advance
  /\ UNCHANGED <<chain, file, flat, mem, up, writer, ops, happened, finished, Bounds>>

\* Mistake: a name that exists is deployed again.
CanDeployMistake == Step.uses \subseteq DOMAIN env

\* The constructor arguments come from env: a field that was never set throws.
CanDeploy ==
  /\ Mode = "DEPLOY" => Step.name \notin DOMAIN mem.contractMap
  /\ Step.uses \subseteq DOMAIN env

DeployContract ==
  /\ AtContract /\ Mode # "FETCH" /\ job.made = 0 /\ CanDeploy
  /\ chain' = [chain EXCEPT !.deployed =
       Append(@, [name |-> Step.name, uses |-> {env[u] : u \in Step.uses}])]
  /\ job' = [job EXCEPT !.made = Len(chain'.deployed)]
  /\ UNCHANGED <<file, flat, mem, env, up, writer, ops, happened, finished, Bounds>>

ReturnContract ==
  /\ AtContract /\ job.made # 0 /\ Mode = "DEPLOY_NOSAVE"
  /\ env' = With(env, Step.name, job.made)
  /\ Advance
  /\ UNCHANGED <<chain, file, flat, mem, up, writer, ops, happened, finished, Bounds>>

\* Two saves at once.
Begin(w, phase, note) ==
  LET other == {v \in DOMAIN writer : v # w /\ Busy(v)}
      start == [phase |-> phase, note |-> note, flat |-> flat, alone |-> other = {}]
  IN  [v \in DOMAIN writer |->
         IF v = w THEN start
         ELSE IF v \in other THEN [writer[v] EXCEPT !.alone = FALSE] ELSE writer[v]]

NoNote == [do |-> "none"]

saveContract ==
  /\ AtContract /\ job.made # 0 /\ Mode # "DEPLOY_NOSAVE"
  /\ mem' = [mem EXCEPT !.contractMap = With(@, Step.name, job.made)]
  /\ writer' = Begin("main", "forges", NoNote)
  /\ UNCHANGED <<chain, file, flat, env, up, job, ops, happened, finished, Bounds>>

ThrowContract ==
  /\ AtContract /\ job.made = 0
  /\ IF Mode = "FETCH" THEN Step.name \notin DOMAIN mem.contractMap ELSE ~CanDeploy
  /\ Throw
  /\ UNCHANGED <<chain, file, flat, mem, env, up, writer, ops, finished, Bounds>>

-----------------------------------------------------------------------------
(***************************************************************************)
(* saveNewForge, and the other entries of forgeMap.                        *)
(***************************************************************************)
AtListing == Ready /\ Step.do = "saveNewForge"
\* Mistake: a forge deployed again is listed.
ListsMistake == Mode # "FETCH"
Lists == Mode = "DEPLOY" \/ Step.always

NewEntry == [forge |-> env[Step.forge], rm |-> env[Step.rm],
             yields |-> {}, markets |-> {}, liqYTs |-> {}, liqOTs |-> {}, outdated |-> {}]

\* Mistake: the listing is left to the next save.
saveNewForgeMistake ==
  /\ AtListing /\ Lists /\ Step.id \notin DOMAIN mem.forgeMap
  /\ mem' = [mem EXCEPT !.forgeMap = With(@, Step.id, NewEntry)]
  /\ Advance
  /\ UNCHANGED <<chain, file, flat, env, up, writer, ops, happened, finished, Bounds>>

saveNewForge ==
  /\ AtListing /\ Lists /\ Step.id \notin DOMAIN mem.forgeMap
  /\ mem' = [mem EXCEPT !.forgeMap = With(@, Step.id, NewEntry)]
  /\ writer' = Begin("main", "forges", NoNote)
  /\ UNCHANGED <<chain, file, flat, env, up, job, ops, happened, finished, Bounds>>

SkipListing ==
  /\ AtListing /\ ~Lists /\ Advance
  /\ UNCHANGED <<chain, file, flat, mem, env, up, writer, ops, happened, finished, Bounds>>

ThrowListing ==
  /\ AtListing /\ Lists /\ Step.id \in DOMAIN mem.forgeMap
  /\ Throw
  /\ UNCHANGED <<chain, file, flat, mem, env, up, writer, ops, finished, Bounds>>

AtNote == Ready /\ Step.do \in Notes

Field(note) ==
  CASE note.do = "noteYield"  -> "yields"
    [] note.do = "noteMarket" -> "markets"
    [] note.do = "noteLiqYT"  -> "liqYTs"
    [] note.do = "noteLiqOT"  -> "liqOTs"

\* What is noted: the address of a mining contract; for the yield contract and
\* the market of a forge, that it is there.
Noted(note) == IF "name" \in DOMAIN note THEN env[note.name] ELSE note.id

Entry(step) == [do |-> step.do, id |-> step.id, what |-> Noted(step)]

\* The forge is listed; what is already there throws, except a yield contract,
\* which has to exist.
CanNote(step) ==
  /\ step.do = "noteYield" => step.id \in chain.yields
  /\ step.id \in DOMAIN mem.forgeMap
  /\ step.do # "noteYield" => Noted(step) \notin mem.forgeMap[step.id][Field(step)]

\* Mistake: neither is saveNewLiqOT awaited.
WriterOfMistake(step) == IF step.do \in {"noteLiqYT", "noteLiqOT"} THEN "liqYT" ELSE "main"

\* saveNewLiqYT is called without an await.
WriterOf(step) == IF step.do = "noteLiqYT" THEN "liqYT" ELSE "main"

StartNote ==
  /\ AtNote /\ CanNote(Step) /\ ~Busy(WriterOf(Step))
  /\ writer' = Begin(WriterOf(Step), "info", Entry(Step))
  /\ IF WriterOf(Step) = "main" THEN UNCHANGED job ELSE Advance
  /\ UNCHANGED <<chain, file, flat, mem, env, up, ops, happened, finished, Bounds>>

\* In newLiqMiningYT the exception is lost with the promise.
ThrowNote ==
  /\ AtNote /\ ~CanNote(Step)
  /\ IF WriterOf(Step) = "main" THEN Throw
     ELSE Advance /\ happened' = happened \cup {"lostSave"}
  /\ UNCHANGED <<chain, file, flat, mem, env, up, writer, ops, finished, Bounds>>

-----------------------------------------------------------------------------
(***************************************************************************)
(* writeToDeploymentFile.  The chain is asked about the entry first        *)
(* ("info"); then the flattened copy is computed, the forges before the    *)
(* contracts, with further calls in between; then both files are written.  *)
(***************************************************************************)
OverwritesYield(w) ==
  writer[w].note.do = "noteYield" /\ writer[w].note.what \in mem.forgeMap[writer[w].note.id].yields

Info(w) ==
  /\ up /\ Busy(w) /\ writer[w].phase = "info" /\ ~OverwritesYield(w)
  /\ LET n == writer[w].note IN
     mem' = [mem EXCEPT !.forgeMap[n.id][Field(n)] = @ \cup {n.what}]
  /\ writer' = [writer EXCEPT ![w].phase = "forges"]
  /\ UNCHANGED <<chain, file, flat, env, up, job, ops, happened, finished, Bounds>>

\* A yield contract that memory knows is overwritten there, and not written.
InfoKnown ==
  /\ up /\ Busy("main") /\ writer["main"].phase = "info" /\ OverwritesYield("main")
  /\ LET n == writer["main"].note IN
     mem' = [mem EXCEPT !.forgeMap[n.id].outdated = @ \ {n.what}]
  /\ writer' = [writer EXCEPT !["main"] = Idle]
  /\ Advance
  /\ UNCHANGED <<chain, file, flat, env, up, ops, happened, finished, Bounds>>

FlattenForges(w) ==
  /\ up /\ Busy(w) /\ writer[w].phase = "forges"
  /\ writer' = [writer EXCEPT ![w].phase = "contracts", ![w].flat.forges = mem.forgeMap]
  /\ UNCHANGED <<chain, file, flat, mem, env, up, job, ops, happened, finished, Bounds>>

FlattenContracts(w) ==
  /\ up /\ Busy(w) /\ writer[w].phase = "contracts"
  /\ writer' = [writer EXCEPT ![w].phase = "write", ![w].flat.contracts = mem.contractMap]
  /\ UNCHANGED <<chain, file, flat, mem, env, up, job, ops, happened, finished, Bounds>>

\* After a save that was waited for, its function goes on.
Resume(w) ==
  IF w # "main" THEN UNCHANGED <<job, env>>
  ELSE /\ Advance
       /\ env' = IF Step.do = "contract" THEN With(env, Step.name, job.made) ELSE env

\* savedData refers to the maps: what is written is memory as it is now.
Write(w) ==
  /\ up /\ Busy(w) /\ writer[w].phase = "write"
  /\ file' = mem /\ flat' = writer[w].flat
  /\ happened' = IF writer[w].alone THEN happened \ {"failedWrite", "overlapped", "torn"}
                 ELSE (happened \ {"failedWrite"}) \cup {"overlapped"}
  /\ writer' = [writer EXCEPT ![w] = Idle]
  /\ Resume(w)
  /\ UNCHANGED <<chain, mem, up, ops, finished, Bounds>>

-----------------------------------------------------------------------------
(***************************************************************************)
(* Transactions.  The operator sends them one after the other and nobody   *)
(* else governs, so what is refused now is what would be refused later.    *)
(***************************************************************************)
AtTransaction ==
  Ready /\ Step.do \notin Notes \cup {"contract", "saveNewForge"}

Argument == env[Step.forge]

\* The fields of env that the call needs.
Known(step) ==
  /\ "target"  \in DOMAIN step => step.target \in DOMAIN env
  /\ "forge"   \in DOMAIN step => step.forge \in DOMAIN env
  /\ step.do = "addMarketFactory" => step.factory \in DOMAIN env

\* A forge creates yield contracts with the deployer it was built with, which
\* serves the forge it was initialised with.
Serves(id) ==
  /\ id \in DOMAIN chain.forges
  /\ \A a \in chain.deployed[chain.forges[id]].uses :
       chain.deployed[a].name = KitOf(id).ycd =>
         a \in DOMAIN chain.forgeOf /\ chain.forgeOf[a] = chain.forges[id]

Succeeds(step) ==
  CASE step.do = "initialize"       -> env[step.target] \notin DOMAIN chain.forgeOf
    [] step.do = "addForge"         -> step.id \notin DOMAIN chain.forges
    [] step.do = "addMarketFactory" -> step.factory \notin chain.factories
    [] step.do = "setForgeFactoryValidity" -> TRUE
    [] step.do = "getInfoMarket"    -> step.id \in chain.markets
    [] step.do = "getOTAddr"        ->
         step.id \in DOMAIN mem.forgeMap /\ step.id \in mem.forgeMap[step.id].yields
    [] step.do = "newYieldContracts" -> step.id \notin chain.yields /\ Serves(step.id)
    [] step.do = "createMarket"     ->
         /\ step.id \in chain.yields /\ step.id \notin chain.markets
         /\ <<step.id, KitOf(step.id).factory>> \in chain.pairs
         /\ KitOf(step.id).factory \in chain.factories

Effect(step) ==
  CASE step.do = "initialize" -> [chain EXCEPT !.forgeOf = With(@, env[step.target], Argument)]
    [] step.do = "addForge"   -> [chain EXCEPT !.forges = With(@, step.id, Argument)]
    [] step.do = "addMarketFactory" -> [chain EXCEPT !.factories = @ \cup {step.factory}]
    [] step.do = "setForgeFactoryValidity" ->
         [chain EXCEPT !.pairs = @ \cup {<<step.id, step.factory>>}]
    [] step.do = "newYieldContracts" -> [chain EXCEPT !.yields = @ \cup {step.id}]
    [] step.do = "createMarket" -> [chain EXCEPT !.markets = @ \cup {step.id}]
    [] OTHER -> chain

Transact ==
  /\ AtTransaction /\ Known(Step) /\ Succeeds(Step)
  /\ chain' = Effect(Step) /\ Advance
  /\ UNCHANGED <<file, flat, mem, env, up, writer, ops, happened, finished, Bounds>>

ThrowTransaction ==
  /\ AtTransaction /\ ~(Known(Step) /\ Succeeds(Step))
  /\ Throw
  /\ UNCHANGED <<chain, file, flat, mem, env, up, writer, ops, finished, Bounds>>

-----------------------------------------------------------------------------
(***************************************************************************)
(* Faults.                                                                 *)
(***************************************************************************)
Fault == faults < MaxFaults /\ faults' = faults + 1

\* A call to the chain fails inside a save.  Memory keeps what it has; an entry
\* not yet made is lost.
FailSave(w) ==
  /\ up /\ Busy(w) /\ Fault
  /\ writer' = [writer EXCEPT ![w] = Idle]
  /\ IF w = "main" THEN job' = NoJob ELSE UNCHANGED job
  /\ happened' = happened \cup (IF w = "main" THEN {"cut"} ELSE {})
       \cup (IF writer[w].phase = "info" THEN (IF w = "main" THEN {} ELSE {"lostSave"})
             ELSE {"failedWrite"})
  /\ UNCHANGED <<chain, file, flat, mem, env, up, ops, finished, world, restarts>>

\* The process dies, perhaps between the two files.
Crash ==
  /\ up /\ Fault
  /\ up' = FALSE /\ job' = NoJob /\ writer' = [w \in DOMAIN writer |-> Idle]
  /\ mem' = file /\ env' = NoMap
  /\ happened' = happened \cup (IF Working THEN {"cut"} ELSE {})
       \cup (IF Busy("liqYT") \/ "failedWrite" \in happened THEN {"lostSave"} ELSE {})
  /\ UNCHANGED <<chain, file, flat, ops, finished, world, restarts>>

CrashBetweenFiles(w) ==
  /\ up /\ Busy(w) /\ writer[w].phase = "write" /\ Fault
  /\ file' = mem /\ mem' = file' /\ env' = NoMap
  /\ up' = FALSE /\ job' = NoJob /\ writer' = [v \in DOMAIN writer |-> Idle]
  /\ happened' = happened \cup {"torn", "cut"}
       \cup (IF \E v \in DOMAIN writer : v # w /\ Busy(v) THEN {"lostSave"} ELSE {})
  /\ UNCHANGED <<chain, flat, ops, finished, world, restarts>>

Restart ==
  /\ ~up /\ restarts < MaxRestarts /\ restarts' = restarts + 1
  /\ up' = TRUE /\ mem' = file /\ env' = FetchedCore(file)
  /\ UNCHANGED <<chain, file, flat, job, writer, world, ops, faults, happened, finished>>

-----------------------------------------------------------------------------
Main ==
  \/ Return \/ FetchContract \/ DeployContract \/ ReturnContract \/ saveContract \/ ThrowContract
  \/ saveNewForge \/ SkipListing \/ ThrowListing \/ StartNote \/ ThrowNote
  \/ Transact \/ ThrowTransaction

Save(w) == Info(w) \/ FlattenForges(w) \/ FlattenContracts(w) \/ Write(w)

BookNext ==
  \/ \E op \in world.ops : Call(op)
  \/ Main \/ InfoKnown
  \/ \E w \in DOMAIN writer : Save(w) \/ FailSave(w) \/ CrashBetweenFiles(w)
  \/ Crash \/ Restart

Fairness ==
  /\ WF_bookVars(Main) /\ WF_bookVars(InfoKnown)
  /\ \A w \in {"main", "liqYT"} : WF_bookVars(Save(w))

BookSpec == BookInit /\ [][BookNext]_bookVars /\ Fairness

-----------------------------------------------------------------------------
Books == [contractMap : {mem.contractMap, file.contractMap}, forgeMap : {mem.forgeMap, file.forgeMap}]

BookTypeOK ==
  /\ \A book \in Books : \A n \in DOMAIN book.contractMap :
       book.contractMap[n] \in DOMAIN chain.deployed
  /\ \A n \in DOMAIN env : env[n] \in DOMAIN chain.deployed
  /\ ~up => ~Working /\ mem = file
  /\ Working => job.pc \in 1 .. Len(Recipe(job.op)) + 1 /\ job.made \in 0 .. Len(chain.deployed)
  /\ \A w \in DOMAIN writer : Busy(w) =>
       writer[w].phase \in {"info", "forges", "contracts", "write"}
  /\ Busy("main") => Working

\* A reward manager or deployer is initialised with a forge built on it, by
\* whatever modes and sessions the three came into env - unless a function
\* was cut short that was replacing them.
InitialisedAsBuilt ==
  \/ {"forced", "cut"} \subseteq happened
  \/ InitialisedWithUser(chain)

\* In the file, every contract was built with the contracts that the file holds
\* under their names, and a listed forge is the one in contractMap, with the
\* reward manager it was built with - wherever a DEPLOY was cut short.  Only
\* FORCE_DEPLOY and DEPLOY_NOSAVE break this.
BookIsConsistent ==
  /\ BookTypeOK /\ InitialisedAsBuilt
  /\ "forced" \in happened \/ (Linked(chain, file.contractMap) /\ ListedAsBuilt(chain, file))

Recorded(op) ==
  LET entry(field) == op.id \in DOMAIN file.forgeMap /\ op.id \in file.forgeMap[op.id][field]
      liq(name, id, field) ==
        /\ name \in DOMAIN file.contractMap /\ id \in DOMAIN file.forgeMap
        /\ file.contractMap[name] \in file.forgeMap[id][field]
  IN  CASE op.kind = "deploy" ->
             LET k == KitOf(op.id) IN
             /\ op.mode # "DEPLOY_NOSAVE" => {k.rm, k.ycd, k.forge} \subseteq DOMAIN file.contractMap
             /\ k.lists = "always" \/ (k.lists = "DEPLOY" /\ op.mode = "DEPLOY")
                  => k.id \in DOMAIN file.forgeMap
        [] op.kind \in {"newYield", "saveYield"} -> entry("yields")
        [] op.kind = "newMarket" -> entry("markets")
        [] op.kind = "newLiqYT"  -> liq(LiqYT(op.id), op.id, "liqYTs") \/ Busy("liqYT")
        [] op.kind = "newLiqOT"  -> liq(LiqOT(op.id), op.id, "liqOTs")
        [] op.kind = "newLiqJLP" -> liq("LiqJLP", "TraderJoeComplex", "liqOTs")
        [] OTHER -> TRUE

\* The flattened copy agrees with the file, except after two saves have run at
\* once - the one that writes last may have flattened first - or a crash
\* between the two files; the next save on its own repairs it.
FlatIsCurrent ==
  \/ {"overlapped", "torn"} \cap happened # {}
  \/ flat.contracts = file.contractMap /\ flat.forges = file.forgeMap

\* What a function that returned has made is in the file, restarts included;
\* newLiqMiningYT returns while its save is still running.  A failed write is
\* made good by the next one, and until then a repeated saveNewYieldContract
\* returns and writes nothing.  That there is an entry, not what it says: a
\* repeated saveNewYieldContract never writes (FileCatchesUp).
ReturnedIsRecorded ==
  /\ FlatIsCurrent
  /\ {"failedWrite", "lostSave"} \cap happened # {} \/ \A op \in finished : Recorded(op)

\* genPauseAllTx: what is paused, and the pausing manager that is told.
PauseTargets ==
  UNION {LET f == mem.forgeMap[id] IN
           {<<env[PAUSE_MAIN], id>>} \cup {<<env[PAUSE_LIQ], a>> : a \in f.liqYTs \cup f.liqOTs}
         : id \in DOMAIN mem.forgeMap}

\* The mining contracts ask the pausing manager they were built with.
MiningOf(op) ==
  {a \in DOMAIN chain.deployed : chain.deployed[a].name =
     (CASE op.kind = "newLiqYT" -> LiqYT(op.id) [] op.kind = "newLiqOT" -> LiqOT(op.id)
        [] op.kind = "newLiqJLP" -> "LiqJLP")}

Reached(op) ==
  op.kind \in {"newLiqYT", "newLiqOT", "newLiqJLP"} =>
    \E a \in MiningOf(op) : \E m \in chain.deployed[a].uses : <<m, a>> \in PauseTargets

\* "Generate pausing transactions for all Forges, Markets, Liquidity Mining OTs
\* and Liquidity Mining YTs" (pausing-admin.ts:35): every mining contract a
\* returned function has made is paused, by the manager it asks - but for one
\* whose save is still running or was lost, and unless the pausing managers
\* have been deployed again.
PauseReachesReturned ==
  \/ ~up \/ {"forced", "lostSave"} \cap happened # {}
  \/ \A op \in finished : Reached(op) \/ (op.kind = "newLiqYT" /\ Busy("liqYT"))

\* A deployment of the forge that got past its reward manager and no further
\* than the listing, in a file that outlives it.
Unlisted(k) ==
  /\ k.rm \in DOMAIN file.contractMap /\ k.rm \in DOMAIN mem.contractMap
  /\ k.id \notin DOMAIN file.forgeMap /\ k.id \notin DOMAIN mem.forgeMap
  /\ ~(Working /\ job.op = Op("deploy", k.id, "DEPLOY") /\ (job.pc > 1 \/ Busy("main")))

\* It stays unlisted: DEPLOY refuses a name that exists, and the other modes do
\* not list.  None of its yield contracts, markets or mining contracts is ever
\* noted, or paused by genPauseAllTx.  Only TraderJoeComplex is listed in any mode.
UnlistedStaysUnlisted ==
  [][\A k \in {KitOf(id) : id \in world.kits} : Unlisted(k) /\ k.lists # "always" => Unlisted(k)']_bookVars

\* The books have the same contracts, and may differ in what they say of them.
SameEntries(a, b) ==
  /\ a.contractMap = b.contractMap /\ DOMAIN a.forgeMap = DOMAIN b.forgeMap
  /\ \A id \in DOMAIN a.forgeMap : \A field \in DOMAIN a.forgeMap[id] \ {"outdated"} :
       a.forgeMap[id][field] = b.forgeMap[id][field]

\* No save is going to write, unless it is one of an entry not made yet.
NothingToWrite == \A w \in DOMAIN writer : Busy(w) => writer[w].phase = "info"

\* A book in memory that is ahead of the file reaches it, unless a write fails
\* or the process dies.  Only the data that saveNewYieldContract has put over
\* an entry that was there wait for the next save, and reach the file with it.
FileCatchesUp ==
  (up /\ mem # file) ~> \/ mem = file \/ "failedWrite" \in happened \/ ~up
                        \/ SameEntries(mem, file) /\ NothingToWrite
=============================================================================
