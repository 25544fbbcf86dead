------------------------ MODULE MiningAndBook_proofs ------------------------
(***************************************************************************)
(* Proofs about ContractBook and LiquidityMiningV2.                        *)
(*                                                                         *)
(* ContractBook: BookInv, the inductive invariant of a console session,    *)
(* follows the save that is waited for and the one that is not, the        *)
(* contract that is being made, and what the steps done have left; then    *)
(* the book as a whole with its file, first without FORCE_DEPLOY and       *)
(* DEPLOY_NOSAVE, then with them.  The book stays consistent, what         *)
(* returned is recorded and is reached by a pause, and a forge that was    *)
(* not listed stays so.                                                    *)
(*                                                                         *)
(* LiquidityMiningV2, in the order the proofs build on each other.         *)
(* Totals (TInv): the backward loop of _updateStakeData misses no epoch,   *)
(* because the epochs were last brought up to date together, at one time T *)
(* (UpToDate).  Claims (CInv): nothing vests in an epoch that has been     *)
(* claimed.  Units (LInv): what users have adds up to the totals, so that  *)
(* the lazy units are those of a ledger that counts every second           *)
(* (ImplementsLedger).  Rewards (RInv): each vesting epoch holds for each  *)
(* user the sum of his parts of the epochs he is settled for.  The vesting *)
(* epochs summed up are then the epochs themselves (VestedBetween), which  *)
(* gives what was paid and what is left to pay.  Coverage (HoldsRewards):  *)
(* the shares of an epoch, rounded down twice, are within its reward.      *)
(***************************************************************************)
EXTENDS ContractBook, LiquidityMiningV2, Sums, SequenceTheorems, TLAPS

-----------------------------------------------------------------------------
(***************************************************************************)
(* The inductive invariant, as predicates of the values it relates: a      *)
(* chain c, books m (memory) and f (the file), the fields e of env, a job  *)
(* j, saves x (the one waited for) and y (newLiqMiningYT's), and the       *)
(* incidents h.                                                            *)
(***************************************************************************)
Phases == {"info", "forges", "contracts", "write"}
Fields == {"yields", "markets", "liqYTs", "liqOTs"}

IsBook(m) ==
  /\ DOMAIN m = {"contractMap", "forgeMap"}
  /\ \A id \in DOMAIN m.forgeMap : DOMAIN m.forgeMap[id] = {"forge", "rm", "outdated"} \cup Fields

IsSave(x) ==
  /\ DOMAIN x = {"phase", "note", "flat", "alone"} /\ x.phase \in Phases
  /\ DOMAIN x.flat = {"contracts", "forges"}

IsJob(c, j) ==
  /\ DOMAIN j = {"op", "pc", "made"} /\ j.op \in Calls /\ j.pc \in 1 .. Len(Recipe(j.op)) + 1
  /\ j.made = 0 \/ j.made \in DOMAIN c.deployed

\* Every address of a map is that of a contract saved under its name.
Named(c, map) ==
  \A n \in DOMAIN map : map[n] \in DOMAIN c.deployed /\ c.deployed[map[n]].name = n

ChainOk(c) == IsChain(c) /\ BuiltAsOrdered(c)

BookOk(c, m) == IsBook(m) /\ Named(c, m.contractMap) /\ PAUSE_LIQ \in DOMAIN m.contractMap

EnvOk(c, e, u) == Named(c, e) /\ (u => PAUSE_LIQ \in DOMAIN e)

JobOk(c, j) == j # NoJob => IsJob(c, j)

SavesOk(s) ==
  /\ DOMAIN s = {"main", "liqYT"}
  /\ s["main"] # Idle => IsSave(s["main"])
  /\ s["liqYT"] # Idle => IsSave(s["liqYT"])

Typed ==
  /\ world \in Worlds /\ ChainOk(chain) /\ BookOk(chain, mem) /\ BookOk(chain, file)
  /\ EnvOk(chain, env, up) /\ JobOk(chain, job) /\ SavesOk(writer)
  /\ DOMAIN flat = {"contracts", "forges"} /\ up \in BOOLEAN
  /\ ~up => ~Working /\ mem = file /\ ~Busy("main") /\ ~Busy("liqYT")

\* What the save that is waited for, and the other, are about.
NotedAs(step, e) ==
  [do |-> step.do, id |-> step.id, what |-> IF "name" \in DOMAIN step THEN e[step.name] ELSE step.id]

StepOf(j) == Recipe(j.op)[j.pc]

MainIs(j, x, m, e) ==
  LET s == StepOf(j) IN
  \/ /\ s.do = "contract" /\ x.phase # "info" /\ j.made # 0 /\ j.op.mode # "DEPLOY_NOSAVE"
     /\ s.name \in DOMAIN m.contractMap /\ m.contractMap[s.name] = j.made
  \/ s.do = "saveNewForge" /\ x.phase # "info" /\ s.id \in DOMAIN m.forgeMap
  \/ /\ s.do \in Notes /\ s.do # "noteLiqYT" /\ x.note = NotedAs(s, e)
     /\ s.id \in DOMAIN m.forgeMap
     /\ x.phase # "info" => x.note.what \in m.forgeMap[s.id][Field(s)]

MainOk(j, x, m, e) ==
  x # Idle => j # NoJob /\ j.pc \in 1 .. Len(Recipe(j.op)) /\ MainIs(j, x, m, e)

LiqOk(y, m) ==
  y # Idle =>
    /\ y.note.do = "noteLiqYT" /\ y.note.id \in DOMAIN m.forgeMap
    /\ LiqYT(y.note.id) \in MiningNames /\ LiqYT(y.note.id) \in DOMAIN m.contractMap
    /\ y.note.what = m.contractMap[LiqYT(y.note.id)]
    /\ y.phase # "info" => y.note.what \in m.forgeMap[y.note.id].liqYTs

\* A contract that is deployed and not yet in env.
MadeIs(j, x, m, e, c) ==
  LET s == StepOf(j) IN
  /\ j.pc \in 1 .. Len(Recipe(j.op)) /\ s.do = "contract" /\ j.op.mode # "FETCH"
  /\ s.uses \subseteq DOMAIN e
  /\ c.deployed[j.made] = [name |-> s.name, uses |-> {e[u] : u \in s.uses}]
  /\ j.op.mode = "DEPLOY" /\ x = Idle => s.name \notin DOMAIN m.contractMap

MadeOk(j, x, m, e, c) == j # NoJob /\ j.made # 0 => MadeIs(j, x, m, e, c)

\* What the steps done so far have left.
InFlight(y, id) == y # Idle /\ y.note.id = id

DoneStep(s, mode, e, m, y, h) ==
  /\ s.do = "contract" =>
       /\ s.name \in DOMAIN e
       /\ mode # "DEPLOY_NOSAVE" => s.name \in DOMAIN m.contractMap /\ e[s.name] = m.contractMap[s.name]
  /\ s.do = "saveNewForge" /\ (mode = "DEPLOY" \/ s.always) => s.id \in DOMAIN m.forgeMap
  /\ s.do = "noteYield" => s.id \in DOMAIN m.forgeMap /\ s.id \in m.forgeMap[s.id].yields
  /\ s.do = "noteMarket" => s.id \in DOMAIN m.forgeMap /\ s.id \in m.forgeMap[s.id].markets
  /\ s.do = "noteLiqOT" =>
       s.id \in DOMAIN m.forgeMap /\ m.contractMap[s.name] \in m.forgeMap[s.id].liqOTs
  /\ s.do = "noteLiqYT" /\ "lostSave" \notin h =>
       /\ s.id \in DOMAIN m.forgeMap
       /\ m.contractMap[s.name] \in m.forgeMap[s.id].liqYTs \/ InFlight(y, s.id)

ProgressOk(j, e, m, y, h) ==
  j # NoJob => \A i \in 1 .. j.pc - 1 : DoneStep(Recipe(j.op)[i], j.op.mode, e, m, y, h)

\* Without FORCE_DEPLOY and DEPLOY_NOSAVE the book is the one source of addresses.
Sound(c, m) == Linked(c, m.contractMap) /\ ListedAsBuilt(c, m)

UnforcedOk(h, j, c, m, f, e) ==
  "forced" \notin h =>
    /\ j # NoJob => j.op.mode \notin {"FORCE_DEPLOY", "DEPLOY_NOSAVE"}
    /\ Sound(c, m) /\ Sound(c, f)
    /\ \A n \in DOMAIN e : n \in DOMAIN m.contractMap /\ e[n] = m.contractMap[n]

\* With them, a forge goes with what it was built with, but for a function that
\* is replacing them.
Settled(c, map, k) ==
  k.forge \in DOMAIN map =>
    \A t \in {k.rm, k.ycd} \cap DOMAIN map : map[t] \in c.deployed[map[k.forge]].uses

Builds(op, i, names) == Recipe(op)[i].do = "contract" /\ Recipe(op)[i].name \in names

MidWay(j, k) ==
  /\ j # NoJob
  /\ \E i \in 1 .. Len(Recipe(j.op)) : i <= j.pc /\ Builds(j.op, i, {k.rm, k.ycd})
  /\ \E i \in 1 .. Len(Recipe(j.op)) : i >= j.pc /\ Builds(j.op, i, {k.forge})

Replacing(j, k) == MidWay(j, k) /\ j.op.mode \in {"DEPLOY", "FORCE_DEPLOY"}

SettledOk(h, j, c, e, m, f) ==
  "cut" \notin h => \A k \in Kits :
    /\ MidWay(j, k) \/ Settled(c, e, k)
    /\ Replacing(j, k) \/ (Settled(c, m.contractMap, k) /\ Settled(c, f.contractMap, k))

\* The file is memory as of the last save.
Behind(x) == x # Idle /\ x.phase # "info"

Synced(y, m, f) ==
  /\ f.contractMap = m.contractMap
  /\ \A id \in DOMAIN m.forgeMap :
       /\ id \in DOMAIN f.forgeMap
       /\ m.forgeMap[id].yields \subseteq f.forgeMap[id].yields
       /\ m.forgeMap[id].markets \subseteq f.forgeMap[id].markets
       /\ m.forgeMap[id].liqOTs \subseteq f.forgeMap[id].liqOTs
       /\ \A a \in m.forgeMap[id].liqYTs :
            a \in f.forgeMap[id].liqYTs \/ (Behind(y) /\ y.note.id = id)

SyncOk(h, x, y, m, f) == "failedWrite" \notin h /\ ~Behind(x) => Synced(y, m, f)

\* A save that is alone has flattened memory as it is.
AloneOk(x, y, m) ==
  x # Idle /\ x.alone =>
    /\ y = Idle
    /\ x.phase \in {"contracts", "write"} => x.flat.forges = m.forgeMap
    /\ x.phase = "write" => x.flat.contracts = m.contractMap

FlatOk(h, fl, f) ==
  {"overlapped", "torn"} \cap h # {} \/ (fl.contracts = f.contractMap /\ fl.forges = f.forgeMap)

\* What the functions that returned have made.
Mined(m, name, id, field) ==
  /\ name \in MiningNames /\ name \in DOMAIN m.contractMap
  /\ id \in DOMAIN m.forgeMap /\ m.contractMap[name] \in m.forgeMap[id][field]

MiningIs(m, y, name, id) ==
  /\ name \in MiningNames /\ name \in DOMAIN m.contractMap /\ id \in DOMAIN m.forgeMap
  /\ m.contractMap[name] \in m.forgeMap[id].liqYTs \/ InFlight(y, id)

RecordedIn(m, y, op) ==
  /\ op.kind = "deploy" =>
       LET k == KitOf(op.id) IN
       /\ op.mode # "DEPLOY_NOSAVE" => {k.rm, k.ycd, k.forge} \subseteq DOMAIN m.contractMap
       /\ k.lists = "always" \/ (k.lists = "DEPLOY" /\ op.mode = "DEPLOY")
            => k.id \in DOMAIN m.forgeMap
  /\ op.kind \in {"newYield", "saveYield"} =>
       op.id \in DOMAIN m.forgeMap /\ op.id \in m.forgeMap[op.id].yields
  /\ op.kind = "newMarket" => op.id \in DOMAIN m.forgeMap /\ op.id \in m.forgeMap[op.id].markets
  /\ op.kind = "newLiqYT"  => MiningIs(m, y, LiqYT(op.id), op.id)
  /\ op.kind = "newLiqOT"  => Mined(m, LiqOT(op.id), op.id, "liqOTs")
  /\ op.kind = "newLiqJLP" => Mined(m, "LiqJLP", "TraderJoeComplex", "liqOTs")

RecordOk(h, done, m, f, y) ==
  "lostSave" \notin h => \A op \in done :
    /\ op \in Calls /\ RecordedIn(m, y, op)
    /\ "failedWrite" \notin h => RecordedIn(f, y, op)

BookInv ==
  /\ Typed
  /\ MainOk(job, writer["main"], mem, env) /\ LiqOk(writer["liqYT"], mem)
  /\ MadeOk(job, writer["main"], mem, env, chain)
  /\ ProgressOk(job, env, mem, writer["liqYT"], happened)
  /\ UnforcedOk(happened, job, chain, mem, file, env)
  /\ SettledOk(happened, job, chain, env, mem, file) /\ InitialisedAsBuilt
  /\ SyncOk(happened, writer["main"], writer["liqYT"], mem, file)
  /\ AloneOk(writer["main"], writer["liqYT"], mem) /\ AloneOk(writer["liqYT"], writer["main"], mem)
  /\ FlatOk(happened, flat, file)
  /\ RecordOk(happened, finished, mem, file, writer["liqYT"])

-----------------------------------------------------------------------------
(***************************************************************************)
(* The recipes.                                                            *)
(***************************************************************************)
LEMMA JobWorks ==
  ASSUME NEW j, DOMAIN j = {"op", "pc", "made"}
  PROVE  j # NoJob
<1>1. DOMAIN NoJob = {"op"}
  BY DEF NoJob
<1> QED
  BY <1>1

LEMMA SaveIsBusy ==
  ASSUME NEW x, DOMAIN x = {"phase", "note", "flat", "alone"}
  PROVE  x # Idle
<1>1. DOMAIN Idle = {"phase"}
  BY DEF Idle
<1> QED
  BY <1>1

LEMMA RecipeFacts ==
  ASSUME NEW op \in Calls
  PROVE  /\ Len(Recipe(op)) \in Nat /\ DOMAIN Recipe(op) = 1 .. Len(Recipe(op))
         /\ Records(op, Recipe(op))
<1> DEFINE r == Recipe(op)
<1>1. r \in Seq({r[i] : i \in DOMAIN r}) /\ Records(op, r)
  BY BookAssumption DEF RecipesAreOrdered
<1> HIDE DEF r
<1>2. Len(r) \in Nat /\ DOMAIN r = 1 .. Len(r)
  BY <1>1
<1> QED
  BY <1>1, <1>2 DEF r

StepIsOrdered(op, r, i) ==
  /\ r[i].do = "contract" => ContractIsOrdered(op, r, i)
  /\ r[i].do = "saveNewForge" => ListingIsOrdered(op, r, i)
  /\ r[i].do \in Notes => NoteIsOrdered(op, r, i)
  /\ r[i].do = "initialize" => InitializeIsOrdered(r, i)
  /\ r[i].do \in {"contract", "saveNewForge"} \cup Notes \cup Transactions

LEMMA StepFacts ==
  ASSUME NEW op \in Calls, NEW i \in 1 .. Len(Recipe(op))
  PROVE  StepIsOrdered(op, Recipe(op), i)
<1> DEFINE r == Recipe(op)
<1>1. i \in DOMAIN r
  BY RecipeFacts
<1>2. \/ r[i].do = "contract" /\ ContractIsOrdered(op, r, i)
      \/ r[i].do = "saveNewForge" /\ ListingIsOrdered(op, r, i)
      \/ r[i].do \in Notes /\ NoteIsOrdered(op, r, i)
      \/ r[i].do \in Transactions /\ (r[i].do = "initialize" => InitializeIsOrdered(r, i))
  BY <1>1, BookAssumption DEF RecipesAreOrdered
<1> HIDE DEF r
<1> QED
  BY <1>2 DEF StepIsOrdered, Notes, Transactions, r

LEMMA KitFacts ==
  ASSUME NEW k \in Kits
  PROVE  KitOf(k.id) = k /\ k.forge # k.rm /\ k.forge # k.ycd
BY BookAssumption DEF RecipesAreOrdered

LEMMA DeployedDone ==
  ASSUME NEW c, NEW j, IsJob(c, j), NEW e, NEW m, NEW y, NEW h, ProgressOk(j, e, m, y, h),
         NEW n, NEW i \in Nat, i <= j.pc, Deployed(Recipe(j.op), i, n)
  PROVE  /\ n \in DOMAIN e
         /\ j.op.mode # "DEPLOY_NOSAVE" => n \in DOMAIN m.contractMap /\ e[n] = m.contractMap[n]
<1>1. PICK a \in 1 .. i - 1 : Recipe(j.op)[a].do = "contract" /\ Recipe(j.op)[a].name = n
  BY DEF Deployed
<1>2. j # NoJob /\ j.pc \in Nat
  BY JobWorks, RecipeFacts DEF IsJob
<1>3. DoneStep(Recipe(j.op)[a], j.op.mode, e, m, y, h)
  BY <1>1, <1>2 DEF ProgressOk
<1> QED
  BY <1>1, <1>3 DEF DoneStep

-----------------------------------------------------------------------------
(***************************************************************************)
(* A chain that grows keeps what is known of the addresses it has.         *)
(***************************************************************************)
Extends(c, d) ==
  /\ ChainOk(d) /\ DOMAIN c.deployed \subseteq DOMAIN d.deployed
  /\ \A i \in DOMAIN c.deployed : d.deployed[i] = c.deployed[i]

LEMMA NamedKept ==
  ASSUME NEW c, NEW d, Extends(c, d), NEW map, Named(c, map)
  PROVE  Named(d, map)
BY DEF Named, Extends

LEMMA SoundKept ==
  ASSUME NEW c, NEW d, ChainOk(c), Extends(c, d), NEW m, BookOk(c, m), Sound(c, m)
  PROVE  Sound(d, m)
<1>1. \A i \in DOMAIN c.deployed : c.deployed[i].uses \subseteq DOMAIN c.deployed
  BY DEF ChainOk, IsChain
<1>2. Linked(d, m.contractMap)
  BY <1>1 DEF Linked, Sound, BookOk, Named, Extends
<1>3. ListedAsBuilt(d, m)
  BY <1>1 DEF ListedAsBuilt, Sound, BookOk, Named, Extends
<1> QED
  BY <1>2, <1>3 DEF Sound

LEMMA SettledKept ==
  ASSUME NEW c, NEW d, Extends(c, d), NEW map, Named(c, map), NEW k, Settled(c, map, k)
  PROVE  Settled(d, map, k)
BY DEF Settled, Named, Extends

LEMMA MadeKept ==
  ASSUME NEW c, NEW d, Extends(c, d), NEW j, JobOk(c, j), NEW x, NEW m, NEW e,
         MadeOk(j, x, m, e, c)
  PROVE  JobOk(d, j) /\ MadeOk(j, x, m, e, d)
<1>1. JobOk(d, j)
  BY DEF JobOk, IsJob, Extends
<1>2. ASSUME j # NoJob, j.made # 0  PROVE MadeIs(j, x, m, e, d)
  <2>1. MadeIs(j, x, m, e, c) /\ j.made \in DOMAIN c.deployed
    BY <1>2 DEF MadeOk, JobOk, IsJob
  <2>2. d.deployed[j.made] = c.deployed[j.made]
    BY <2>1 DEF Extends
  <2> QED
    BY <2>1, <2>2 DEF MadeIs
<1> QED
  BY <1>1, <1>2 DEF MadeOk

LEMMA UnforcedKept ==
  ASSUME NEW c, NEW d, ChainOk(c), Extends(c, d), NEW m, BookOk(c, m), NEW f, BookOk(c, f),
         NEW h, NEW j, NEW e, UnforcedOk(h, j, c, m, f, e)
  PROVE  UnforcedOk(h, j, d, m, f, e)
BY SoundKept DEF UnforcedOk

LEMMA AllSettledKept ==
  ASSUME NEW c, NEW d, Extends(c, d), NEW m, BookOk(c, m), NEW f, BookOk(c, f),
         NEW e, Named(c, e), NEW h, NEW j, SettledOk(h, j, c, e, m, f)
  PROVE  SettledOk(h, j, d, e, m, f)
BY SettledKept DEF SettledOk, BookOk

-----------------------------------------------------------------------------
(***************************************************************************)
(* Where a step finds the system, and what it does to the chain.           *)
(***************************************************************************)
AtStep(i) ==
  /\ job # NoJob /\ IsJob(chain, job) /\ i = job.pc /\ i \in 1 .. Len(Recipe(job.op)) /\ i \in Nat
  /\ Step = StepOf(job) /\ Step = Recipe(job.op)[i] /\ StepIsOrdered(job.op, Recipe(job.op), i)
  /\ writer["main"] = Idle /\ up

LEMMA ReadyFacts ==
  ASSUME BookInv, Ready
  PROVE  AtStep(job.pc)
<1>1. job # NoJob /\ IsJob(chain, job) /\ writer["main"] = Idle /\ up
  BY DEF BookInv, Typed, JobOk, Ready, Working, Busy
<1>2. job.op \in Calls /\ job.pc \in 1 .. Len(Recipe(job.op))
  BY <1>1, RecipeFacts DEF IsJob, Ready, AtEnd
<1>3. StepIsOrdered(job.op, Recipe(job.op), job.pc)
  BY <1>2, StepFacts
<1> QED
  BY <1>1, <1>2, <1>3 DEF AtStep, Step, StepOf

LEMMA Appended ==
  ASSUME NEW c, ChainOk(c), NEW new, NEW d, d = [c EXCEPT !.deployed = Append(@, new)],
         new.uses \subseteq DOMAIN c.deployed,
         \A k \in Kits : new.name = k.forge =>
           /\ \E u \in new.uses : c.deployed[u].name = k.rm
           /\ \E u \in new.uses : c.deployed[u].name = k.ycd,
         new.name \in MiningNames => \E u \in new.uses : c.deployed[u].name = PAUSE_LIQ
  PROVE  /\ Extends(c, d) /\ Len(d.deployed) \in DOMAIN d.deployed
         /\ Len(d.deployed) # 0 /\ d.deployed[Len(d.deployed)] = new /\ d.forgeOf = c.forgeOf
<1> DEFINE s == c.deployed
           t == d.deployed
           S == {s[i] : i \in DOMAIN s}
<1>1. s \in Seq(S) /\ S \subseteq S \cup {new}
  BY DEF ChainOk, IsChain
<1>2. t = Append(s, new) /\ d.forgeOf = c.forgeOf
      /\ DOMAIN d = {"deployed", "forgeOf", "forges", "factories", "pairs", "yields", "markets"}
  BY DEF ChainOk, IsChain
<1> HIDE DEF s, t, S
<1>3. /\ Len(s) \in Nat /\ DOMAIN s = 1 .. Len(s) /\ t \in Seq(S \cup {new}) /\ Len(t) = Len(s) + 1
      /\ DOMAIN t = 1 .. Len(s) + 1 /\ t[Len(s) + 1] = new
      /\ \A i \in 1 .. Len(s) : t[i] = s[i]
  BY <1>1, <1>2
<1>4. /\ Len(t) = Len(s) + 1 /\ DOMAIN s \subseteq DOMAIN t /\ Len(t) \in DOMAIN t /\ Len(t) # 0
      /\ t[Len(t)] = new /\ \A i \in DOMAIN s : t[i] = s[i]
      /\ \A i \in DOMAIN t : i \in DOMAIN s \/ t[i] = new
  BY <1>3
<1>5. t \in Seq({t[i] : i \in DOMAIN t})
  BY <1>3
<1>6. \A i \in DOMAIN t : t[i].uses \subseteq DOMAIN t
  BY <1>4 DEF ChainOk, IsChain, s
<1>7. IsChain(d)
  BY <1>2, <1>4, <1>5, <1>6 DEF IsChain, ChainOk, s, t
<1>8. BuiltAsOrdered(d)
  <2>1. \A i \in DOMAIN s : s[i].uses \subseteq DOMAIN s
    BY DEF ChainOk, IsChain, s
  <2>2. ASSUME NEW i \in DOMAIN t, NEW n, \E u \in t[i].uses : s[u].name = n /\ u \in DOMAIN s
        PROVE  \E u \in t[i].uses : t[u].name = n
    BY <2>2, <1>4
  <2>3. ASSUME NEW i \in DOMAIN t, NEW k \in Kits, t[i].name = k.forge
        PROVE  /\ \E u \in t[i].uses : t[u].name = k.rm
               /\ \E u \in t[i].uses : t[u].name = k.ycd
    <3>1. CASE i \in DOMAIN s
      BY <3>1, <1>4, <2>1, <2>2, <2>3 DEF ChainOk, BuiltAsOrdered, s
    <3>2. CASE t[i] = new
      BY <3>2, <2>2, <2>3 DEF s
    <3> QED
      BY <3>1, <3>2, <1>4
  <2>4. ASSUME NEW i \in DOMAIN t, t[i].name \in MiningNames
        PROVE  \E u \in t[i].uses : t[u].name = PAUSE_LIQ
    <3>1. CASE i \in DOMAIN s
      BY <3>1, <1>4, <2>1, <2>2, <2>4 DEF ChainOk, BuiltAsOrdered, s
    <3>2. CASE t[i] = new
      BY <3>2, <2>2, <2>4 DEF s
    <3> QED
      BY <3>1, <3>2, <1>4
  <2> QED
    BY <2>3, <2>4 DEF BuiltAsOrdered, t
<1> QED
  BY <1>2, <1>4, <1>7, <1>8 DEF Extends, ChainOk, s, t

LEMMA Built ==
  ASSUME BookInv, DeployContract
  PROVE  /\ Extends(chain, chain') /\ chain'.forgeOf = chain.forgeOf
         /\ DOMAIN job' = DOMAIN job /\ job'.op = job.op /\ job'.pc = job.pc /\ job'.made # 0
         /\ JobOk(chain', job') /\ MadeOk(job', writer["main"], mem, env, chain')
<1> DEFINE new == [name |-> Step.name, uses |-> {env[u] : u \in Step.uses}]
<1>1. AtStep(job.pc)
  BY ReadyFacts DEF DeployContract, AtContract
<1>2. /\ Step.do = "contract" /\ ContractIsOrdered(job.op, Recipe(job.op), job.pc)
      /\ Step.uses \subseteq DOMAIN env /\ Mode # "FETCH" /\ Mode = job.op.mode
      /\ Mode = "DEPLOY" => Step.name \notin DOMAIN mem.contractMap
  BY <1>1 DEF AtStep, StepIsOrdered, DeployContract, AtContract, CanDeploy, Mode
<1>3. /\ new.name = Step.name /\ \A u \in Step.uses : env[u] \in new.uses
      /\ \A a \in new.uses : \E u \in Step.uses : a = env[u]
  OBVIOUS
<1>4. Named(chain, env) /\ ChainOk(chain)
  BY DEF BookInv, Typed, EnvOk
<1>5. chain' = [chain EXCEPT !.deployed = Append(@, new)]
      /\ job' = [job EXCEPT !.made = Len(chain'.deployed)]
  BY DEF DeployContract
<1> HIDE DEF new
<1>6. new.uses \subseteq DOMAIN chain.deployed
      /\ \A u \in Step.uses : env[u] \in new.uses /\ chain.deployed[env[u]].name = u
  BY <1>2, <1>3, <1>4 DEF Named
<1>7. \A k \in Kits : new.name = k.forge =>
           /\ \E u \in new.uses : chain.deployed[u].name = k.rm
           /\ \E u \in new.uses : chain.deployed[u].name = k.ycd
  BY <1>1, <1>2, <1>3, <1>6 DEF ContractIsOrdered, AtStep
<1>8. new.name \in MiningNames => \E u \in new.uses : chain.deployed[u].name = PAUSE_LIQ
  BY <1>1, <1>2, <1>3, <1>6 DEF ContractIsOrdered, AtStep
<1>9. /\ Extends(chain, chain') /\ Len(chain'.deployed) \in DOMAIN chain'.deployed
      /\ Len(chain'.deployed) # 0 /\ chain'.deployed[Len(chain'.deployed)] = new
      /\ chain'.forgeOf = chain.forgeOf
  BY <1>4, <1>5, <1>6, <1>7, <1>8, Appended
<1>10. /\ DOMAIN job' = {"op", "pc", "made"} /\ DOMAIN job = DOMAIN job' /\ job'.op = job.op
       /\ job'.pc = job.pc /\ job'.made = Len(chain'.deployed)
  BY <1>1, <1>5 DEF AtStep, IsJob
<1>11. IsJob(chain', job')
  BY <1>1, <1>9, <1>10 DEF IsJob, AtStep
<1>12. MadeIs(job', writer["main"], mem, env, chain')
  <2>1. Step = StepOf(job')
    BY <1>1, <1>10 DEF AtStep, StepOf
  <2>2. chain'.deployed[job'.made] = [name |-> Step.name, uses |-> {env[u] : u \in Step.uses}]
    BY <1>9, <1>10 DEF new
  <2> QED
    BY <1>1, <1>2, <1>10, <2>1, <2>2 DEF MadeIs, AtStep
<1> QED
  BY <1>9, <1>10, <1>11, <1>12 DEF JobOk, MadeOk

LEMMA InitializeKeeps ==
  ASSUME BookInv, Transact, Step.do = "initialize"
  PROVE  /\ env[Step.target] \in DOMAIN chain.deployed /\ Argument \in DOMAIN chain.deployed
         /\ {"forced", "cut"} \subseteq happened
              \/ env[Step.target] \in chain.deployed[Argument].uses
<1>1. AtStep(job.pc)
  BY ReadyFacts DEF Transact, AtTransaction
<1>2. InitializeIsOrdered(Recipe(job.op), job.pc)
  BY <1>1 DEF AtStep, StepIsOrdered
<1>3. PICK k \in Kits : Step.target \in {k.rm, k.ycd} /\ Step.forge = k.forge
  BY <1>1, <1>2 DEF InitializeIsOrdered, AtStep
<1>4. "target" \in DOMAIN Step => Step.target \in DOMAIN env
  BY DEF Transact, Known
<1>5. "forge" \in DOMAIN Step => Step.forge \in DOMAIN env
  BY DEF Transact, Known
<1>6. "target" \in DOMAIN Step /\ "forge" \in DOMAIN Step
  BY <1>1, <1>2 DEF InitializeIsOrdered, AtStep
<1>7. Step.target \in DOMAIN env /\ Step.forge \in DOMAIN env /\ Argument = env[k.forge]
  BY <1>3, <1>4, <1>5, <1>6 DEF Argument
<1>8. Named(chain, env) /\ ChainOk(chain)
  BY DEF BookInv, Typed, EnvOk
<1>9. /\ env[Step.target] \in DOMAIN chain.deployed /\ Argument \in DOMAIN chain.deployed
      /\ chain.deployed[Argument].name = k.forge
  BY <1>3, <1>7, <1>8 DEF Named
<1>10. CASE "cut" \notin happened
  <2>1. ~MidWay(job, k)
    BY <1>1, <1>2, RecipeFacts DEF MidWay, Builds, InitializeIsOrdered, AtStep, IsJob
  <2>2. Settled(chain, env, k)
    BY <1>10, <2>1 DEF BookInv, SettledOk
  <2> QED
    BY <1>3, <1>7, <1>9, <2>2 DEF Settled
<1>11. CASE "forced" \notin happened
  <2>1. Linked(chain, mem.contractMap)
        /\ \A n \in DOMAIN env : n \in DOMAIN mem.contractMap /\ env[n] = mem.contractMap[n]
    BY <1>11 DEF BookInv, UnforcedOk, Sound
  <2>2. /\ \E u \in chain.deployed[Argument].uses : chain.deployed[u].name = k.rm
        /\ \E u \in chain.deployed[Argument].uses : chain.deployed[u].name = k.ycd
    BY <1>8, <1>9 DEF ChainOk, BuiltAsOrdered
  <2>3. PICK u \in chain.deployed[Argument].uses : chain.deployed[u].name = Step.target
    BY <1>3, <2>2
  <2>4. k.forge \in DOMAIN mem.contractMap /\ mem.contractMap[k.forge] = Argument
    BY <1>3, <1>7, <2>1
  <2>5. mem.contractMap[Step.target] = u
    BY <2>1, <2>3, <2>4 DEF Linked
  <2> QED
    BY <1>7, <1>9, <2>1, <2>3, <2>5
<1> QED
  BY <1>9, <1>10, <1>11

LEMMA Governed ==
  ASSUME BookInv, Transact
  PROVE  Extends(chain, chain') /\ InitialisedAsBuilt'
<1>1. ChainOk(chain) /\ InitialisedAsBuilt /\ chain' = Effect(Step) /\ happened' = happened
  BY DEF BookInv, Typed, Transact
<1>2. DOMAIN chain = {"deployed", "forgeOf", "forges", "factories", "pairs", "yields", "markets"}
  BY <1>1 DEF ChainOk, IsChain
<1>3. DOMAIN chain' = DOMAIN chain /\ chain'.deployed = chain.deployed
  BY <1>1, <1>2 DEF Effect
<1>4. CASE Step.do # "initialize"
  <2>1. chain'.forgeOf = chain.forgeOf
    BY <1>1, <1>2, <1>4 DEF Effect
  <2>2. ChainOk(chain')
    BY <1>1, <1>3, <2>1 DEF ChainOk, IsChain, BuiltAsOrdered
  <2> QED
    BY <1>1, <1>3, <2>1, <2>2 DEF Extends, InitialisedAsBuilt, InitialisedWithUser
<1>5. CASE Step.do = "initialize"
  <2>1. chain'.forgeOf = With(chain.forgeOf, env[Step.target], Argument)
    BY <1>1, <1>2, <1>5 DEF Effect
  <2>2. /\ DOMAIN chain'.forgeOf = DOMAIN chain.forgeOf \cup {env[Step.target]}
        /\ chain'.forgeOf[env[Step.target]] = Argument
        /\ \A a \in DOMAIN chain'.forgeOf :
             a # env[Step.target] => chain'.forgeOf[a] = chain.forgeOf[a]
    BY <2>1 DEF With
  <2>3. /\ env[Step.target] \in DOMAIN chain.deployed /\ Argument \in DOMAIN chain.deployed
        /\ {"forced", "cut"} \subseteq happened
             \/ env[Step.target] \in chain.deployed[Argument].uses
    BY <1>5, InitializeKeeps
  <2>4. ChainOk(chain')
    BY <1>1, <1>3, <2>2, <2>3 DEF ChainOk, IsChain, BuiltAsOrdered
  <2>5. InitialisedAsBuilt'
    BY <1>1, <1>3, <2>2, <2>3 DEF InitialisedAsBuilt, InitialisedWithUser
  <2> QED
    BY <1>3, <2>4, <2>5 DEF Extends
<1> QED
  BY <1>4, <1>5

\* The steps that leave the chain alone, and those that leave memory alone.
LEMMA ChainStep ==
  ASSUME BookInv, [BookNext]_bookVars
  PROVE  /\ Extends(chain, chain') /\ InitialisedAsBuilt'
         /\ DeployContract \/ Transact \/ chain' = chain
<1>1. CASE DeployContract
  <2>1. happened' = happened /\ InitialisedAsBuilt
    BY <1>1 DEF DeployContract, BookInv
  <2>2. ChainOk(chain)
    BY DEF BookInv, Typed
  <2>3. \A a \in DOMAIN chain.forgeOf : chain.forgeOf[a] \in DOMAIN chain.deployed
    BY <2>2 DEF ChainOk, IsChain
  <2> QED
    BY <1>1, <2>1, <2>3, Built DEF InitialisedAsBuilt, InitialisedWithUser, Extends
<1>2. CASE Transact
  BY <1>2, Governed
<1>3. CASE ~DeployContract /\ ~Transact
  <2>1. chain' = chain
    BY <1>3 DEF BookNext, bookVars, Main, Save, Call, Return, FetchContract, ReturnContract, saveContract,
       ThrowContract, saveNewForge, SkipListing, ThrowListing, StartNote, ThrowNote,
       ThrowTransaction, InfoKnown, Info, FlattenForges, FlattenContracts, Write, FailSave,
       CrashBetweenFiles, Crash, Restart
  <2>2. happened \cap {"forced", "cut"} \subseteq happened'
    BY <1>3 DEF BookNext, bookVars, Main, Save, Call, Return, FetchContract, ReturnContract, saveContract,
       ThrowContract, saveNewForge, SkipListing, ThrowListing, StartNote, ThrowNote, Throw,
       ThrowTransaction, InfoKnown, Info, FlattenForges, FlattenContracts, Write, FailSave,
       CrashBetweenFiles, Crash, Restart
  <2>3. ChainOk(chain) /\ InitialisedAsBuilt
    BY DEF BookInv, Typed
  <2> QED
    BY <2>1, <2>2, <2>3 DEF Extends, InitialisedAsBuilt, InitialisedWithUser
<1> QED
  BY <1>1, <1>2, <1>3

-----------------------------------------------------------------------------
(***************************************************************************)
(* What a save begins with, and what is added to the book in memory.       *)
(***************************************************************************)
Alike(x, z) ==
  /\ x = Idle <=> z = Idle
  /\ x # Idle => z.note = x.note /\ (z.phase = "info" <=> x.phase = "info")

Began(s, z, w, v, p, note) ==
  /\ SavesOk(z) /\ z[w] # Idle /\ z[w].phase = p /\ z[w].note = note
  /\ (z[w].alone => s[v] = Idle) /\ Alike(s[v], z[v]) /\ (z[v] # Idle => ~z[v].alone)

LEMMA BeginForm ==
  ASSUME Typed, NEW w \in {"main", "liqYT"}, NEW v \in {"main", "liqYT"}, v # w,
         NEW p \in Phases, NEW note
  PROVE  Began(writer, Begin(w, p, note), w, v, p, note)
<1> DEFINE other == {u \in DOMAIN writer : u # w /\ Busy(u)}
           start == [phase |-> p, note |-> note, flat |-> flat, alone |-> other = {}]
           z == Begin(w, p, note)
<1>1. SavesOk(writer) /\ DOMAIN flat = {"contracts", "forges"}
  BY DEF Typed
<1>2. DOMAIN writer = {"main", "liqYT"} /\ (v \in other <=> writer[v] # Idle)
  BY <1>1 DEF SavesOk, Busy
<1>3. /\ DOMAIN z = {"main", "liqYT"} /\ z[w] = start
      /\ z[v] = IF v \in other THEN [writer[v] EXCEPT !.alone = FALSE] ELSE writer[v]
  BY <1>2 DEF Begin
<1>4. IsSave(start) /\ start.phase = p /\ start.note = note /\ (start.alone <=> other = {})
  BY <1>1 DEF IsSave
<1>5. start.alone => writer[v] = Idle
  BY <1>2, <1>4
<1> HIDE DEF other, start, z
<1>6. CASE writer[v] = Idle
  <2>1. z[v] = Idle
    BY <1>2, <1>3, <1>6
  <2>2. z[w] # Idle
    BY <1>3, <1>4, SaveIsBusy DEF IsSave
  <2>3. SavesOk(z)
    BY <1>3, <1>4, <2>1 DEF SavesOk
  <2> QED
    BY <1>3, <1>4, <1>5, <1>6, <2>1, <2>2, <2>3 DEF Began, Alike, z
<1>7. CASE writer[v] # Idle
  <2>1. z[v] = [writer[v] EXCEPT !.alone = FALSE] /\ IsSave(writer[v])
    BY <1>1, <1>2, <1>3, <1>7 DEF SavesOk
  <2>2. /\ DOMAIN z[v] = DOMAIN writer[v] /\ z[v].phase = writer[v].phase
        /\ z[v].note = writer[v].note /\ z[v].flat = writer[v].flat /\ ~z[v].alone
    BY <2>1 DEF IsSave
  <2>3. IsSave(z[v]) /\ z[v] # Idle /\ z[w] # Idle
    BY <1>3, <1>4, <2>1, <2>2, SaveIsBusy DEF IsSave
  <2>4. SavesOk(z)
    BY <1>3, <1>4, <2>3 DEF SavesOk
  <2> QED
    BY <1>3, <1>4, <1>5, <1>7, <2>2, <2>3, <2>4 DEF Began, Alike, z
<1> QED
  BY <1>6, <1>7

Grows(m, n) ==
  /\ DOMAIN m.contractMap \subseteq DOMAIN n.contractMap
  /\ \A a \in DOMAIN m.contractMap \cap MiningNames : n.contractMap[a] = m.contractMap[a]
  /\ DOMAIN m.forgeMap \subseteq DOMAIN n.forgeMap
  /\ \A id \in DOMAIN m.forgeMap :
       /\ m.forgeMap[id].yields \subseteq n.forgeMap[id].yields
       /\ m.forgeMap[id].markets \subseteq n.forgeMap[id].markets
       /\ m.forgeMap[id].liqYTs \subseteq n.forgeMap[id].liqYTs
       /\ m.forgeMap[id].liqOTs \subseteq n.forgeMap[id].liqOTs

LEMMA GrowsTrivially ==
  ASSUME NEW m
  PROVE  Grows(m, m)
BY DEF Grows

\* saveContract.
Saved(m, n, name, a) ==
  /\ DOMAIN n.contractMap = DOMAIN m.contractMap \cup {name} /\ n.contractMap[name] = a
  /\ \A b \in DOMAIN m.contractMap : b # name => n.contractMap[b] = m.contractMap[b]
  /\ n.forgeMap = m.forgeMap

LEMMA SavedForm ==
  ASSUME BookInv, saveContract
  PROVE  /\ AtStep(job.pc) /\ Step.do = "contract"
         /\ ContractIsOrdered(job.op, Recipe(job.op), job.pc)
         /\ MadeIs(job, writer["main"], mem, env, chain) /\ job.made # 0
         /\ job.op.mode \in {"DEPLOY", "FORCE_DEPLOY"}
         /\ job.op.mode = "DEPLOY" => Step.name \notin DOMAIN mem.contractMap
         /\ Saved(mem, mem', Step.name, job.made) /\ BookOk(chain, mem') /\ Grows(mem, mem')
         /\ Began(writer, writer', "main", "liqYT", "forges", NoNote)
<1>1. AtStep(job.pc) /\ Step.do = "contract" /\ Mode = job.op.mode
  BY ReadyFacts DEF saveContract, AtContract, Mode
<1>2. MadeIs(job, writer["main"], mem, env, chain) /\ job.made # 0 /\ Mode # "DEPLOY_NOSAVE"
  BY <1>1 DEF BookInv, MadeOk, AtStep, saveContract
<1>3. ContractIsOrdered(job.op, Recipe(job.op), job.pc)
  BY <1>1 DEF AtStep, StepIsOrdered
<1>4. job.op.mode \in {"DEPLOY", "FORCE_DEPLOY"}
  BY <1>1, <1>2, <1>3 DEF MadeIs, ContractIsOrdered, Modes
<1>5. job.op.mode = "DEPLOY" => Step.name \notin DOMAIN mem.contractMap
  BY <1>1, <1>2 DEF MadeIs, AtStep
<1>6. BookOk(chain, mem) /\ Typed
  BY DEF BookInv, Typed
<1>7. /\ DOMAIN mem' = DOMAIN mem /\ mem'.forgeMap = mem.forgeMap
      /\ mem'.contractMap = With(mem.contractMap, Step.name, job.made)
  BY <1>6 DEF saveContract, BookOk, IsBook
<1>8. Saved(mem, mem', Step.name, job.made)
  BY <1>7 DEF Saved, With
<1>9. job.made \in DOMAIN chain.deployed /\ chain.deployed[job.made].name = Step.name
  <2>1. job.made \in DOMAIN chain.deployed
    BY <1>1, <1>2 DEF AtStep, IsJob
  <2>2. chain.deployed[job.made] = [name |-> Step.name, uses |-> {env[u] : u \in Step.uses}]
    BY <1>1, <1>2 DEF MadeIs, AtStep
  <2> QED
    BY <2>1, <2>2
<1>10. BookOk(chain, mem')
  BY <1>6, <1>7, <1>8, <1>9 DEF BookOk, IsBook, Named, Saved
<1>11. Step.name \in MiningNames => Step.name \notin DOMAIN mem.contractMap
  BY <1>1, <1>3, <1>5 DEF ContractIsOrdered, AtStep
<1>12. Grows(mem, mem')
  BY <1>8, <1>11 DEF Grows, Saved
<1>13. Began(writer, writer', "main", "liqYT", "forges", NoNote)
  BY <1>6, BeginForm DEF saveContract, Phases
<1> QED
  BY <1>1, <1>2, <1>3, <1>4, <1>5, <1>8, <1>10, <1>12, <1>13

\* saveNewForge.
Listed(m, n, id) ==
  /\ n.contractMap = m.contractMap
  /\ id \notin DOMAIN m.forgeMap /\ DOMAIN n.forgeMap = DOMAIN m.forgeMap \cup {id}
  /\ \A b \in DOMAIN m.forgeMap : n.forgeMap[b] = m.forgeMap[b]

LEMMA ListedForm ==
  ASSUME BookInv, saveNewForge
  PROVE  /\ AtStep(job.pc) /\ Step.do = "saveNewForge"
         /\ job.op.mode = "DEPLOY" \/ Step.always
         /\ Listed(mem, mem', Step.id)
         /\ mem'.forgeMap[Step.id].forge = env[Step.forge]
         /\ mem'.forgeMap[Step.id].rm = env[Step.rm]
         /\ BookOk(chain, mem') /\ Grows(mem, mem')
         /\ Began(writer, writer', "main", "liqYT", "forges", NoNote)
<1>1. AtStep(job.pc) /\ Step.do = "saveNewForge" /\ (job.op.mode = "DEPLOY" \/ Step.always)
  BY ReadyFacts DEF saveNewForge, AtListing, Mode, Lists
<1>2. BookOk(chain, mem) /\ Typed
  BY DEF BookInv, Typed
<1>3. /\ DOMAIN mem' = DOMAIN mem /\ mem'.contractMap = mem.contractMap
      /\ mem'.forgeMap = With(mem.forgeMap, Step.id, NewEntry) /\ Step.id \notin DOMAIN mem.forgeMap
  BY <1>2 DEF saveNewForge, BookOk, IsBook
<1>4. Listed(mem, mem', Step.id) /\ mem'.forgeMap[Step.id] = NewEntry
  BY <1>3 DEF Listed, With
<1>5. /\ DOMAIN NewEntry = {"forge", "rm", "outdated"} \cup Fields
      /\ NewEntry.forge = env[Step.forge] /\ NewEntry.rm = env[Step.rm]
  BY DEF NewEntry, Fields
<1>6. BookOk(chain, mem')
  BY <1>2, <1>3, <1>4, <1>5 DEF BookOk, IsBook, Listed
<1>7. Grows(mem, mem')
  BY <1>4 DEF Grows, Listed
<1>8. Began(writer, writer', "main", "liqYT", "forges", NoNote)
  BY <1>2, BeginForm DEF saveNewForge, Phases
<1> QED
  BY <1>1, <1>4, <1>5, <1>6, <1>7, <1>8

\* The entry of a note.
AddedTo(m, n, id, field, what) ==
  /\ n.contractMap = m.contractMap /\ DOMAIN n.forgeMap = DOMAIN m.forgeMap
  /\ id \in DOMAIN m.forgeMap /\ what \in n.forgeMap[id][field]
  /\ \A b \in DOMAIN m.forgeMap : b # id => n.forgeMap[b] = m.forgeMap[b]
  /\ \A g \in {"forge", "rm"} \cup Fields : g # field => n.forgeMap[id][g] = m.forgeMap[id][g]
  /\ \A a : a \in n.forgeMap[id][field] <=> a \in m.forgeMap[id][field] \/ a = what

\* A save that goes on to the phase p.
WentOn(s, z, w, v, p) ==
  /\ SavesOk(z) /\ z[v] = s[v] /\ z[w] # Idle /\ z[w].phase = p /\ z[w].note = s[w].note
  /\ z[w].alone = s[w].alone

LEMMA NoteForm ==
  ASSUME BookInv, NEW w \in {"main", "liqYT"}, writer[w] # Idle, writer[w].phase = "info"
  PROVE  /\ writer[w].note.id \in DOMAIN mem.forgeMap
         /\ Field(writer[w].note) \in Fields
         /\ w = "liqYT" => Field(writer[w].note) = "liqYTs"
         /\ w = "main" => /\ job # NoJob /\ IsJob(chain, job) /\ job.pc \in 1 .. Len(Recipe(job.op))
                          /\ StepOf(job).do \in Notes \ {"noteLiqYT"}
                          /\ StepIsOrdered(job.op, Recipe(job.op), job.pc)
                          /\ writer[w].note = NotedAs(StepOf(job), env)
                          /\ writer[w].note.id = StepOf(job).id
                          /\ Field(writer[w].note) = Field(StepOf(job))
<1>1. CASE w = "liqYT"
  BY <1>1 DEF BookInv, LiqOk, Field, Fields
<1>2. CASE w = "main"
  <2> DEFINE s == StepOf(job)
             n == writer["main"].note
  <2>1. job # NoJob /\ job.pc \in 1 .. Len(Recipe(job.op)) /\ MainIs(job, writer["main"], mem, env)
    BY <1>2 DEF BookInv, MainOk
  <2>2. /\ s.do \in Notes \ {"noteLiqYT"} /\ n = NotedAs(s, env) /\ s.id \in DOMAIN mem.forgeMap
    BY <1>2, <2>1 DEF MainIs
  <2> HIDE DEF s, n
  <2>3. n.do = s.do /\ n.id = s.id
    BY <2>2 DEF NotedAs
  <2>4. Field(n) = Field(s) /\ Field(s) \in Fields
    BY <2>2, <2>3 DEF Field, Fields, Notes
  <2>5. IsJob(chain, job)
    BY <2>1 DEF BookInv, Typed, JobOk
  <2>6. StepIsOrdered(job.op, Recipe(job.op), job.pc)
    BY <2>1, <2>5, StepFacts DEF IsJob
  <2> QED
    BY <1>2, <2>1, <2>2, <2>3, <2>4, <2>5, <2>6 DEF s, n
<1> QED
  BY <1>1, <1>2

LEMMA WentOnForm ==
  ASSUME Typed, NEW w \in {"main", "liqYT"}, NEW v \in {"main", "liqYT"}, v # w,
         writer[w] # Idle, NEW p \in Phases, NEW z, z = [writer EXCEPT ![w].phase = p]
  PROVE  WentOn(writer, z, w, v, p) /\ z[w].flat = writer[w].flat
<1>1. SavesOk(writer) /\ IsSave(writer[w])
  BY DEF Typed, SavesOk
<1>2. /\ DOMAIN z = DOMAIN writer /\ z[v] = writer[v]
      /\ z[w] = [writer[w] EXCEPT !.phase = p]
  BY <1>1 DEF SavesOk
<1>3. /\ DOMAIN z[w] = DOMAIN writer[w] /\ z[w].phase = p /\ z[w].note = writer[w].note
      /\ z[w].flat = writer[w].flat /\ z[w].alone = writer[w].alone
  BY <1>1, <1>2 DEF IsSave
<1>4. IsSave(z[w]) /\ z[w] # Idle
  BY <1>1, <1>3, SaveIsBusy DEF IsSave
<1>5. SavesOk(z)
  BY <1>1, <1>2, <1>4 DEF SavesOk
<1> QED
  BY <1>2, <1>3, <1>4, <1>5 DEF WentOn

LEMMA InfoForm ==
  ASSUME BookInv, NEW w \in {"main", "liqYT"}, NEW v \in {"main", "liqYT"}, v # w, Info(w)
  PROVE  /\ writer[w] # Idle /\ writer[w].phase = "info"
         /\ AddedTo(mem, mem', writer[w].note.id, Field(writer[w].note), writer[w].note.what)
         /\ BookOk(chain, mem') /\ Grows(mem, mem')
         /\ WentOn(writer, writer', w, v, "forges")
<1> DEFINE n == writer[w].note
           id == n.id
           g == Field(n)
<1>1. writer[w] # Idle /\ writer[w].phase = "info" /\ BookOk(chain, mem) /\ Typed
  BY DEF Info, Busy, BookInv, Typed
<1>2. id \in DOMAIN mem.forgeMap /\ g \in Fields
  BY <1>1, NoteForm
<1>3. mem' = [mem EXCEPT !.forgeMap[id][g] = @ \cup {n.what}]
  BY DEF Info
<1>4. WentOn(writer, writer', w, v, "forges")
  BY <1>1, WentOnForm DEF Info, Phases
<1> HIDE DEF n, id, g
<1>5. /\ DOMAIN mem' = DOMAIN mem /\ mem'.contractMap = mem.contractMap
      /\ DOMAIN mem'.forgeMap = DOMAIN mem.forgeMap
      /\ \A b \in DOMAIN mem.forgeMap : b # id => mem'.forgeMap[b] = mem.forgeMap[b]
      /\ mem'.forgeMap[id] = [mem.forgeMap[id] EXCEPT ![g] = @ \cup {n.what}]
  BY <1>1, <1>2, <1>3 DEF BookOk, IsBook
<1>6. /\ DOMAIN mem.forgeMap[id] = {"forge", "rm", "outdated"} \cup Fields
      /\ \A b \in DOMAIN mem.forgeMap :
           DOMAIN mem.forgeMap[b] = {"forge", "rm", "outdated"} \cup Fields
  BY <1>1, <1>2 DEF BookOk, IsBook
<1>7. /\ DOMAIN mem'.forgeMap[id] = {"forge", "rm", "outdated"} \cup Fields
      /\ mem'.forgeMap[id][g] = mem.forgeMap[id][g] \cup {n.what}
      /\ \A f \in {"forge", "rm"} \cup Fields : f # g => mem'.forgeMap[id][f] = mem.forgeMap[id][f]
  BY <1>2, <1>5, <1>6
<1>8. AddedTo(mem, mem', id, g, n.what)
  BY <1>2, <1>5, <1>7 DEF AddedTo
<1>9. BookOk(chain, mem')
  BY <1>1, <1>5, <1>6, <1>7 DEF BookOk, IsBook
<1>10. \A b \in DOMAIN mem.forgeMap : \A f \in Fields : mem.forgeMap[b][f] \subseteq mem'.forgeMap[b][f]
  BY <1>5, <1>7
<1>11. Grows(mem, mem')
  BY <1>5, <1>10 DEF Grows, Fields
<1> QED
  BY <1>1, <1>4, <1>8, <1>9, <1>11 DEF n, id, g

-----------------------------------------------------------------------------
(***************************************************************************)
(* Flattening, writing, and going on to the next step.                     *)
(***************************************************************************)
LEMMA FlattenForgesForm ==
  ASSUME Typed, NEW w \in {"main", "liqYT"}, NEW v \in {"main", "liqYT"}, v # w, FlattenForges(w)
  PROVE  /\ writer[w] # Idle /\ writer[w].phase = "forges"
         /\ WentOn(writer, writer', w, v, "contracts") /\ writer'[w].flat.forges = mem.forgeMap
<1>1. SavesOk(writer) /\ writer[w] # Idle /\ IsSave(writer[w]) /\ writer[w].phase = "forges"
  BY DEF Typed, SavesOk, FlattenForges, Busy
<1>2. writer' = [writer EXCEPT ![w].phase = "contracts", ![w].flat.forges = mem.forgeMap]
  BY DEF FlattenForges
<1>3. /\ DOMAIN writer' = DOMAIN writer /\ writer'[v] = writer[v]
      /\ DOMAIN writer'[w] = DOMAIN writer[w] /\ writer'[w].phase = "contracts"
      /\ writer'[w].note = writer[w].note /\ writer'[w].alone = writer[w].alone
      /\ writer'[w].flat = [writer[w].flat EXCEPT !.forges = mem.forgeMap]
  BY <1>1, <1>2 DEF SavesOk, IsSave
<1>4. /\ DOMAIN writer'[w].flat = DOMAIN writer[w].flat
      /\ writer'[w].flat.forges = mem.forgeMap
      /\ writer'[w].flat.contracts = writer[w].flat.contracts
  BY <1>1, <1>3 DEF IsSave
<1>5. IsSave(writer'[w]) /\ writer'[w] # Idle
  BY <1>1, <1>3, <1>4, SaveIsBusy DEF IsSave, Phases
<1>6. SavesOk(writer')
  BY <1>1, <1>3, <1>5 DEF SavesOk
<1> QED
  BY <1>1, <1>3, <1>4, <1>5, <1>6 DEF WentOn

LEMMA FlattenContractsForm ==
  ASSUME Typed, NEW w \in {"main", "liqYT"}, NEW v \in {"main", "liqYT"}, v # w,
         FlattenContracts(w)
  PROVE  /\ writer[w] # Idle /\ writer[w].phase = "contracts"
         /\ WentOn(writer, writer', w, v, "write")
         /\ writer'[w].flat.contracts = mem.contractMap
         /\ writer'[w].flat.forges = writer[w].flat.forges
<1>1. SavesOk(writer) /\ writer[w] # Idle /\ IsSave(writer[w]) /\ writer[w].phase = "contracts"
  BY DEF Typed, SavesOk, FlattenContracts, Busy
<1>2. writer' = [writer EXCEPT ![w].phase = "write", ![w].flat.contracts = mem.contractMap]
  BY DEF FlattenContracts
<1>3. /\ DOMAIN writer' = DOMAIN writer /\ writer'[v] = writer[v]
      /\ DOMAIN writer'[w] = DOMAIN writer[w] /\ writer'[w].phase = "write"
      /\ writer'[w].note = writer[w].note /\ writer'[w].alone = writer[w].alone
      /\ writer'[w].flat = [writer[w].flat EXCEPT !.contracts = mem.contractMap]
  BY <1>1, <1>2 DEF SavesOk, IsSave
<1>4. /\ DOMAIN writer'[w].flat = DOMAIN writer[w].flat
      /\ writer'[w].flat.contracts = mem.contractMap
      /\ writer'[w].flat.forges = writer[w].flat.forges
  BY <1>1, <1>3 DEF IsSave
<1>5. IsSave(writer'[w]) /\ writer'[w] # Idle
  BY <1>1, <1>3, <1>4, SaveIsBusy DEF IsSave, Phases
<1>6. SavesOk(writer')
  BY <1>1, <1>3, <1>5 DEF SavesOk
<1> QED
  BY <1>1, <1>3, <1>4, <1>5, <1>6 DEF WentOn

Closed(s, z, w, v) == SavesOk(z) /\ z[w] = Idle /\ z[v] = s[v]

LEMMA ClosedForm ==
  ASSUME Typed, NEW w \in {"main", "liqYT"}, NEW v \in {"main", "liqYT"}, v # w,
         NEW z, z = [writer EXCEPT ![w] = Idle]
  PROVE  Closed(writer, z, w, v)
BY DEF Typed, SavesOk, Closed

\* The next step; what a finished deployment or fetch leaves in env.
Advanced(j, l) == DOMAIN l = DOMAIN j /\ l.op = j.op /\ l.pc = j.pc + 1 /\ l.made = 0

LEMMA AdvanceForm ==
  ASSUME BookInv, job # NoJob, job.pc \in 1 .. Len(Recipe(job.op)), Advance
  PROVE  Advanced(job, job') /\ JobOk(chain, job') /\ job' # NoJob
<1>1. IsJob(chain, job) /\ job' = [job EXCEPT !.pc = @ + 1, !.made = 0]
  BY DEF BookInv, Typed, JobOk, Advance
<1>2. Advanced(job, job')
  BY <1>1 DEF IsJob, Advanced
<1>3. Len(Recipe(job.op)) \in Nat
  BY <1>1, RecipeFacts DEF IsJob
<1>4. IsJob(chain, job')
  BY <1>1, <1>2, <1>3 DEF IsJob, Advanced
<1> QED
  BY <1>2, <1>4, JobWorks DEF JobOk, IsJob

Stored(e, g, n, a) ==
  /\ DOMAIN g = DOMAIN e \cup {n} /\ g[n] = a
  /\ \A b \in DOMAIN e : b # n => g[b] = e[b]

LEMMA StoredKept ==
  ASSUME NEW c, NEW e, NEW u, EnvOk(c, e, u), NEW g, NEW n, NEW a, Stored(e, g, n, a),
         a \in DOMAIN c.deployed, c.deployed[a].name = n
  PROVE  EnvOk(c, g, u)
BY DEF EnvOk, Named, Stored

LEMMA FetchForm ==
  ASSUME BookInv, FetchContract
  PROVE  /\ AtStep(job.pc) /\ Step.do = "contract" /\ job.op.mode = "FETCH"
         /\ ContractIsOrdered(job.op, Recipe(job.op), job.pc)
         /\ Step.name \in DOMAIN mem.contractMap
         /\ Stored(env, env', Step.name, mem.contractMap[Step.name]) /\ EnvOk(chain, env', up)
         /\ Advanced(job, job') /\ JobOk(chain, job') /\ job' # NoJob
<1>1. AtStep(job.pc) /\ Step.do = "contract" /\ job.op.mode = "FETCH"
      /\ Step.name \in DOMAIN mem.contractMap
  BY ReadyFacts DEF FetchContract, AtContract, Mode
<1>2. ContractIsOrdered(job.op, Recipe(job.op), job.pc)
  BY <1>1 DEF AtStep, StepIsOrdered
<1>3. Stored(env, env', Step.name, mem.contractMap[Step.name])
  BY DEF FetchContract, With, Stored
<1>4. Named(chain, mem.contractMap) /\ EnvOk(chain, env, up)
  BY DEF BookInv, Typed, BookOk
<1>5. mem.contractMap[Step.name] \in DOMAIN chain.deployed
      /\ chain.deployed[mem.contractMap[Step.name]].name = Step.name
  BY <1>1, <1>4 DEF Named
<1>6. EnvOk(chain, env', up)
  BY <1>3, <1>4, <1>5, StoredKept
<1>7. Advanced(job, job') /\ JobOk(chain, job') /\ job' # NoJob
  BY <1>1, AdvanceForm DEF FetchContract, AtStep
<1> QED
  BY <1>1, <1>2, <1>3, <1>6, <1>7

\* A contract that was made, and the contracts it was made with.
LEMMA MadeFacts ==
  ASSUME BookInv, job # NoJob, job.made # 0
  PROVE  /\ IsJob(chain, job) /\ job.pc \in 1 .. Len(Recipe(job.op)) /\ Step = StepOf(job)
         /\ Step.do = "contract" /\ ContractIsOrdered(job.op, Recipe(job.op), job.pc)
         /\ job.op.mode # "FETCH" /\ Step.uses \subseteq DOMAIN env
         /\ job.made \in DOMAIN chain.deployed /\ chain.deployed[job.made].name = Step.name
         /\ chain.deployed[job.made].uses = {env[u] : u \in Step.uses}
<1>1. MadeIs(job, writer["main"], mem, env, chain) /\ IsJob(chain, job)
  BY DEF BookInv, MadeOk, Typed, JobOk
<1>2. Step = StepOf(job) /\ Step = Recipe(job.op)[job.pc]
  BY DEF Step, StepOf
<1>3. /\ job.pc \in 1 .. Len(Recipe(job.op)) /\ Step.do = "contract" /\ job.op.mode # "FETCH"
      /\ Step.uses \subseteq DOMAIN env
  BY <1>1, <1>2 DEF MadeIs
<1>4. chain.deployed[job.made] = [name |-> Step.name, uses |-> {env[u] : u \in Step.uses}]
  BY <1>1, <1>2 DEF MadeIs
<1>5. StepIsOrdered(job.op, Recipe(job.op), job.pc)
  BY <1>1, <1>3, StepFacts DEF IsJob
<1>6. ContractIsOrdered(job.op, Recipe(job.op), job.pc)
  BY <1>2, <1>3, <1>5 DEF StepIsOrdered
<1>7. job.made \in DOMAIN chain.deployed
  BY <1>1 DEF IsJob
<1>8. /\ chain.deployed[job.made].name = Step.name
      /\ chain.deployed[job.made].uses = {env[u] : u \in Step.uses}
  BY <1>4
<1> QED
  BY <1>1, <1>2, <1>3, <1>6, <1>7, <1>8

LEMMA ReturnForm ==
  ASSUME BookInv, ReturnContract
  PROVE  /\ AtStep(job.pc) /\ Step.do = "contract" /\ job.op.mode = "DEPLOY_NOSAVE"
         /\ job.made # 0 /\ ContractIsOrdered(job.op, Recipe(job.op), job.pc)
         /\ Stored(env, env', Step.name, job.made) /\ EnvOk(chain, env', up)
         /\ Advanced(job, job') /\ JobOk(chain, job') /\ job' # NoJob
<1>1. AtStep(job.pc) /\ job.op.mode = "DEPLOY_NOSAVE" /\ job.made # 0 /\ job # NoJob
  BY ReadyFacts DEF ReturnContract, AtContract, Mode, AtStep
<1>2. Stored(env, env', Step.name, job.made)
  BY DEF ReturnContract, With, Stored
<1>3. EnvOk(chain, env, up)
  BY DEF BookInv, Typed
<1>4. EnvOk(chain, env', up)
  BY <1>1, <1>2, <1>3, MadeFacts, StoredKept
<1>5. Advanced(job, job') /\ JobOk(chain, job') /\ job' # NoJob
  BY <1>1, AdvanceForm DEF ReturnContract, AtStep
<1> QED
  BY <1>1, <1>2, <1>4, <1>5, MadeFacts

LEMMA WriteMainForm ==
  ASSUME BookInv, Write("main")
  PROVE  /\ job # NoJob /\ IsJob(chain, job) /\ job.pc \in 1 .. Len(Recipe(job.op))
         /\ Step = StepOf(job) /\ writer["main"] # Idle /\ writer["main"].phase = "write"
         /\ MainIs(job, writer["main"], mem, env) /\ up
         /\ StepIsOrdered(job.op, Recipe(job.op), job.pc)
         /\ Step.do = "contract" => Stored(env, env', Step.name, job.made) /\ job.made # 0
         /\ Step.do # "contract" => env' = env
         /\ EnvOk(chain, env', up)
         /\ Advanced(job, job') /\ JobOk(chain, job') /\ job' # NoJob
         /\ Closed(writer, writer', "main", "liqYT")
<1>1. writer["main"] # Idle /\ writer["main"].phase = "write" /\ up
      /\ Closed(writer, writer', "main", "liqYT")
  BY ClosedForm DEF Write, Busy, BookInv
<1>2. /\ job # NoJob /\ job.pc \in 1 .. Len(Recipe(job.op))
      /\ MainIs(job, writer["main"], mem, env) /\ Step = StepOf(job)
  BY <1>1 DEF BookInv, MainOk, Step, StepOf
<1>3. Resume("main")
  BY DEF Write
<1>4. Advance /\ env' = IF Step.do = "contract" THEN With(env, Step.name, job.made) ELSE env
  BY <1>3 DEF Resume
<1>5. Advanced(job, job') /\ JobOk(chain, job') /\ job' # NoJob
  BY <1>2, <1>4, AdvanceForm
<1>6. IsJob(chain, job) /\ StepIsOrdered(job.op, Recipe(job.op), job.pc) /\ EnvOk(chain, env, up)
  BY <1>2, StepFacts DEF BookInv, Typed, JobOk, IsJob
<1>7. Step.do = "contract" => Stored(env, env', Step.name, job.made)
  BY <1>4 DEF With, Stored
<1>8. Step.do = "contract" => job.made # 0
  BY <1>2 DEF MainIs, Notes
<1>9. EnvOk(chain, env', up)
  <2>1. CASE Step.do = "contract"
    BY <2>1, <1>2, <1>6, <1>7, <1>8, MadeFacts, StoredKept
  <2>2. CASE Step.do # "contract"
    BY <2>2, <1>4, <1>6
  <2> QED
    BY <2>1, <2>2
<1> QED
  BY <1>1, <1>2, <1>4, <1>5, <1>6, <1>7, <1>8, <1>9

-----------------------------------------------------------------------------
(***************************************************************************)
(* The type invariant is kept.                                             *)
(***************************************************************************)
Quiet == Return \/ ThrowContract \/ SkipListing \/ ThrowListing \/ ThrowNote \/ ThrowTransaction

Threads == {"main", "liqYT"}

LEMMA BookNextCases ==
  ASSUME BookInv, [BookNext]_bookVars
  PROVE  \/ \E op \in world.ops : Call(op)
         \/ Quiet \/ FetchContract \/ DeployContract \/ ReturnContract \/ saveContract
         \/ saveNewForge \/ StartNote \/ Transact \/ InfoKnown
         \/ \E w \in Threads : \E v \in Threads :
              v # w /\ (Info(w) \/ FlattenForges(w) \/ FlattenContracts(w) \/ Write(w)
                          \/ FailSave(w) \/ CrashBetweenFiles(w))
         \/ Crash \/ Restart \/ UNCHANGED bookVars
<1>1. DOMAIN writer = Threads
  BY DEF BookInv, Typed, SavesOk, Threads
<1>2. \A w \in Threads : \E v \in Threads : v # w
  BY DEF Threads
<1> QED
  BY <1>1, <1>2 DEF BookNext, Main, Save, Quiet

\* The data of an entry, but not what is noted, are overwritten.
Overwritten(m, n) ==
  /\ n.contractMap = m.contractMap /\ DOMAIN n.forgeMap = DOMAIN m.forgeMap
  /\ \A id \in DOMAIN m.forgeMap : \A g \in {"forge", "rm"} \cup Fields :
       n.forgeMap[id][g] = m.forgeMap[id][g]

LEMMA OverwrittenForm ==
  ASSUME NEW c, NEW m, BookOk(c, m), NEW id \in DOMAIN m.forgeMap, NEW a, NEW n,
         n = [m EXCEPT !.forgeMap[id].outdated = @ \ {a}]
  PROVE  Overwritten(m, n) /\ BookOk(c, n) /\ Grows(m, n)
<1>1. /\ DOMAIN n = DOMAIN m /\ n.contractMap = m.contractMap /\ DOMAIN n.forgeMap = DOMAIN m.forgeMap
      /\ \A b \in DOMAIN m.forgeMap : b # id => n.forgeMap[b] = m.forgeMap[b]
      /\ n.forgeMap[id] = [m.forgeMap[id] EXCEPT !.outdated = @ \ {a}]
  BY DEF BookOk, IsBook
<1>2. \A b \in DOMAIN m.forgeMap : DOMAIN m.forgeMap[b] = {"forge", "rm", "outdated"} \cup Fields
  BY DEF BookOk, IsBook
<1>3. /\ DOMAIN n.forgeMap[id] = DOMAIN m.forgeMap[id]
      /\ \A g \in {"forge", "rm"} \cup Fields : n.forgeMap[id][g] = m.forgeMap[id][g]
  BY <1>1, <1>2 DEF Fields
<1>4. Overwritten(m, n)
  BY <1>1, <1>3 DEF Overwritten
<1>5. BookOk(c, n)
  BY <1>1, <1>2, <1>3 DEF BookOk, IsBook
<1>6. Grows(m, n)
  BY <1>4 DEF Overwritten, Grows, Fields
<1> QED
  BY <1>4, <1>5, <1>6

LEMMA KnownForm ==
  ASSUME BookInv, InfoKnown
  PROVE  /\ job # NoJob /\ IsJob(chain, job) /\ job.pc \in 1 .. Len(Recipe(job.op))
         /\ Step = StepOf(job) /\ Step.do = "noteYield" /\ Step.id \in DOMAIN mem.forgeMap
         /\ Step.id \in mem.forgeMap[Step.id].yields
         /\ writer["main"] # Idle /\ writer["main"].phase = "info"
         /\ Closed(writer, writer', "main", "liqYT")
         /\ Advanced(job, job') /\ JobOk(chain, job') /\ job' # NoJob
         /\ Overwritten(mem, mem') /\ BookOk(chain, mem') /\ Grows(mem, mem')
<1>1. writer["main"] # Idle /\ writer["main"].phase = "info" /\ OverwritesYield("main") /\ Typed
  BY DEF InfoKnown, Busy, BookInv
<1>2. /\ job # NoJob /\ IsJob(chain, job) /\ job.pc \in 1 .. Len(Recipe(job.op))
      /\ StepIsOrdered(job.op, Recipe(job.op), job.pc)
      /\ writer["main"].note = NotedAs(StepOf(job), env)
      /\ writer["main"].note.id \in DOMAIN mem.forgeMap
      /\ StepOf(job).do \in Notes
  BY <1>1, NoteForm
<1>3. Step = StepOf(job) /\ Step = Recipe(job.op)[job.pc]
  BY DEF Step, StepOf
<1>4. Step.do = "noteYield" /\ writer["main"].note.id = Step.id
      /\ writer["main"].note.what \in mem.forgeMap[Step.id].yields
  BY <1>1, <1>2, <1>3 DEF OverwritesYield, NotedAs
<1>5. NoteIsOrdered(job.op, Recipe(job.op), job.pc)
  BY <1>2, <1>3 DEF StepIsOrdered
<1>6. writer["main"].note.what = Step.id
  BY <1>2, <1>3, <1>4, <1>5 DEF NoteIsOrdered, NotedAs
<1>7. Closed(writer, writer', "main", "liqYT")
  BY <1>1, ClosedForm DEF InfoKnown
<1>8. Advanced(job, job') /\ JobOk(chain, job') /\ job' # NoJob
  BY <1>2, AdvanceForm DEF InfoKnown
<1>9. BookOk(chain, mem)
  BY DEF BookInv, Typed
<1>10. Overwritten(mem, mem') /\ BookOk(chain, mem') /\ Grows(mem, mem')
  BY <1>2, <1>9, OverwrittenForm DEF InfoKnown
<1> QED
  BY <1>1, <1>2, <1>3, <1>4, <1>6, <1>7, <1>8, <1>10

LEMMA BookStep ==
  ASSUME BookInv, [BookNext]_bookVars
  PROVE  BookOk(chain, mem') /\ BookOk(chain, file')
<1>1. BookOk(chain, mem) /\ BookOk(chain, file)
  BY DEF BookInv, Typed
<1>2. CASE \E op \in world.ops : Call(op)
  BY <1>1, <1>2 DEF Call
<1>3. CASE Quiet
  BY <1>1, <1>3 DEF Quiet, Return, ThrowContract, SkipListing, ThrowListing, ThrowNote,
     ThrowTransaction
<1>4. CASE FetchContract \/ DeployContract \/ ReturnContract
  BY <1>1, <1>4 DEF FetchContract, DeployContract, ReturnContract
<1>5. CASE saveContract
  BY <1>1, <1>5, SavedForm DEF saveContract
<1>6. CASE saveNewForge
  BY <1>1, <1>6, ListedForm DEF saveNewForge
<1>7. CASE StartNote \/ Transact \/ UNCHANGED bookVars
  BY <1>1, <1>7 DEF StartNote, Transact, bookVars
<1>8. ASSUME NEW w \in Threads, NEW v \in Threads, v # w, Info(w)
      PROVE  BookOk(chain, mem') /\ BookOk(chain, file')
  BY <1>1, <1>8, InfoForm DEF Info, Threads
<1>9. ASSUME NEW w \in Threads, FlattenForges(w) \/ FlattenContracts(w) \/ Write(w)
                                  \/ FailSave(w) \/ CrashBetweenFiles(w)
      PROVE  BookOk(chain, mem') /\ BookOk(chain, file')
  BY <1>1, <1>9 DEF FlattenForges, FlattenContracts, Write, FailSave, CrashBetweenFiles
<1>10. CASE Crash \/ Restart
  BY <1>1, <1>10 DEF Crash, Restart
<1>11. CASE InfoKnown
  BY <1>1, <1>11, KnownForm DEF InfoKnown
<1> QED
  BY <1>2, <1>3, <1>4, <1>5, <1>6, <1>7, <1>8, <1>9, <1>10, <1>11, BookNextCases

LEMMA EnvStep ==
  ASSUME BookInv, [BookNext]_bookVars
  PROVE  EnvOk(chain, env', up')
<1>1. EnvOk(chain, env, up) /\ BookOk(chain, file) /\ world \in Worlds
  BY DEF BookInv, Typed
<1>2. CASE \E op \in world.ops : Call(op)
  BY <1>1, <1>2 DEF Call
<1>3. CASE Quiet
  BY <1>1, <1>3 DEF Quiet, Return, ThrowContract, SkipListing, ThrowListing, ThrowNote,
     ThrowTransaction
<1>4. CASE FetchContract
  BY <1>4, FetchForm DEF FetchContract
<1>5. CASE ReturnContract
  BY <1>5, ReturnForm DEF ReturnContract
<1>6. CASE DeployContract \/ saveContract \/ saveNewForge \/ StartNote \/ Transact \/ InfoKnown
             \/ UNCHANGED bookVars
  BY <1>1, <1>6 DEF DeployContract, saveContract, saveNewForge, StartNote, Transact, InfoKnown,
     bookVars
<1>7. ASSUME NEW w \in Threads, Info(w) \/ FlattenForges(w) \/ FlattenContracts(w) \/ FailSave(w)
      PROVE  EnvOk(chain, env', up')
  BY <1>1, <1>7 DEF FlattenForges, FlattenContracts, FailSave, Info
<1>8. ASSUME NEW w \in Threads, Write(w)
      PROVE  EnvOk(chain, env', up')
  <2>1. CASE w = "main"
    BY <1>8, <2>1, WriteMainForm DEF Write
  <2>2. CASE w # "main"
    BY <1>1, <1>8, <2>2 DEF Write, Resume
  <2> QED
    BY <2>1, <2>2
<1>9. CASE Crash \/ \E w \in Threads : CrashBetweenFiles(w)
  <2>1. env' = NoMap /\ up' = FALSE
    BY <1>9 DEF Crash, CrashBetweenFiles
  <2> QED
    BY <2>1 DEF EnvOk, Named, NoMap
<1>10. CASE Restart
  <2>1. PAUSE_LIQ \in {world.names[i] : i \in 1 .. world.core}
    BY <1>1, BookAssumption DEF IsWorld
  <2>2. env' = FetchedCore(file)
    BY <1>10 DEF Restart
  <2>3. /\ DOMAIN env' = DOMAIN file.contractMap \cap {world.names[i] : i \in 1 .. world.core}
        /\ \A n \in DOMAIN env' : env'[n] = file.contractMap[n]
    BY <2>2 DEF FetchedCore
  <2> QED
    BY <1>1, <2>1, <2>3 DEF EnvOk, BookOk, Named
<1> QED
  BY <1>2, <1>3, <1>4, <1>5, <1>6, <1>7, <1>8, <1>9, <1>10, BookNextCases

LEMMA StartForm ==
  ASSUME BookInv, StartNote, NEW w, w = WriterOf(Step), NEW v \in Threads, v # w
  PROVE  /\ AtStep(job.pc) /\ Step.do \in Notes /\ NoteIsOrdered(job.op, Recipe(job.op), job.pc)
         /\ Step.id \in DOMAIN mem.forgeMap /\ w \in Threads /\ writer[w] = Idle
         /\ (w = "liqYT" <=> Step.do = "noteLiqYT")
         /\ Began(writer, writer', w, v, "info", NotedAs(Step, env))
         /\ w = "main" => job' = job
         /\ w = "liqYT" => Advanced(job, job') /\ JobOk(chain, job') /\ job' # NoJob
<1>1. AtStep(job.pc) /\ Step.do \in Notes /\ Step.id \in DOMAIN mem.forgeMap
  BY ReadyFacts DEF StartNote, AtNote, CanNote
<1>2. NoteIsOrdered(job.op, Recipe(job.op), job.pc)
  BY <1>1 DEF AtStep, StepIsOrdered
<1>3. w \in Threads /\ writer[w] = Idle /\ (w = "liqYT" <=> Step.do = "noteLiqYT")
  BY DEF StartNote, Busy, WriterOf, Threads
<1>4. Entry(Step) = NotedAs(Step, env)
  BY DEF Entry, Noted, NotedAs
<1>5. Typed /\ writer' = Begin(w, "info", Entry(Step))
  BY DEF BookInv, StartNote
<1>6. Began(writer, Begin(w, "info", Entry(Step)), w, v, "info", Entry(Step))
  BY <1>3, <1>5, BeginForm DEF Threads, Phases
<1>7. w = "main" => job' = job
  BY DEF StartNote
<1>8. w = "liqYT" => Advance
  BY DEF StartNote
<1>9. w = "liqYT" => Advanced(job, job') /\ JobOk(chain, job') /\ job' # NoJob
  BY <1>1, <1>8, AdvanceForm DEF AtStep
<1> QED
  BY <1>1, <1>2, <1>3, <1>4, <1>5, <1>6, <1>7, <1>9

\* A function that returns or throws, or passes by a step that does nothing.
LEMMA QuietForm ==
  ASSUME BookInv, Quiet
  PROVE  /\ UNCHANGED <<chain, file, flat, mem, env, up, writer, world>>
         /\ job # NoJob /\ IsJob(chain, job) /\ writer["main"] = Idle /\ up
         /\ happened \subseteq happened' /\ happened' \subseteq happened \cup {"cut", "lostSave"}
         /\ \/ /\ AtEnd /\ job' = NoJob /\ finished' = finished \cup {job.op}
               /\ happened' = happened
            \/ job' = NoJob /\ "cut" \in happened' /\ finished' = finished
            \/ /\ AtStep(job.pc) /\ Step.do # "contract" /\ finished' = finished
               /\ Advanced(job, job') /\ JobOk(chain, job') /\ job' # NoJob
               /\ DoneStep(Step, job.op.mode, env, mem, writer["liqYT"], happened')
               /\ "cut" \in happened' <=> "cut" \in happened
<1>1. CASE Return
  BY <1>1 DEF Return, Bounds, BookInv, Typed, JobOk, Working, Busy
<1>2. CASE ThrowContract \/ ThrowListing \/ ThrowTransaction
  <2>1. AtStep(job.pc)
    BY <1>2, ReadyFacts DEF ThrowContract, ThrowListing, ThrowTransaction, AtContract, AtListing,
       AtTransaction
  <2> QED
    BY <1>2, <2>1 DEF ThrowContract, ThrowListing, ThrowTransaction, Throw, Bounds, AtStep
<1>3. CASE SkipListing
  <2>1. AtStep(job.pc) /\ Step.do = "saveNewForge" /\ ~Lists /\ Advance
    BY <1>3, ReadyFacts DEF SkipListing, AtListing
  <2>2. Advanced(job, job') /\ JobOk(chain, job') /\ job' # NoJob
    BY <2>1, AdvanceForm DEF AtStep
  <2>3. DoneStep(Step, job.op.mode, env, mem, writer["liqYT"], happened)
    BY <2>1 DEF DoneStep, Lists, Mode
  <2> QED
    BY <1>3, <2>1, <2>2, <2>3 DEF SkipListing, Bounds, AtStep
<1>4. CASE ThrowNote
  <2>1. AtStep(job.pc) /\ Step.do \in Notes
    BY <1>4, ReadyFacts DEF ThrowNote, AtNote
  <2>2. CASE WriterOf(Step) = "main"
    BY <1>4, <2>1, <2>2 DEF ThrowNote, Throw, Bounds, AtStep
  <2>3. CASE WriterOf(Step) # "main"
    <3>1. Advance /\ happened' = happened \cup {"lostSave"} /\ Step.do = "noteLiqYT"
      BY <1>4, <2>3 DEF ThrowNote, WriterOf
    <3>2. Advanced(job, job') /\ JobOk(chain, job') /\ job' # NoJob
      BY <2>1, <3>1, AdvanceForm DEF AtStep
    <3>3. DoneStep(Step, job.op.mode, env, mem, writer["liqYT"], happened')
      BY <3>1 DEF DoneStep
    <3> QED
      BY <1>4, <2>1, <3>1, <3>2, <3>3 DEF ThrowNote, Bounds, AtStep, Notes
  <2> QED
    BY <2>2, <2>3
<1> QED
  BY <1>1, <1>2, <1>3, <1>4 DEF Quiet

LEMMA CallForm ==
  ASSUME BookInv, NEW op \in world.ops, Call(op)
  PROVE  /\ op \in Calls /\ job = NoJob /\ writer["main"] = Idle /\ up
         /\ job'.op = op /\ job'.pc = 1 /\ job'.made = 0 /\ JobOk(chain, job') /\ job' # NoJob
         /\ happened \subseteq happened' /\ happened' \subseteq happened \cup {"forced"}
         /\ op.mode \in {"FORCE_DEPLOY", "DEPLOY_NOSAVE"} => "forced" \in happened'
<1>1. op \in Calls /\ job = NoJob /\ up
  BY BookAssumption DEF Call, BookInv, Typed, IsWorld, Working
<1>2. writer["main"] = Idle
  BY <1>1 DEF BookInv, MainOk
<1>3. DOMAIN job' = {"op", "pc", "made"} /\ job'.op = op /\ job'.pc = 1 /\ job'.made = 0
  BY DEF Call
<1>4. Len(Recipe(op)) \in Nat
  BY <1>1, RecipeFacts
<1>5. IsJob(chain, job')
  BY <1>1, <1>3, <1>4 DEF IsJob
<1>6. /\ happened \subseteq happened' /\ happened' \subseteq happened \cup {"forced"}
      /\ op.mode \in {"FORCE_DEPLOY", "DEPLOY_NOSAVE"} => "forced" \in happened'
  BY DEF Call
<1> QED
  BY <1>1, <1>2, <1>3, <1>5, <1>6, JobWorks DEF JobOk

LEMMA TransactForm ==
  ASSUME BookInv, Transact
  PROVE  /\ AtStep(job.pc) /\ Step.do \in Transactions
         /\ Advanced(job, job') /\ JobOk(chain, job') /\ job' # NoJob
<1>1. AtStep(job.pc) /\ Step.do \in Transactions
  BY ReadyFacts DEF Transact, AtTransaction, AtStep, StepIsOrdered
<1> QED
  BY <1>1, AdvanceForm DEF Transact, AtStep

LEMMA JobStep ==
  ASSUME BookInv, [BookNext]_bookVars
  PROVE  JobOk(chain', job')
<1> SUFFICES JobOk(chain, job') \/ DeployContract
  BY ChainStep, Built DEF JobOk, IsJob, Extends
<1>1. JobOk(chain, job)
  BY DEF BookInv, Typed
<1>2. JobOk(chain, NoJob)
  BY DEF JobOk
<1>3. CASE \E op \in world.ops : Call(op)
  BY <1>3, CallForm
<1>4. CASE Quiet
  BY <1>4, <1>2, QuietForm
<1>5. CASE FetchContract \/ ReturnContract \/ Transact \/ InfoKnown
  BY <1>5, FetchForm, ReturnForm, TransactForm, KnownForm
<1>6. CASE saveContract \/ saveNewForge \/ Restart \/ UNCHANGED bookVars
  BY <1>1, <1>6 DEF saveContract, saveNewForge, Restart, bookVars
<1>7. CASE StartNote
  <2>1. WriterOf(Step) \in Threads /\ \E v \in Threads : v # WriterOf(Step)
    BY DEF WriterOf, Threads
  <2> QED
    BY <1>1, <1>7, <2>1, StartForm DEF Threads
<1>8. ASSUME NEW w \in Threads, Info(w) \/ FlattenForges(w) \/ FlattenContracts(w) \/ FailSave(w)
      PROVE  JobOk(chain, job')
  BY <1>1, <1>2, <1>8 DEF FlattenForges, FlattenContracts, FailSave, Info
<1>9. ASSUME NEW w \in Threads, Write(w)
      PROVE  JobOk(chain, job')
  BY <1>1, <1>9, WriteMainForm DEF Write, Resume
<1>10. CASE Crash \/ \E w \in Threads : CrashBetweenFiles(w)
  BY <1>2, <1>10 DEF Crash, CrashBetweenFiles
<1> QED
  BY <1>3, <1>4, <1>5, <1>6, <1>7, <1>8, <1>9, <1>10, BookNextCases

LEMMA SavesStep ==
  ASSUME BookInv, [BookNext]_bookVars
  PROVE  SavesOk(writer')
<1>1. SavesOk(writer) /\ Typed
  BY DEF BookInv, Typed
<1>2. CASE \E op \in world.ops : Call(op)
  BY <1>1, <1>2 DEF Call
<1>3. CASE Quiet
  BY <1>1, <1>3, QuietForm
<1>4. CASE FetchContract \/ DeployContract \/ ReturnContract \/ Transact \/ Restart \/ UNCHANGED bookVars
  BY <1>1, <1>4 DEF FetchContract, DeployContract, ReturnContract, Transact, Restart, bookVars
<1>5. CASE saveContract \/ saveNewForge \/ InfoKnown
  BY <1>5, SavedForm, ListedForm, KnownForm DEF Began, Closed
<1>6. CASE StartNote
  <2>1. PICK v \in Threads : v # WriterOf(Step)
    BY DEF Threads
  <2> QED
    BY <1>6, <2>1, StartForm DEF Began
<1>7. ASSUME NEW w \in Threads, NEW v \in Threads, v # w,
             Info(w) \/ FlattenForges(w) \/ FlattenContracts(w)
      PROVE  SavesOk(writer')
  BY <1>1, <1>7, InfoForm, FlattenForgesForm, FlattenContractsForm DEF WentOn, Threads
<1>8. ASSUME NEW w \in Threads, NEW v \in Threads, v # w, Write(w) \/ FailSave(w)
      PROVE  SavesOk(writer')
  BY <1>1, <1>8, ClosedForm DEF Closed, Write, FailSave, Threads
<1>9. CASE Crash \/ \E w \in Threads : CrashBetweenFiles(w)
  <2>1. writer' = [w \in DOMAIN writer |-> Idle]
    BY <1>9 DEF Crash, CrashBetweenFiles
  <2> QED
    BY <1>1, <2>1 DEF SavesOk
<1> QED
  BY <1>2, <1>3, <1>4, <1>5, <1>6, <1>7, <1>8, <1>9, BookNextCases

LEMMA DownStep ==
  ASSUME BookInv, [BookNext]_bookVars
  PROVE  /\ world' \in Worlds /\ DOMAIN flat' = {"contracts", "forges"} /\ up' \in BOOLEAN
         /\ ~up' => job' = NoJob /\ mem' = file' /\ writer'["main"] = Idle
                      /\ writer'["liqYT"] = Idle
<1>1. /\ Typed /\ world \in Worlds /\ DOMAIN flat = {"contracts", "forges"} /\ up \in BOOLEAN
      /\ SavesOk(writer)
      /\ ~up => job = NoJob /\ mem = file /\ writer["main"] = Idle /\ writer["liqYT"] = Idle
  BY DEF BookInv, Typed, Working, Busy
<1>2. world' = world
  BY DEF BookNext, bookVars, Main, Save, Call, Return, FetchContract, DeployContract, ReturnContract,
     saveContract, ThrowContract, saveNewForge, SkipListing, ThrowListing, StartNote, ThrowNote,
     Transact, ThrowTransaction, InfoKnown, Info, FlattenForges, FlattenContracts, Write, FailSave,
     CrashBetweenFiles, Crash, Restart, Bounds
<1>3. CASE (\E op \in world.ops : Call(op)) \/ FetchContract \/ DeployContract \/ ReturnContract
             \/ saveContract \/ saveNewForge \/ StartNote \/ Transact
  <2>1. up' = TRUE /\ flat' = flat
    BY <1>3 DEF Call, FetchContract, DeployContract, ReturnContract, saveContract, saveNewForge,
       StartNote, Transact, AtContract, AtListing, AtNote, AtTransaction, Ready
  <2> QED
    BY <1>1, <1>2, <2>1
<1>4. CASE Quiet
  BY <1>1, <1>2, <1>4, QuietForm
<1>5. CASE UNCHANGED bookVars
  BY <1>1, <1>2, <1>5 DEF bookVars
<1>6. CASE InfoKnown \/ Restart
  <2>1. up' = TRUE /\ flat' = flat
    BY <1>6 DEF InfoKnown, Restart
  <2> QED
    BY <1>1, <1>2, <2>1
<1>7. ASSUME NEW w \in Threads,
             Info(w) \/ FlattenForges(w) \/ FlattenContracts(w) \/ Write(w) \/ FailSave(w)
      PROVE  up' = TRUE /\ DOMAIN flat' = {"contracts", "forges"}
  <2>1. up' = TRUE /\ (flat' = flat \/ Write(w))
    BY <1>7 DEF Info, FlattenForges, FlattenContracts, Write, FailSave
  <2>2. CASE Write(w)
    <3>1. writer[w] # Idle /\ flat' = writer[w].flat
      BY <2>2 DEF Write, Busy
    <3>2. IsSave(writer[w])
      BY <1>1, <3>1 DEF SavesOk, Threads
    <3> QED
      BY <2>1, <3>1, <3>2 DEF IsSave
  <2> QED
    BY <1>1, <2>1, <2>2
<1>8. CASE Crash \/ \E w \in Threads : CrashBetweenFiles(w)
  <2>1. /\ up' = FALSE /\ flat' = flat /\ job' = NoJob /\ mem' = file'
        /\ writer' = [w \in DOMAIN writer |-> Idle]
    BY <1>8 DEF Crash, CrashBetweenFiles
  <2> QED
    BY <1>1, <1>2, <2>1 DEF SavesOk
<1> QED
  BY <1>1, <1>2, <1>3, <1>4, <1>5, <1>6, <1>7, <1>8, BookNextCases

LEMMA TypedStep ==
  ASSUME BookInv, [BookNext]_bookVars
  PROVE  Typed'
<1>1. Extends(chain, chain')
  BY ChainStep
<1>2. BookOk(chain', mem') /\ BookOk(chain', file')
  BY <1>1, BookStep, NamedKept DEF BookOk
<1>3. EnvOk(chain', env', up')
  BY <1>1, EnvStep, NamedKept DEF EnvOk
<1>4. ChainOk(chain')
  BY <1>1 DEF Extends
<1> QED
  BY <1>2, <1>3, <1>4, JobStep, SavesStep, DownStep DEF Typed, Working, Busy

-----------------------------------------------------------------------------
(***************************************************************************)
(* The two saves.                                                          *)
(***************************************************************************)
LEMMA MainKept ==
  ASSUME NEW j, NEW x, NEW m, NEW e, MainOk(j, x, m, e), NEW z, Alike(x, z),
         NEW n, Grows(m, n), n.contractMap = m.contractMap
  PROVE  MainOk(j, z, n, e)
<1>1. SUFFICES ASSUME z # Idle
               PROVE  j # NoJob /\ j.pc \in 1 .. Len(Recipe(j.op)) /\ MainIs(j, z, n, e)
  BY DEF MainOk
<1>2. x # Idle /\ j # NoJob /\ j.pc \in 1 .. Len(Recipe(j.op)) /\ MainIs(j, x, m, e)
  BY <1>1 DEF Alike, MainOk
<1> DEFINE s == StepOf(j)
<1>3. z.note = x.note /\ (z.phase = "info" <=> x.phase = "info")
  BY <1>2 DEF Alike
<1>4. CASE s.do \in Notes /\ s.do # "noteLiqYT"
  <2>1. /\ s.id \in DOMAIN m.forgeMap /\ x.note = NotedAs(s, e)
        /\ x.phase # "info" => x.note.what \in m.forgeMap[s.id][Field(s)]
    BY <1>2, <1>4 DEF MainIs, Notes
  <2>2. Field(s) \in {"yields", "markets", "liqOTs"}
    BY <1>4 DEF Field, Notes
  <2>3. m.forgeMap[s.id][Field(s)] \subseteq n.forgeMap[s.id][Field(s)] /\ s.id \in DOMAIN n.forgeMap
    <3>1. /\ s.id \in DOMAIN n.forgeMap /\ m.forgeMap[s.id].yields \subseteq n.forgeMap[s.id].yields
          /\ m.forgeMap[s.id].markets \subseteq n.forgeMap[s.id].markets
          /\ m.forgeMap[s.id].liqOTs \subseteq n.forgeMap[s.id].liqOTs
      BY <2>1 DEF Grows
    <3> QED
      BY <2>2, <3>1
  <2> QED
    BY <1>2, <1>3, <1>4, <2>1, <2>3 DEF MainIs
<1>5. CASE ~(s.do \in Notes /\ s.do # "noteLiqYT")
  BY <1>2, <1>3, <1>5 DEF MainIs, Grows
<1> QED
  BY <1>4, <1>5

LEMMA LiqKept ==
  ASSUME NEW y, NEW m, LiqOk(y, m), NEW z, Alike(y, z), NEW n, Grows(m, n)
  PROVE  LiqOk(z, n)
<1>1. SUFFICES ASSUME z # Idle  PROVE LiqOk(z, n)
  BY DEF LiqOk
<1>2. y # Idle /\ z.note = y.note /\ (z.phase = "info" <=> y.phase = "info")
  BY <1>1 DEF Alike
<1> QED
  BY <1>1, <1>2 DEF LiqOk, Grows

LEMMA AlikeTrivially ==
  ASSUME NEW x
  PROVE  Alike(x, x)
BY DEF Alike

LEMMA MainStep ==
  ASSUME BookInv, [BookNext]_bookVars
  PROVE  MainOk(job', writer'["main"], mem', env')
<1>1. MainOk(job, writer["main"], mem, env) /\ Typed
  BY DEF BookInv
<1>2. ASSUME writer'["main"] = Idle
      PROVE  MainOk(job', writer'["main"], mem', env')
  BY <1>2 DEF MainOk
<1>3. CASE (\E op \in world.ops : Call(op)) \/ Quiet
  <2>1. writer'["main"] = Idle
    BY <1>3, CallForm, QuietForm DEF Call
  <2> QED
    BY <1>2, <2>1
<1>4. CASE FetchContract \/ DeployContract \/ ReturnContract \/ Transact
  <2>1. writer["main"] = Idle /\ writer' = writer
    BY <1>4, ReadyFacts DEF FetchContract, DeployContract, ReturnContract, Transact, AtContract,
       AtTransaction, AtStep
  <2> QED
    BY <1>2, <2>1
<1>5. CASE saveContract
  <2>1. /\ AtStep(job.pc) /\ Step.do = "contract" /\ job.made # 0
        /\ job.op.mode \in {"DEPLOY", "FORCE_DEPLOY"} /\ Saved(mem, mem', Step.name, job.made)
        /\ Began(writer, writer', "main", "liqYT", "forges", NoNote) /\ job' = job /\ env' = env
    BY <1>5, SavedForm DEF saveContract
  <2>2. MainIs(job, writer'["main"], mem', env)
    BY <2>1 DEF MainIs, AtStep, Saved, Began
  <2> QED
    BY <2>1, <2>2 DEF MainOk, AtStep
<1>6. CASE saveNewForge
  <2>1. /\ AtStep(job.pc) /\ Step.do = "saveNewForge" /\ Listed(mem, mem', Step.id)
        /\ Began(writer, writer', "main", "liqYT", "forges", NoNote) /\ job' = job /\ env' = env
    BY <1>6, ListedForm DEF saveNewForge
  <2>2. MainIs(job, writer'["main"], mem', env)
    BY <2>1 DEF MainIs, AtStep, Listed, Began
  <2> QED
    BY <2>1, <2>2 DEF MainOk, AtStep
<1>7. CASE StartNote
  <2>0. mem' = mem /\ env' = env
    BY <1>7 DEF StartNote
  <2>1. CASE WriterOf(Step) = "main"
    <3>1. /\ AtStep(job.pc) /\ Step.do \in Notes /\ Step.id \in DOMAIN mem.forgeMap
          /\ Step.do # "noteLiqYT" /\ job' = job
          /\ Began(writer, writer', "main", "liqYT", "info", NotedAs(Step, env))
      BY <1>7, <2>1, StartForm DEF Threads
    <3>2. MainIs(job, writer'["main"], mem, env)
      BY <3>1 DEF MainIs, AtStep, Began
    <3> QED
      BY <2>0, <3>1, <3>2 DEF MainOk, AtStep
  <2>2. CASE WriterOf(Step) # "main"
    <3>1. AtStep(job.pc) /\ Began(writer, writer', "liqYT", "main", "info", NotedAs(Step, env))
      BY <1>7, <2>2, StartForm DEF Threads, WriterOf
    <3> QED
      BY <1>2, <3>1 DEF Began, Alike, AtStep
  <2> QED
    BY <2>1, <2>2
<1>8. CASE Info("main")
  <2> DEFINE s == StepOf(job)
             n == writer["main"].note
  <2>1. /\ AddedTo(mem, mem', n.id, Field(n), n.what) /\ WentOn(writer, writer', "main", "liqYT", "forges")
        /\ writer["main"] # Idle /\ writer["main"].phase = "info"
    BY <1>8, InfoForm
  <2>2. /\ job # NoJob /\ job.pc \in 1 .. Len(Recipe(job.op))
        /\ s.do \in Notes \ {"noteLiqYT"} /\ n = NotedAs(s, env) /\ n.id = s.id
        /\ Field(n) = Field(s)
    BY <2>1, NoteForm
  <2>3. job' = job /\ env' = env
    BY <1>8 DEF Info
  <2> HIDE DEF s, n
  <2>4. writer'["main"].note = n /\ s.id \in DOMAIN mem'.forgeMap
        /\ n.what \in mem'.forgeMap[s.id][Field(s)]
    BY <2>1, <2>2 DEF AddedTo, WentOn, n
  <2>5. MainIs(job, writer'["main"], mem', env)
    BY <2>2, <2>4 DEF MainIs, s
  <2> QED
    BY <2>2, <2>3, <2>5 DEF MainOk
<1>9. CASE Info("liqYT")
  <2>1. /\ WentOn(writer, writer', "liqYT", "main", "forges") /\ Grows(mem, mem')
        /\ mem'.contractMap = mem.contractMap /\ job' = job /\ env' = env
    BY <1>9, InfoForm DEF Info, AddedTo
  <2>2. writer'["main"] = writer["main"]
    BY <2>1 DEF WentOn
  <2> QED
    BY <1>1, <2>1, <2>2, MainKept, AlikeTrivially
<1>10. ASSUME NEW w \in Threads, FlattenForges(w) \/ FlattenContracts(w)
       PROVE  MainOk(job', writer'["main"], mem', env')
  <2>1. job' = job /\ env' = env /\ mem' = mem
    BY <1>10 DEF FlattenForges, FlattenContracts
  <2>2. Alike(writer["main"], writer'["main"])
    <3>1. CASE w = "main"
      BY <1>1, <1>10, <3>1, FlattenForgesForm, FlattenContractsForm DEF WentOn, Alike
    <3>2. CASE w = "liqYT"
      BY <1>1, <1>10, <3>2, FlattenForgesForm, FlattenContractsForm, AlikeTrivially DEF WentOn
    <3> QED
      BY <3>1, <3>2 DEF Threads
  <2> QED
    BY <1>1, <2>1, <2>2, MainKept, GrowsTrivially
<1>11. CASE Write("main") \/ FailSave("main") \/ InfoKnown
  <2>1. Closed(writer, writer', "main", "liqYT")
    BY <1>1, <1>11, ClosedForm DEF Write, FailSave, InfoKnown
  <2> QED
    BY <1>2, <2>1 DEF Closed
<1>12. CASE Write("liqYT") \/ FailSave("liqYT")
  <2>1. Closed(writer, writer', "liqYT", "main")
    BY <1>1, <1>12, ClosedForm DEF Write, FailSave
  <2>2. job' = job /\ env' = env /\ mem' = mem
    BY <1>12 DEF Write, FailSave, Resume
  <2> QED
    BY <1>1, <2>1, <2>2 DEF Closed
<1>13. CASE Crash \/ \E w \in Threads : CrashBetweenFiles(w)
  <2>1. writer' = [w \in DOMAIN writer |-> Idle]
    BY <1>13 DEF Crash, CrashBetweenFiles
  <2> QED
    BY <1>1, <1>2, <2>1 DEF Typed, SavesOk
<1>14. CASE Restart
  BY <1>1, <1>2, <1>14 DEF Restart, Typed, Busy
<1>15. CASE UNCHANGED bookVars
  BY <1>1, <1>15 DEF bookVars
<1> QED
  BY <1>3, <1>4, <1>5, <1>6, <1>7, <1>8, <1>9, <1>10, <1>11, <1>12, <1>13, <1>14, <1>15, BookNextCases
     DEF Threads

LEMMA LiqStep ==
  ASSUME BookInv, [BookNext]_bookVars
  PROVE  LiqOk(writer'["liqYT"], mem')
<1>1. LiqOk(writer["liqYT"], mem) /\ Typed
  BY DEF BookInv
<1>2. ASSUME Alike(writer["liqYT"], writer'["liqYT"]), Grows(mem, mem')
      PROVE  LiqOk(writer'["liqYT"], mem')
  BY <1>1, <1>2, LiqKept
<1>3. ASSUME writer'["liqYT"] = Idle
      PROVE  LiqOk(writer'["liqYT"], mem')
  BY <1>3 DEF LiqOk
<1>4. CASE \E op \in world.ops : Call(op)
  BY <1>1, <1>4 DEF Call
<1>5. CASE Quiet
  BY <1>1, <1>5, QuietForm
<1>6. CASE FetchContract \/ DeployContract \/ ReturnContract \/ Transact \/ UNCHANGED bookVars
  BY <1>1, <1>6 DEF FetchContract, DeployContract, ReturnContract, Transact, bookVars
<1>7. CASE saveContract \/ saveNewForge
  BY <1>2, <1>7, SavedForm, ListedForm DEF Began
<1>8. CASE StartNote
  <2>1. mem' = mem
    BY <1>8 DEF StartNote
  <2>2. CASE WriterOf(Step) = "main"
    BY <1>2, <1>8, <2>1, <2>2, StartForm, GrowsTrivially DEF Began, Threads
  <2>3. CASE WriterOf(Step) # "main"
    <3>1. /\ AtStep(job.pc) /\ Step.do = "noteLiqYT" /\ NoteIsOrdered(job.op, Recipe(job.op), job.pc)
          /\ Step.id \in DOMAIN mem.forgeMap
          /\ Began(writer, writer', "liqYT", "main", "info", NotedAs(Step, env))
      BY <1>8, <2>3, StartForm DEF Threads, WriterOf
    <3>2. /\ job.op.mode = "DEPLOY" /\ "name" \in DOMAIN Step /\ Step.name \in MiningNames
          /\ Deployed(Recipe(job.op), job.pc, Step.name) /\ Step.name = LiqYT(Step.id)
      BY <3>1 DEF NoteIsOrdered, AtStep
    <3>3. Step.name \in DOMAIN mem.contractMap /\ env[Step.name] = mem.contractMap[Step.name]
      <4>1. /\ IsJob(chain, job) /\ ProgressOk(job, env, mem, writer["liqYT"], happened)
            /\ job.pc \in Nat /\ job.pc <= job.pc
        BY <3>1 DEF BookInv, AtStep
      <4> QED
        BY <3>2, <4>1, DeployedDone
    <3>4. /\ NotedAs(Step, env).do = "noteLiqYT" /\ NotedAs(Step, env).id = Step.id
          /\ NotedAs(Step, env).what = env[Step.name]
      BY <3>1, <3>2 DEF NotedAs
    <3> QED
      BY <2>1, <3>1, <3>2, <3>3, <3>4 DEF LiqOk, Began
  <2> QED
    BY <2>2, <2>3
<1>9. CASE Info("main")
  BY <1>2, <1>9, InfoForm, AlikeTrivially DEF WentOn
<1>10. CASE Info("liqYT")
  <2>1. /\ WentOn(writer, writer', "liqYT", "main", "forges") /\ writer["liqYT"] # Idle
        /\ writer["liqYT"].phase = "info" /\ Field(writer["liqYT"].note) = "liqYTs"
        /\ AddedTo(mem, mem', writer["liqYT"].note.id, "liqYTs", writer["liqYT"].note.what)
    BY <1>10, InfoForm, NoteForm
  <2> QED
    BY <1>1, <2>1 DEF LiqOk, WentOn, AddedTo
<1>11. ASSUME NEW w \in Threads, FlattenForges(w) \/ FlattenContracts(w)
       PROVE  LiqOk(writer'["liqYT"], mem')
  <2>1. mem' = mem
    BY <1>11 DEF FlattenForges, FlattenContracts
  <2>2. Alike(writer["liqYT"], writer'["liqYT"])
    <3>1. CASE w = "liqYT"
      BY <1>1, <1>11, <3>1, FlattenForgesForm, FlattenContractsForm DEF WentOn, Alike
    <3>2. CASE w = "main"
      BY <1>1, <1>11, <3>2, FlattenForgesForm, FlattenContractsForm, AlikeTrivially DEF WentOn
    <3> QED
      BY <3>1, <3>2 DEF Threads
  <2> QED
    BY <1>2, <2>1, <2>2, GrowsTrivially
<1>12. CASE Write("main") \/ FailSave("main")
  <2>1. Closed(writer, writer', "main", "liqYT") /\ mem' = mem
    BY <1>1, <1>12, ClosedForm DEF Write, FailSave
  <2> QED
    BY <1>1, <2>1 DEF Closed
<1>13. CASE Write("liqYT") \/ FailSave("liqYT")
  <2>1. Closed(writer, writer', "liqYT", "main")
    BY <1>1, <1>13, ClosedForm DEF Write, FailSave
  <2> QED
    BY <1>3, <2>1 DEF Closed
<1>14. CASE Crash \/ \E w \in Threads : CrashBetweenFiles(w)
  <2>1. writer' = [w \in DOMAIN writer |-> Idle]
    BY <1>14 DEF Crash, CrashBetweenFiles
  <2> QED
    BY <1>1, <1>3, <2>1 DEF Typed, SavesOk
<1>15. CASE Restart
  BY <1>1, <1>3, <1>15 DEF Restart, Typed, Busy
<1>16. CASE InfoKnown
  <2>1. /\ Alike(writer["liqYT"], writer'["liqYT"]) /\ Grows(mem, mem')
        /\ mem'.contractMap = mem.contractMap
    BY <1>16, KnownForm, AlikeTrivially DEF Closed, Overwritten
  <2> QED
    BY <1>2, <2>1
<1> QED
  BY <1>4, <1>5, <1>6, <1>7, <1>8, <1>9, <1>10, <1>11, <1>12, <1>13, <1>14, <1>15, <1>16, BookNextCases
     DEF Threads

-----------------------------------------------------------------------------
(***************************************************************************)
(* The contract that is being made.                                        *)
(***************************************************************************)
LEMMA MadeStep ==
  ASSUME BookInv, [BookNext]_bookVars
  PROVE  MadeOk(job', writer'["main"], mem', env', chain')
<1>1. MadeOk(job, writer["main"], mem, env, chain) /\ Typed
  BY DEF BookInv
<1>2. ASSUME job' = NoJob \/ job'.made = 0
      PROVE  MadeOk(job', writer'["main"], mem', env', chain')
  BY <1>2 DEF MadeOk
<1>3. ASSUME UNCHANGED <<job, env, chain>>,
             \/ writer'["main"] # Idle
             \/ writer'["main"] = writer["main"] /\ mem'.contractMap = mem.contractMap
      PROVE  MadeOk(job', writer'["main"], mem', env', chain')
  BY <1>1, <1>3 DEF MadeOk, MadeIs
<1>4. CASE DeployContract
  <2>1. writer' = writer /\ mem' = mem /\ env' = env
    BY <1>4 DEF DeployContract
  <2> QED
    BY <1>4, <2>1, Built
<1>5. CASE \E op \in world.ops : Call(op)
  BY <1>2, <1>5, CallForm
<1>6. CASE Quiet
  BY <1>2, <1>6, QuietForm DEF Advanced
<1>7. CASE FetchContract \/ ReturnContract \/ Transact \/ InfoKnown \/ Write("main")
  BY <1>2, <1>7, FetchForm, ReturnForm, TransactForm, KnownForm, WriteMainForm DEF Advanced
<1>8. CASE saveContract \/ saveNewForge
  BY <1>3, <1>8, SavedForm, ListedForm DEF Began, saveContract, saveNewForge
<1>9. CASE StartNote
  <2>1. CASE WriterOf(Step) = "main"
    <3>1. writer'["main"] # Idle
      BY <1>9, <2>1, StartForm DEF Threads, Began
    <3> QED
      BY <1>3, <1>9, <2>1, <3>1 DEF StartNote
  <2>2. CASE WriterOf(Step) # "main"
    BY <1>2, <1>9, <2>2, StartForm DEF Threads, WriterOf, Advanced
  <2> QED
    BY <2>1, <2>2
<1>10. CASE Info("main")
  BY <1>3, <1>10, InfoForm DEF WentOn, Info
<1>11. CASE Info("liqYT")
  BY <1>3, <1>11, InfoForm DEF WentOn, Info, AddedTo
<1>12. ASSUME NEW w \in Threads, FlattenForges(w) \/ FlattenContracts(w)
       PROVE  MadeOk(job', writer'["main"], mem', env', chain')
  <2>1. UNCHANGED <<job, env, chain, mem>>
    BY <1>12 DEF FlattenForges, FlattenContracts
  <2>2. writer'["main"] # Idle \/ writer'["main"] = writer["main"]
    <3>1. CASE w = "main"
      BY <1>1, <1>12, <3>1, FlattenForgesForm, FlattenContractsForm DEF WentOn
    <3>2. CASE w = "liqYT"
      BY <1>1, <1>12, <3>2, FlattenForgesForm, FlattenContractsForm DEF WentOn
    <3> QED
      BY <3>1, <3>2 DEF Threads
  <2> QED
    BY <1>3, <2>1, <2>2
<1>13. CASE Write("liqYT") \/ FailSave("liqYT")
  <2>1. Closed(writer, writer', "liqYT", "main")
    BY <1>1, <1>13, ClosedForm DEF Write, FailSave
  <2>2. UNCHANGED <<job, env, chain, mem>>
    BY <1>13 DEF Write, FailSave, Resume
  <2> QED
    BY <1>3, <2>1, <2>2 DEF Closed
<1>14. CASE FailSave("main") \/ Crash \/ \E w \in Threads : CrashBetweenFiles(w)
  BY <1>2, <1>14 DEF Crash, CrashBetweenFiles, FailSave
<1>15. CASE Restart
  BY <1>1, <1>2, <1>15 DEF Restart, Typed, Working
<1>16. CASE UNCHANGED bookVars
  BY <1>3, <1>16 DEF bookVars
<1> QED
  BY <1>4, <1>5, <1>6, <1>7, <1>8, <1>9, <1>10, <1>11, <1>12, <1>13, <1>14, <1>15, <1>16, BookNextCases
     DEF Threads

-----------------------------------------------------------------------------
(***************************************************************************)
(* What the steps done have left.                                          *)
(***************************************************************************)
StillSaves(y, z) == y # Idle => z # Idle /\ z.note = y.note

\* newLiqMiningYT's save goes on, or is in the book n, or is known to be lost.
Handed(y, z, n, i) ==
  \/ StillSaves(y, z) \/ "lostSave" \in i
  \/ y # Idle => n.contractMap[LiqYT(y.note.id)] \in n.forgeMap[y.note.id].liqYTs

LEMMA AlikeIsHanded ==
  ASSUME NEW y, NEW z, Alike(y, z), NEW n, NEW i
  PROVE  Handed(y, z, n, i)
BY DEF Alike, StillSaves, Handed

\* A step that a book and env which have only grown leaves done.
LEMMA StepKept ==
  ASSUME NEW s, NEW mode, NEW e, NEW m, NEW y, NEW h, DoneStep(s, mode, e, m, y, h),
         NEW n, Grows(m, n), NEW z, NEW i, Handed(y, z, n, i),
         "lostSave" \in h => "lostSave" \in i,
         NEW g, DOMAIN e \subseteq DOMAIN g,
         s.do = "contract" /\ mode # "DEPLOY_NOSAVE" => g[s.name] = n.contractMap[s.name],
         s.do \in {"noteLiqOT", "noteLiqYT"} =>
           s.name \in MiningNames /\ s.name \in DOMAIN m.contractMap,
         s.do = "noteLiqYT" => s.name = LiqYT(s.id)
  PROVE  DoneStep(s, mode, g, n, z, i)
<1>1. s.do = "contract" =>
        /\ s.name \in DOMAIN g
        /\ mode # "DEPLOY_NOSAVE" =>
             s.name \in DOMAIN n.contractMap /\ g[s.name] = n.contractMap[s.name]
  BY DEF DoneStep, Grows
<1>2. /\ s.do = "saveNewForge" /\ (mode = "DEPLOY" \/ s.always) => s.id \in DOMAIN n.forgeMap
      /\ s.do = "noteYield" => s.id \in DOMAIN n.forgeMap /\ s.id \in n.forgeMap[s.id].yields
      /\ s.do = "noteMarket" => s.id \in DOMAIN n.forgeMap /\ s.id \in n.forgeMap[s.id].markets
  BY DEF DoneStep, Grows
<1>3. s.do = "noteLiqOT" =>
        s.id \in DOMAIN n.forgeMap /\ n.contractMap[s.name] \in n.forgeMap[s.id].liqOTs
  BY DEF DoneStep, Grows
<1>4. s.do = "noteLiqYT" /\ "lostSave" \notin i =>
        /\ s.id \in DOMAIN n.forgeMap
        /\ n.contractMap[s.name] \in n.forgeMap[s.id].liqYTs \/ InFlight(z, s.id)
  <2>1. SUFFICES ASSUME s.do = "noteLiqYT", "lostSave" \notin i
                 PROVE  /\ s.id \in DOMAIN n.forgeMap
                        /\ n.contractMap[s.name] \in n.forgeMap[s.id].liqYTs \/ InFlight(z, s.id)
    OBVIOUS
  <2>2. /\ s.id \in DOMAIN m.forgeMap /\ s.name \in MiningNames /\ s.name = LiqYT(s.id)
        /\ s.name \in DOMAIN m.contractMap
        /\ m.contractMap[s.name] \in m.forgeMap[s.id].liqYTs \/ InFlight(y, s.id)
    BY <2>1 DEF DoneStep
  <2>3. /\ s.id \in DOMAIN n.forgeMap /\ n.contractMap[s.name] = m.contractMap[s.name]
        /\ m.forgeMap[s.id].liqYTs \subseteq n.forgeMap[s.id].liqYTs
    BY <2>2 DEF Grows
  <2>4. CASE InFlight(y, s.id)
    BY <2>1, <2>2, <2>3, <2>4 DEF Handed, StillSaves, InFlight
  <2> QED
    BY <2>2, <2>3, <2>4
<1> QED
  BY <1>1, <1>2, <1>3, <1>4 DEF DoneStep

LEMMA NotedName ==
  ASSUME NEW c, NEW j, IsJob(c, j), NEW e, NEW m, NEW y, NEW h, ProgressOk(j, e, m, y, h),
         NEW i \in Nat, i \in 1 .. Len(Recipe(j.op)), i <= j.pc,
         Recipe(j.op)[i].do \in {"noteLiqOT", "noteLiqYT"}
  PROVE  /\ j.op.mode = "DEPLOY" /\ Recipe(j.op)[i].name \in MiningNames
         /\ "name" \in DOMAIN Recipe(j.op)[i]
         /\ Recipe(j.op)[i].name \in DOMAIN m.contractMap
         /\ Recipe(j.op)[i].name \in DOMAIN e
         /\ e[Recipe(j.op)[i].name] = m.contractMap[Recipe(j.op)[i].name]
         /\ Recipe(j.op)[i].do = "noteLiqYT" => Recipe(j.op)[i].name = LiqYT(Recipe(j.op)[i].id)
<1> DEFINE s == Recipe(j.op)[i]
<1>1. StepIsOrdered(j.op, Recipe(j.op), i)
  BY StepFacts DEF IsJob
<1>2. NoteIsOrdered(j.op, Recipe(j.op), i)
  BY <1>1 DEF StepIsOrdered, Notes
<1>3. /\ j.op.mode = "DEPLOY" /\ s.name \in MiningNames /\ Deployed(Recipe(j.op), i, s.name)
      /\ "name" \in DOMAIN s
      /\ s.do = "noteLiqYT" => s.name = LiqYT(s.id)
  BY <1>2 DEF NoteIsOrdered
<1> HIDE DEF s
<1>4. s.name \in DOMAIN e /\ (j.op.mode # "DEPLOY_NOSAVE" =>
         s.name \in DOMAIN m.contractMap /\ e[s.name] = m.contractMap[s.name])
  BY <1>3, DeployedDone
<1> QED
  BY <1>3, <1>4 DEF s

LEMMA ProgressKept ==
  ASSUME BookInv, job # NoJob, job'.op = job.op, job' # NoJob, Grows(mem, mem'),
         Handed(writer["liqYT"], writer'["liqYT"], mem', happened'),
         "lostSave" \in happened => "lostSave" \in happened',
         DOMAIN env \subseteq DOMAIN env',
         \A i \in 1 .. job.pc - 1 : LET s == Recipe(job.op)[i] IN
           s.do = "contract" /\ job.op.mode # "DEPLOY_NOSAVE" => env'[s.name] = mem'.contractMap[s.name],
         \/ job'.pc = job.pc
         \/ /\ job'.pc = job.pc + 1
            /\ DoneStep(Step, job.op.mode, env', mem', writer'["liqYT"], happened')
  PROVE  ProgressOk(job', env', mem', writer'["liqYT"], happened')
<1>1. /\ IsJob(chain, job) /\ ProgressOk(job, env, mem, writer["liqYT"], happened)
  BY DEF BookInv, Typed, JobOk
<1>2. Len(Recipe(job.op)) \in Nat /\ job.pc \in Nat /\ job.pc <= Len(Recipe(job.op)) + 1
  BY <1>1, RecipeFacts DEF IsJob
<1>3. ASSUME NEW i \in 1 .. job.pc - 1
      PROVE  DoneStep(Recipe(job.op)[i], job.op.mode, env', mem', writer'["liqYT"], happened')
  <2> DEFINE s == Recipe(job.op)[i]
  <2>1. DoneStep(s, job.op.mode, env, mem, writer["liqYT"], happened)
    BY <1>1 DEF ProgressOk
  <2>2. i \in Nat /\ i \in 1 .. Len(Recipe(job.op)) /\ i <= job.pc
    BY <1>2
  <2>3. s.do \in {"noteLiqOT", "noteLiqYT"} =>
          /\ s.name \in MiningNames /\ s.name \in DOMAIN mem.contractMap
          /\ s.do = "noteLiqYT" => s.name = LiqYT(s.id)
    BY <1>1, <2>2, NotedName
  <2>4. s.do = "contract" /\ job.op.mode # "DEPLOY_NOSAVE" => env'[s.name] = mem'.contractMap[s.name]
    OBVIOUS
  <2> HIDE DEF s
  <2>5. DoneStep(s, job.op.mode, env', mem', writer'["liqYT"], happened')
    BY <2>1, <2>3, <2>4, StepKept
  <2> QED
    BY <2>5 DEF s
<1>4. \A i \in 1 .. job'.pc - 1 : i \in 1 .. job.pc - 1 \/ (i = job.pc /\ job'.pc = job.pc + 1)
  BY <1>2
<1>5. Step = Recipe(job.op)[job.pc]
  BY DEF Step
<1> QED
  BY <1>2, <1>3, <1>4, <1>5 DEF ProgressOk

\* The book and env agree on what is done, so far.
LEMMA DoneAgrees ==
  ASSUME BookInv, job # NoJob, NEW i \in 1 .. job.pc - 1, Recipe(job.op)[i].do = "contract"
  PROVE  /\ Recipe(job.op)[i].name \in DOMAIN env
         /\ job.op.mode # "DEPLOY_NOSAVE" =>
              /\ Recipe(job.op)[i].name \in DOMAIN mem.contractMap
              /\ env[Recipe(job.op)[i].name] = mem.contractMap[Recipe(job.op)[i].name]
BY DEF BookInv, ProgressOk, DoneStep

\* Distinct names.
LEMMA NotDoneYet ==
  ASSUME BookInv, job # NoJob, job.pc \in 1 .. Len(Recipe(job.op)), Step.do = "contract",
         NEW i \in 1 .. job.pc - 1, Recipe(job.op)[i].do = "contract"
  PROVE  Recipe(job.op)[i].name # Step.name
<1>1. IsJob(chain, job)
  BY DEF BookInv, Typed, JobOk
<1>2. StepIsOrdered(job.op, Recipe(job.op), job.pc)
  BY <1>1, StepFacts DEF IsJob
<1>3. ~Deployed(Recipe(job.op), job.pc, Step.name)
  BY <1>2 DEF StepIsOrdered, ContractIsOrdered, Step
<1> QED
  BY <1>3 DEF Deployed

LEMMA LiqHanded ==
  ASSUME BookInv, Write("liqYT") \/ FailSave("liqYT") \/ CrashBetweenFiles("liqYT")
  PROVE  /\ \/ "lostSave" \in happened'
            \/ mem.contractMap[LiqYT(writer["liqYT"].note.id)]
                 \in mem.forgeMap[writer["liqYT"].note.id].liqYTs
         /\ Handed(writer["liqYT"], writer'["liqYT"], mem, happened')
         /\ writer["liqYT"].phase = "info" => "lostSave" \in happened'
<1>1. writer["liqYT"] # Idle /\ LiqOk(writer["liqYT"], mem)
  BY DEF BookInv, Write, FailSave, CrashBetweenFiles, Busy
<1>2. writer["liqYT"].phase = "info" => "lostSave" \in happened'
  BY DEF Write, FailSave, CrashBetweenFiles
<1>3. writer["liqYT"].phase # "info" =>
        mem.contractMap[LiqYT(writer["liqYT"].note.id)] \in mem.forgeMap[writer["liqYT"].note.id].liqYTs
  BY <1>1 DEF LiqOk
<1> QED
  BY <1>2, <1>3 DEF Handed

\* No action forgets an incident that memory or the operator may suffer from.
LEMMA HappenedKept ==
  ASSUME BookInv, [BookNext]_bookVars
  PROVE  /\ "lostSave" \in happened => "lostSave" \in happened'
         /\ "cut" \in happened => "cut" \in happened'
         /\ "forced" \in happened => "forced" \in happened'
<1>1. CASE (\E op \in world.ops : Call(op)) \/ Quiet
  BY <1>1, CallForm, QuietForm
<1>2. CASE ~((\E op \in world.ops : Call(op)) \/ Quiet)
  BY <1>2, BookNextCases DEF FetchContract, DeployContract, ReturnContract, saveContract, saveNewForge,
     StartNote, Transact, InfoKnown, Info, FlattenForges, FlattenContracts, Write, FailSave,
     CrashBetweenFiles, Crash, Restart, bookVars
<1> QED
  BY <1>1, <1>2

LEMMA WrittenIsDone ==
  ASSUME BookInv, Write("main")
  PROVE  DoneStep(Step, job.op.mode, env', mem, writer["liqYT"], happened')
<1>1. /\ job # NoJob /\ IsJob(chain, job) /\ job.pc \in 1 .. Len(Recipe(job.op))
      /\ Step = StepOf(job) /\ writer["main"].phase = "write"
      /\ MainIs(job, writer["main"], mem, env)
      /\ StepIsOrdered(job.op, Recipe(job.op), job.pc)
      /\ Step.do = "contract" => Stored(env, env', Step.name, job.made) /\ job.made # 0
      /\ Step.do # "contract" => env' = env
  BY WriteMainForm
<1>2. Step = Recipe(job.op)[job.pc]
  BY DEF Step
<1>3. CASE Step.do = "contract"
  <2>1. Step.name \in DOMAIN mem.contractMap /\ mem.contractMap[Step.name] = job.made
    BY <1>1, <1>3 DEF MainIs, Notes
  <2> QED
    BY <1>1, <1>3, <2>1 DEF DoneStep, Stored
<1>4. CASE Step.do = "saveNewForge"
  BY <1>1, <1>4 DEF DoneStep, MainIs, Notes
<1>5. CASE Step.do \notin {"contract", "saveNewForge"}
  <2>1. /\ Step.do \in {"noteYield", "noteMarket", "noteLiqOT"}
        /\ writer["main"].note = NotedAs(Step, env) /\ Step.id \in DOMAIN mem.forgeMap
        /\ writer["main"].note.what \in mem.forgeMap[Step.id][Field(Step)]
    BY <1>1, <1>5 DEF MainIs, Notes
  <2>2. writer["main"].note.what = IF "name" \in DOMAIN Step THEN env[Step.name] ELSE Step.id
    BY <2>1 DEF NotedAs
  <2>3. NoteIsOrdered(job.op, Recipe(job.op), job.pc)
    BY <1>1, <1>2, <2>1 DEF StepIsOrdered, Notes
  <2>4. CASE Step.do \in {"noteYield", "noteMarket"}
    <3>1. "name" \notin DOMAIN Step
      BY <1>2, <2>3, <2>4 DEF NoteIsOrdered
    <3>2. Step.id \in mem.forgeMap[Step.id][Field(Step)]
      BY <2>1, <2>2, <3>1
    <3> QED
      BY <2>1, <2>4, <3>2 DEF DoneStep, Field
  <2>5. CASE Step.do = "noteLiqOT"
    <3>1. job.pc \in Nat /\ job.pc <= job.pc /\ ProgressOk(job, env, mem, writer["liqYT"], happened)
      BY <1>1 DEF BookInv
    <3>2. "name" \in DOMAIN Step /\ env[Step.name] = mem.contractMap[Step.name]
      BY <1>1, <1>2, <2>5, <3>1, NotedName
    <3>3. mem.contractMap[Step.name] \in mem.forgeMap[Step.id][Field(Step)]
      BY <2>1, <2>2, <3>2
    <3> QED
      BY <2>1, <2>5, <3>3 DEF DoneStep, Field
  <2> QED
    BY <2>1, <2>4, <2>5
<1> QED
  BY <1>3, <1>4, <1>5

LEMMA ProgressStep ==
  ASSUME BookInv, [BookNext]_bookVars
  PROVE  ProgressOk(job', env', mem', writer'["liqYT"], happened')
<1> DEFINE y == writer["liqYT"]
           z == writer'["liqYT"]
           done == DoneStep(Step, job.op.mode, env', mem', z, happened')
           agree == \A i \in 1 .. job.pc - 1 : LET s == Recipe(job.op)[i] IN
                      s.do = "contract" /\ job.op.mode # "DEPLOY_NOSAVE" =>
                        env'[s.name] = mem'.contractMap[s.name]
<1>0. Typed /\ ("lostSave" \in happened => "lostSave" \in happened')
  BY HappenedKept DEF BookInv
<1>1. ASSUME job' = NoJob
      PROVE  ProgressOk(job', env', mem', z, happened')
  BY <1>1 DEF ProgressOk
<1>2. ASSUME job' = job, Grows(mem, mem'), mem'.contractMap = mem.contractMap, env' = env,
             Handed(y, z, mem', happened')
      PROVE  ProgressOk(job', env', mem', z, happened')
  <2>1. CASE job = NoJob
    BY <1>1, <1>2, <2>1
  <2>2. CASE job # NoJob
    <3>1. agree
      BY <1>2, <2>2, DoneAgrees
    <3> QED
      BY <1>0, <1>2, <2>2, <3>1, ProgressKept
  <2> QED
    BY <2>1, <2>2
<1>3. ASSUME job # NoJob, job' # NoJob, Advanced(job, job'), Grows(mem, mem'),
             mem'.contractMap = mem.contractMap, env' = env, Handed(y, z, mem', happened'), done
      PROVE  ProgressOk(job', env', mem', z, happened')
  <2>1. agree
    BY <1>3, DoneAgrees
  <2>2. job'.op = job.op /\ job'.pc = job.pc + 1
    BY <1>3 DEF Advanced
  <2> QED
    BY <1>0, <1>3, <2>1, <2>2, ProgressKept
<1>4. CASE \E op \in world.ops : Call(op)
  <2>1. job'.pc = 1
    BY <1>4, CallForm
  <2> QED
    BY <2>1 DEF ProgressOk
<1>5. CASE Quiet
  <2>1. job # NoJob /\ UNCHANGED <<mem, env, writer>>
    BY <1>5, QuietForm
  <2>2. Grows(mem, mem') /\ mem'.contractMap = mem.contractMap
    BY <2>1, GrowsTrivially
  <2>3. Handed(y, z, mem', happened')
    BY <2>1, AlikeTrivially, AlikeIsHanded
  <2>4. CASE job' # NoJob
    <3>1. Advanced(job, job') /\ done
      BY <1>5, <2>1, <2>4, QuietForm
    <3> QED
      BY <1>3, <2>1, <2>2, <2>3, <2>4, <3>1
  <2> QED
    BY <1>1, <2>4
<1>6. CASE FetchContract
  <2>1. /\ AtStep(job.pc) /\ Step.do = "contract" /\ Step.name \in DOMAIN mem.contractMap
        /\ Stored(env, env', Step.name, mem.contractMap[Step.name])
        /\ Advanced(job, job') /\ job' # NoJob
    BY <1>6, FetchForm
  <2>2. mem' = mem /\ writer' = writer
    BY <1>6 DEF FetchContract
  <2>3. done
    BY <2>1, <2>2 DEF DoneStep, Stored
  <2>4. agree
    BY <2>1, <2>2, DoneAgrees, NotDoneYet DEF AtStep, Stored
  <2>5. Grows(mem, mem') /\ Handed(y, z, mem', happened') /\ DOMAIN env \subseteq DOMAIN env'
    BY <2>1, <2>2, GrowsTrivially, AlikeTrivially, AlikeIsHanded DEF Stored
  <2>6. job'.op = job.op /\ job'.pc = job.pc + 1 /\ job # NoJob
    BY <2>1 DEF Advanced, AtStep
  <2> QED
    BY <1>0, <2>1, <2>3, <2>4, <2>5, <2>6, ProgressKept
<1>7. CASE ReturnContract
  <2>1. /\ AtStep(job.pc) /\ Step.do = "contract" /\ job.op.mode = "DEPLOY_NOSAVE"
        /\ Stored(env, env', Step.name, job.made) /\ Advanced(job, job') /\ job' # NoJob
    BY <1>7, ReturnForm
  <2>2. mem' = mem /\ writer' = writer
    BY <1>7 DEF ReturnContract
  <2>3. done
    BY <2>1, <2>2 DEF DoneStep, Stored
  <2>4. agree
    BY <2>1
  <2>5. Grows(mem, mem') /\ Handed(y, z, mem', happened') /\ DOMAIN env \subseteq DOMAIN env'
    BY <2>1, <2>2, GrowsTrivially, AlikeTrivially, AlikeIsHanded DEF Stored
  <2>6. job'.op = job.op /\ job'.pc = job.pc + 1 /\ job # NoJob
    BY <2>1 DEF Advanced, AtStep
  <2> QED
    BY <1>0, <2>1, <2>3, <2>4, <2>5, <2>6, ProgressKept
<1>8. CASE DeployContract
  <2>1. AtStep(job.pc) /\ job'.op = job.op /\ job'.pc = job.pc /\ DOMAIN job' = DOMAIN job
    BY <1>8, ReadyFacts, Built DEF DeployContract, AtContract
  <2>2. mem' = mem /\ writer' = writer /\ env' = env
    BY <1>8 DEF DeployContract
  <2>3. job # NoJob /\ job' # NoJob
    BY <2>1, JobWorks DEF AtStep, IsJob
  <2>4. agree
    BY <2>2, <2>3, DoneAgrees
  <2>5. Grows(mem, mem') /\ Handed(y, z, mem', happened')
    BY <2>2, GrowsTrivially, AlikeTrivially, AlikeIsHanded
  <2> QED
    BY <1>0, <2>1, <2>2, <2>3, <2>4, <2>5, ProgressKept
<1>9. CASE saveContract
  <2>1. /\ AtStep(job.pc) /\ Step.do = "contract" /\ Saved(mem, mem', Step.name, job.made)
        /\ Grows(mem, mem') /\ Began(writer, writer', "main", "liqYT", "forges", NoNote)
    BY <1>9, SavedForm
  <2>2. job' = job /\ env' = env /\ job # NoJob
    BY <1>9, <2>1 DEF saveContract, AtStep
  <2>3. agree
    <3>1. SUFFICES ASSUME NEW i \in 1 .. job.pc - 1, Recipe(job.op)[i].do = "contract",
                          job.op.mode # "DEPLOY_NOSAVE"
                   PROVE  env'[Recipe(job.op)[i].name] = mem'.contractMap[Recipe(job.op)[i].name]
      OBVIOUS
    <3>2. /\ Recipe(job.op)[i].name \in DOMAIN mem.contractMap
          /\ env[Recipe(job.op)[i].name] = mem.contractMap[Recipe(job.op)[i].name]
      BY <2>2, <3>1, DoneAgrees
    <3>3. Recipe(job.op)[i].name # Step.name
      BY <2>1, <2>2, <3>1, NotDoneYet DEF AtStep
    <3> QED
      BY <2>1, <2>2, <3>2, <3>3 DEF Saved
  <2>4. Handed(y, z, mem', happened')
    BY <2>1, AlikeIsHanded DEF Began
  <2> QED
    BY <1>0, <2>1, <2>2, <2>3, <2>4, ProgressKept
<1>10. CASE saveNewForge
  BY <1>2, <1>10, ListedForm, AlikeIsHanded DEF saveNewForge, Began, Listed
<1>11. CASE StartNote
  <2>1. mem' = mem /\ env' = env
    BY <1>11 DEF StartNote
  <2>2. CASE WriterOf(Step) = "main"
    BY <1>2, <1>11, <2>1, <2>2, StartForm, GrowsTrivially, AlikeIsHanded DEF Began, Threads
  <2>3. CASE WriterOf(Step) # "main"
    <3>1. /\ AtStep(job.pc) /\ Step.do = "noteLiqYT" /\ writer["liqYT"] = Idle
          /\ Step.id \in DOMAIN mem.forgeMap /\ Advanced(job, job') /\ job' # NoJob
          /\ Began(writer, writer', "liqYT", "main", "info", NotedAs(Step, env))
      BY <1>11, <2>3, StartForm DEF Threads, WriterOf
    <3>2. NotedAs(Step, env).id = Step.id
      BY DEF NotedAs
    <3>3. done
      BY <2>1, <3>1, <3>2 DEF DoneStep, Began, InFlight
    <3>4. Handed(y, z, mem', happened')
      BY <3>1 DEF Handed, StillSaves
    <3> QED
      BY <1>3, <2>1, <3>1, <3>3, <3>4, GrowsTrivially DEF AtStep
  <2> QED
    BY <2>2, <2>3
<1>12. CASE Transact
  <2>1. done
    BY <1>12, TransactForm DEF DoneStep, Transactions
  <2> QED
    BY <1>3, <1>12, <2>1, TransactForm, AlikeTrivially, AlikeIsHanded, GrowsTrivially
       DEF Transact, AtStep
<1>13. CASE InfoKnown
  <2>1. done
    BY <1>13, KnownForm DEF DoneStep, InfoKnown, Overwritten, Fields
  <2>2. Handed(y, z, mem', happened')
    BY <1>13, KnownForm, AlikeTrivially, AlikeIsHanded DEF Closed
  <2> QED
    BY <1>3, <1>13, <2>1, <2>2, KnownForm DEF InfoKnown, Overwritten
<1>14. CASE Info("main") \/ Info("liqYT")
  <2>1. Grows(mem, mem') /\ mem'.contractMap = mem.contractMap /\ StillSaves(y, z)
    BY <1>14, InfoForm DEF WentOn, AddedTo, StillSaves
  <2>2. Handed(y, z, mem', happened')
    BY <2>1 DEF Handed
  <2> QED
    BY <1>2, <1>14, <2>1, <2>2 DEF Info
<1>15. ASSUME NEW w \in Threads, FlattenForges(w) \/ FlattenContracts(w)
       PROVE  ProgressOk(job', env', mem', z, happened')
  <2>1. UNCHANGED <<job, env, mem>>
    BY <1>15 DEF FlattenForges, FlattenContracts
  <2>2. Handed(y, z, mem', happened')
    <3>1. CASE w = "liqYT"
      BY <1>0, <1>15, <3>1, FlattenForgesForm, FlattenContractsForm DEF WentOn, Handed, StillSaves
    <3>2. CASE w = "main"
      BY <1>0, <1>15, <3>2, FlattenForgesForm, FlattenContractsForm DEF WentOn, Handed, StillSaves
    <3> QED
      BY <3>1, <3>2 DEF Threads
  <2> QED
    BY <1>2, <2>1, <2>2, GrowsTrivially
<1>16. CASE Write("main")
  <2>1. /\ job # NoJob /\ job' # NoJob /\ Advanced(job, job')
        /\ job.pc \in 1 .. Len(Recipe(job.op))
        /\ Step.do = "contract" => Stored(env, env', Step.name, job.made)
        /\ Step.do # "contract" => env' = env
        /\ Closed(writer, writer', "main", "liqYT")
    BY <1>16, WriteMainForm
  <2>2. mem' = mem /\ z = y
    BY <1>16, <2>1 DEF Write, Closed
  <2>3. done
    BY <1>16, <2>2, WrittenIsDone
  <2>4. Grows(mem, mem') /\ Handed(y, z, mem', happened') /\ DOMAIN env \subseteq DOMAIN env'
    BY <2>1, <2>2, GrowsTrivially, AlikeTrivially, AlikeIsHanded DEF Stored
  <2>5. agree
    BY <2>1, <2>2, DoneAgrees, NotDoneYet DEF Stored
  <2>6. job'.op = job.op /\ job'.pc = job.pc + 1
    BY <2>1 DEF Advanced
  <2> QED
    BY <1>0, <2>1, <2>3, <2>4, <2>5, <2>6, ProgressKept
<1>17. CASE Write("liqYT") \/ FailSave("liqYT")
  <2>1. UNCHANGED <<job, env, mem>>
    BY <1>17 DEF Write, FailSave, Resume
  <2>2. Handed(y, z, mem, happened')
    BY <1>17, LiqHanded
  <2> QED
    BY <1>2, <2>1, <2>2, GrowsTrivially
<1>18. CASE FailSave("main") \/ Crash \/ \E w \in Threads : CrashBetweenFiles(w)
  BY <1>1, <1>18 DEF Crash, CrashBetweenFiles, FailSave
<1>19. CASE Restart
  BY <1>0, <1>1, <1>19 DEF Restart, Typed, Working
<1>20. CASE UNCHANGED bookVars
  <2>1. UNCHANGED <<job, env, mem, writer>>
    BY <1>20 DEF bookVars
  <2> QED
    BY <1>2, <2>1, GrowsTrivially, AlikeTrivially, AlikeIsHanded
<1> QED
  BY <1>4, <1>5, <1>6, <1>7, <1>8, <1>9, <1>10, <1>11, <1>12, <1>13, <1>14, <1>15, <1>16, <1>17,
     <1>18, <1>19, <1>20, BookNextCases DEF Threads

-----------------------------------------------------------------------------
(***************************************************************************)
(* Without FORCE_DEPLOY and DEPLOY_NOSAVE.                                 *)
(***************************************************************************)
LEMMA SavedSound ==
  ASSUME BookInv, saveContract, "forced" \notin happened
  PROVE  Sound(chain, mem')
<1>1. /\ Step.name \notin DOMAIN mem.contractMap
      /\ Saved(mem, mem', Step.name, job.made) /\ job # NoJob /\ job.made # 0
  <2>1. job # NoJob => job.op.mode \notin {"FORCE_DEPLOY", "DEPLOY_NOSAVE"}
    BY DEF BookInv, UnforcedOk
  <2> QED
    BY <2>1, SavedForm DEF AtStep
<1>2. /\ Linked(chain, mem.contractMap) /\ ListedAsBuilt(chain, mem)
      /\ \A n \in DOMAIN env : n \in DOMAIN mem.contractMap /\ env[n] = mem.contractMap[n]
      /\ Named(chain, env)
  BY DEF BookInv, UnforcedOk, Sound, Typed, EnvOk
<1>3. /\ Step.uses \subseteq DOMAIN env /\ chain.deployed[job.made].name = Step.name
      /\ chain.deployed[job.made].uses = {env[u] : u \in Step.uses}
  BY <1>1, MadeFacts
<1>4. Linked(chain, mem'.contractMap)
  <2>1. ASSUME NEW u \in chain.deployed[job.made].uses
        PROVE  /\ chain.deployed[u].name \in DOMAIN mem.contractMap
               /\ mem.contractMap[chain.deployed[u].name] = u
    <3>1. PICK x \in Step.uses : u = env[x]
      BY <1>3, <2>1
    <3> QED
      BY <1>2, <1>3, <3>1 DEF Named
  <2>2. ASSUME NEW n \in DOMAIN mem'.contractMap
        PROVE  /\ chain.deployed[mem'.contractMap[n]].name = n
               /\ \A u \in chain.deployed[mem'.contractMap[n]].uses :
                    /\ chain.deployed[u].name \in DOMAIN mem.contractMap
                    /\ mem.contractMap[chain.deployed[u].name] = u
    <3>1. CASE n = Step.name
      BY <1>1, <1>3, <2>1, <3>1 DEF Saved
    <3>2. CASE n # Step.name
      <4>1. n \in DOMAIN mem.contractMap /\ mem'.contractMap[n] = mem.contractMap[n]
        BY <1>1, <2>2, <3>2 DEF Saved
      <4> QED
        BY <1>2, <4>1 DEF Linked
    <3> QED
      BY <3>1, <3>2
  <2>3. \A n \in DOMAIN mem.contractMap :
          n \in DOMAIN mem'.contractMap /\ mem'.contractMap[n] = mem.contractMap[n]
    BY <1>1 DEF Saved
  <2> QED
    BY <2>2, <2>3 DEF Linked
<1>5. ListedAsBuilt(chain, mem')
  BY <1>1, <1>2 DEF ListedAsBuilt, Saved
<1> QED
  BY <1>4, <1>5 DEF Sound

LEMMA ListedSound ==
  ASSUME BookInv, saveNewForge, "forced" \notin happened
  PROVE  Sound(chain, mem')
<1>1. /\ AtStep(job.pc) /\ Step.do = "saveNewForge" /\ Listed(mem, mem', Step.id)
      /\ mem'.forgeMap[Step.id].forge = env[Step.forge]
      /\ mem'.forgeMap[Step.id].rm = env[Step.rm]
  BY ListedForm
<1>2. /\ Linked(chain, mem.contractMap) /\ ListedAsBuilt(chain, mem)
      /\ \A n \in DOMAIN env : n \in DOMAIN mem.contractMap /\ env[n] = mem.contractMap[n]
      /\ Named(chain, env) /\ BuiltAsOrdered(chain)
  BY DEF BookInv, UnforcedOk, Sound, Typed, EnvOk, ChainOk
<1>3. ListingIsOrdered(job.op, Recipe(job.op), job.pc)
  BY <1>1 DEF AtStep, StepIsOrdered
<1>4. PICK k \in Kits :
        /\ Step.id = k.id /\ Step.forge = k.forge /\ Step.rm = k.rm
        /\ Deployed(Recipe(job.op), job.pc, k.rm) /\ Deployed(Recipe(job.op), job.pc, k.forge)
  BY <1>1, <1>3 DEF ListingIsOrdered, AtStep
<1>5. k.forge \in DOMAIN env /\ k.rm \in DOMAIN env
  <2>1. /\ IsJob(chain, job) /\ ProgressOk(job, env, mem, writer["liqYT"], happened)
        /\ job.pc \in Nat /\ job.pc <= job.pc
    BY <1>1 DEF BookInv, AtStep
  <2> QED
    BY <1>4, <2>1, DeployedDone
<1>6. env[k.forge] \in DOMAIN chain.deployed /\ chain.deployed[env[k.forge]].name = k.forge
  BY <1>2, <1>5 DEF Named
<1>7. PICK u \in chain.deployed[env[k.forge]].uses : chain.deployed[u].name = k.rm
  BY <1>2, <1>6 DEF BuiltAsOrdered
<1>8. env[k.rm] = u
  BY <1>2, <1>5, <1>7 DEF Linked
<1>9. ListedAsBuilt(chain, mem')
  BY <1>1, <1>2, <1>4, <1>5, <1>7, <1>8, KitFacts DEF ListedAsBuilt, Listed
<1>10. Linked(chain, mem'.contractMap)
  BY <1>1, <1>2 DEF Listed
<1> QED
  BY <1>9, <1>10 DEF Sound

LEMMA AddedSound ==
  ASSUME NEW c, NEW m, NEW n, Sound(c, m), NEW id, NEW g \in Fields, NEW a, AddedTo(m, n, id, g, a)
  PROVE  Sound(c, n)
<1>1. \A b \in DOMAIN m.forgeMap :
        n.forgeMap[b].forge = m.forgeMap[b].forge /\ n.forgeMap[b].rm = m.forgeMap[b].rm
  BY DEF AddedTo, Fields
<1> QED
  BY <1>1 DEF Sound, Linked, ListedAsBuilt, AddedTo

LEMMA OverwrittenSound ==
  ASSUME NEW c, NEW m, NEW n, Sound(c, m), Overwritten(m, n)
  PROVE  Sound(c, n)
<1>1. \A b \in DOMAIN m.forgeMap :
        n.forgeMap[b].forge = m.forgeMap[b].forge /\ n.forgeMap[b].rm = m.forgeMap[b].rm
  BY DEF Overwritten
<1> QED
  BY <1>1 DEF Sound, Linked, ListedAsBuilt, Overwritten

LEMMA UnforcedStep ==
  ASSUME BookInv, [BookNext]_bookVars
  PROVE  UnforcedOk(happened', job', chain', mem', file', env')
<1> DEFINE From(m, e) == \A n \in DOMAIN e : n \in DOMAIN m.contractMap /\ e[n] = m.contractMap[n]
           OpOk(j) == j # NoJob => j.op.mode \notin {"FORCE_DEPLOY", "DEPLOY_NOSAVE"}
<1>1. SUFFICES ASSUME "forced" \notin happened'
               PROVE  /\ OpOk(job') /\ Sound(chain, mem') /\ Sound(chain, file') /\ From(mem', env')
  <2>1. Extends(chain, chain') /\ ChainOk(chain)
    BY ChainStep DEF BookInv, Typed
  <2>2. UnforcedOk(happened', job', chain, mem', file', env')
    BY <1>1 DEF UnforcedOk
  <2> QED
    BY <2>1, <2>2, BookStep, UnforcedKept
<1>2. /\ "forced" \notin happened
      /\ OpOk(job) /\ Sound(chain, mem) /\ Sound(chain, file) /\ From(mem, env)
  BY <1>1, HappenedKept DEF BookInv, UnforcedOk
<1>3. Typed
  BY DEF BookInv
<1> HIDE DEF From, OpOk
<1>4. OpOk(NoJob)
  BY DEF OpOk
<1>5. \A l : l.op = job.op /\ job # NoJob => OpOk(l)
  BY <1>2 DEF OpOk
<1>6. CASE \E op \in world.ops : Call(op)
  <2>1. OpOk(job')
    BY <1>1, <1>6, CallForm DEF OpOk
  <2> QED
    BY <1>2, <1>6, <2>1 DEF Call
<1>7. CASE Quiet
  <2>1. OpOk(job') /\ UNCHANGED <<mem, file, env>>
    BY <1>4, <1>5, <1>7, QuietForm DEF Advanced
  <2> QED
    BY <1>2, <2>1
<1>8. CASE FetchContract
  <2>1. /\ Advanced(job, job') /\ AtStep(job.pc) /\ Step.name \in DOMAIN mem.contractMap
        /\ Stored(env, env', Step.name, mem.contractMap[Step.name])
    BY <1>8, FetchForm
  <2>2. OpOk(job')
    BY <1>5, <2>1 DEF Advanced, AtStep
  <2>3. From(mem, env')
    BY <1>2, <2>1 DEF From, Stored
  <2> QED
    BY <1>2, <1>8, <2>2, <2>3 DEF FetchContract
<1>9. CASE ReturnContract
  BY <1>2, <1>9, ReturnForm DEF AtStep, OpOk
<1>10. CASE DeployContract \/ Transact \/ InfoKnown
  <2>1. job # NoJob /\ job'.op = job.op
    BY <1>10, Built, TransactForm, KnownForm, ReadyFacts DEF DeployContract, AtContract, Advanced,
       AtStep
  <2>2. OpOk(job')
    BY <1>5, <2>1
  <2>3. CASE DeployContract \/ Transact
    BY <1>2, <2>2, <2>3 DEF DeployContract, Transact
  <2>4. CASE InfoKnown
    <3>1. Overwritten(mem, mem') /\ UNCHANGED <<file, env>>
      BY <2>4, KnownForm DEF InfoKnown
    <3>2. Sound(chain, mem')
      BY <1>2, <3>1, OverwrittenSound
    <3>3. From(mem', env)
      BY <1>2, <3>1 DEF From, Overwritten
    <3> QED
      BY <1>2, <2>2, <3>1, <3>2, <3>3
  <2> QED
    BY <1>10, <2>3, <2>4
<1>11. CASE saveContract
  <2>1. Sound(chain, mem')
    BY <1>2, <1>11, SavedSound
  <2>2. UNCHANGED <<job, file, env>>
    BY <1>11 DEF saveContract
  <2>3. From(mem', env)
    <3>1. job.op.mode = "DEPLOY" /\ Saved(mem, mem', Step.name, job.made)
          /\ Step.name \notin DOMAIN mem.contractMap
      BY <1>2, <1>11, SavedForm DEF OpOk, AtStep
    <3> QED
      BY <1>2, <3>1 DEF From, Saved
  <2> QED
    BY <1>2, <2>1, <2>2, <2>3
<1>12. CASE saveNewForge
  <2>1. Sound(chain, mem')
    BY <1>2, <1>12, ListedSound
  <2>2. UNCHANGED <<job, file, env>> /\ mem'.contractMap = mem.contractMap
    BY <1>12, ListedForm DEF saveNewForge, Listed
  <2> QED
    BY <1>2, <2>1, <2>2 DEF From
<1>13. CASE StartNote
  <2>1. UNCHANGED <<mem, file, env>>
    BY <1>13 DEF StartNote
  <2>2. job' = job \/ (job # NoJob /\ job'.op = job.op)
    BY <1>13, StartForm DEF Threads, WriterOf, Advanced, AtStep
  <2> QED
    BY <1>2, <1>5, <2>1, <2>2
<1>14. CASE Info("main") \/ Info("liqYT")
  <2>1. Sound(chain, mem') /\ mem'.contractMap = mem.contractMap
    BY <1>2, <1>14, InfoForm, NoteForm, AddedSound DEF AddedTo
  <2> QED
    BY <1>2, <1>14, <2>1 DEF Info, From
<1>15. ASSUME NEW w \in Threads, FlattenForges(w) \/ FlattenContracts(w) \/ FailSave(w)
       PROVE  OpOk(job') /\ Sound(chain, mem') /\ Sound(chain, file') /\ From(mem', env')
  BY <1>2, <1>4, <1>15 DEF FlattenForges, FlattenContracts, FailSave
<1>16. CASE Write("main")
  <2>1. /\ job # NoJob /\ Advanced(job, job') /\ MainIs(job, writer["main"], mem, env)
        /\ Step = StepOf(job)
        /\ Step.do = "contract" => Stored(env, env', Step.name, job.made)
        /\ Step.do # "contract" => env' = env
    BY <1>16, WriteMainForm
  <2>2. OpOk(job')
    BY <1>5, <2>1 DEF Advanced
  <2>3. From(mem, env')
    <3>1. CASE Step.do = "contract"
      <4>1. Step.name \in DOMAIN mem.contractMap /\ mem.contractMap[Step.name] = job.made
        BY <2>1, <3>1 DEF MainIs, Notes
      <4> QED
        BY <1>2, <2>1, <3>1, <4>1 DEF From, Stored
    <3>2. CASE Step.do # "contract"
      BY <1>2, <2>1, <3>2
    <3> QED
      BY <3>1, <3>2
  <2> QED
    BY <1>2, <1>16, <2>2, <2>3 DEF Write
<1>17. CASE Write("liqYT")
  BY <1>2, <1>17 DEF Write, Resume
<1>18. CASE Crash \/ \E w \in Threads : CrashBetweenFiles(w)
  <2>1. Sound(chain, mem') /\ Sound(chain, file') /\ job' = NoJob /\ env' = NoMap
    BY <1>2, <1>18 DEF Crash, CrashBetweenFiles
  <2> QED
    BY <1>4, <2>1 DEF From, NoMap
<1>19. CASE Restart
  <2>1. mem' = file /\ file' = file /\ job' = job /\ env' = FetchedCore(file)
    BY <1>19 DEF Restart
  <2>2. From(file, FetchedCore(file))
    BY DEF From, FetchedCore
  <2> QED
    BY <1>2, <2>1, <2>2
<1>20. CASE UNCHANGED bookVars
  BY <1>2, <1>20 DEF bookVars
<1> QED
  BY <1>6, <1>7, <1>8, <1>9, <1>10, <1>11, <1>12, <1>13, <1>14, <1>15, <1>16, <1>17, <1>18, <1>19,
     <1>20, BookNextCases DEF Threads

-----------------------------------------------------------------------------
(***************************************************************************)
(* With them.                                                              *)
(***************************************************************************)
LEMMA MidWayFacts ==
  ASSUME BookInv, job # NoJob, job.pc \in 1 .. Len(Recipe(job.op)), NEW k \in Kits
  PROVE  /\ Step.do = "contract" /\ Step.name \in {k.rm, k.ycd} =>
              /\ MidWay(job, k)
              /\ Advanced(job, job') /\ job' # NoJob => MidWay(job', k)
         /\ Step.do = "contract" /\ Step.name = k.forge =>
              /\ MidWay(job, k) /\ {k.rm, k.ycd} \subseteq Step.uses
              /\ \A t \in {k.rm, k.ycd} :
                   /\ t \in DOMAIN env
                   /\ job.op.mode # "DEPLOY_NOSAVE" =>
                        t \in DOMAIN mem.contractMap /\ env[t] = mem.contractMap[t]
         /\ ~(Step.do = "contract" /\ Step.name = k.forge) /\ Advanced(job, job') /\ job' # NoJob =>
              (MidWay(job, k) => MidWay(job', k))
<1> DEFINE r == Recipe(job.op)
<1>1. /\ IsJob(chain, job) /\ ProgressOk(job, env, mem, writer["liqYT"], happened)
      /\ Len(r) \in Nat /\ Step = r[job.pc] /\ job.pc \in Nat /\ job.pc <= job.pc
  BY RecipeFacts DEF BookInv, Typed, JobOk, IsJob, Step
<1>2. StepIsOrdered(job.op, r, job.pc)
  BY <1>1, StepFacts DEF IsJob
<1>3. Step.do = "contract" => ContractIsOrdered(job.op, r, job.pc)
  BY <1>1, <1>2 DEF StepIsOrdered
<1>4. ASSUME Step.do = "contract", Step.name \in {k.rm, k.ycd}
      PROVE  MidWay(job, k) /\ (Advanced(job, job') /\ job' # NoJob => MidWay(job', k))
  <2>1. PICK i \in job.pc + 1 .. Len(r) : r[i].do = "contract" /\ r[i].name = k.forge
    BY <1>1, <1>3, <1>4 DEF ContractIsOrdered
  <2>2. /\ Builds(job.op, job.pc, {k.rm, k.ycd}) /\ Builds(job.op, i, {k.forge})
        /\ i \in 1 .. Len(r) /\ i >= job.pc /\ i >= job.pc + 1 /\ job.pc \in 1 .. Len(r)
        /\ job.pc <= job.pc + 1
    BY <1>1, <1>4, <2>1 DEF Builds
  <2>3. MidWay(job, k)
    BY <1>1, <2>2 DEF MidWay
  <2>4. Advanced(job, job') /\ job' # NoJob => MidWay(job', k)
    BY <1>1, <2>2 DEF MidWay, Advanced
  <2> QED
    BY <2>3, <2>4
<1>5. ASSUME Step.do = "contract", Step.name = k.forge
      PROVE  /\ MidWay(job, k) /\ {k.rm, k.ycd} \subseteq Step.uses
             /\ \A t \in {k.rm, k.ycd} :
                  /\ t \in DOMAIN env
                  /\ job.op.mode # "DEPLOY_NOSAVE" =>
                       t \in DOMAIN mem.contractMap /\ env[t] = mem.contractMap[t]
  <2>1. /\ {k.rm, k.ycd} \subseteq Step.uses
        /\ Deployed(r, job.pc, k.rm) /\ Deployed(r, job.pc, k.ycd)
    BY <1>1, <1>3, <1>5 DEF ContractIsOrdered
  <2>2. PICK i \in 1 .. job.pc - 1 : r[i].do = "contract" /\ r[i].name = k.rm
    BY <2>1 DEF Deployed
  <2>3. /\ Builds(job.op, i, {k.rm, k.ycd}) /\ i \in 1 .. Len(r) /\ i <= job.pc
        /\ Builds(job.op, job.pc, {k.forge}) /\ job.pc >= job.pc
    BY <1>1, <1>5, <2>2 DEF Builds
  <2>4. MidWay(job, k)
    BY <1>1, <2>3 DEF MidWay
  <2>5. \A t \in {k.rm, k.ycd} :
          /\ t \in DOMAIN env
          /\ job.op.mode # "DEPLOY_NOSAVE" =>
               t \in DOMAIN mem.contractMap /\ env[t] = mem.contractMap[t]
    <3>1. ASSUME NEW t, Deployed(r, job.pc, t)
          PROVE  /\ t \in DOMAIN env
                 /\ job.op.mode # "DEPLOY_NOSAVE" =>
                      t \in DOMAIN mem.contractMap /\ env[t] = mem.contractMap[t]
      <4>1. /\ IsJob(chain, job) /\ ProgressOk(job, env, mem, writer["liqYT"], happened)
            /\ job.pc \in Nat /\ job.pc <= job.pc /\ Deployed(Recipe(job.op), job.pc, t)
        BY <1>1, <3>1
      <4> HIDE DEF r
      <4> QED
        BY ONLY <4>1, DeployedDone
    <3> QED
      BY <2>1, <3>1
  <2> QED
    BY <2>1, <2>4, <2>5
<1>6. ASSUME ~(Step.do = "contract" /\ Step.name = k.forge), Advanced(job, job'), job' # NoJob,
             MidWay(job, k)
      PROVE  MidWay(job', k)
  <2>1. PICK i \in 1 .. Len(r) : i <= job.pc /\ Builds(job.op, i, {k.rm, k.ycd})
    BY <1>6 DEF MidWay
  <2>2. PICK l \in 1 .. Len(r) : l >= job.pc /\ Builds(job.op, l, {k.forge})
    BY <1>6 DEF MidWay
  <2>3. l # job.pc
    BY <1>1, <1>6, <2>2 DEF Builds
  <2>4. i <= job.pc + 1 /\ l >= job.pc + 1
    BY <1>1, <2>1, <2>2, <2>3
  <2>5. job'.op = job.op /\ job'.pc = job.pc + 1
    BY <1>6 DEF Advanced
  <2> QED
    BY <1>6, <2>1, <2>2, <2>4, <2>5 DEF MidWay
<1> QED
  BY <1>4, <1>5, <1>6

LEMMA StoredSettled ==
  ASSUME NEW c, NEW e, NEW g, NEW n, NEW a, Stored(e, g, n, a), NEW k,
         n \notin {k.rm, k.ycd, k.forge}, Settled(c, e, k)
  PROVE  Settled(c, g, k)
BY DEF Stored, Settled

LEMMA ForgeSettled ==
  ASSUME NEW c, NEW e, NEW g, NEW a, NEW k \in Kits, Stored(e, g, k.forge, a),
         \A t \in {k.rm, k.ycd} : t \in DOMAIN e => e[t] \in c.deployed[a].uses
  PROVE  Settled(c, g, k)
<1>1. k.forge # k.rm /\ k.forge # k.ycd
  BY KitFacts
<1> QED
  BY <1>1 DEF Stored, Settled

LEMMA SameMidWay ==
  ASSUME NEW j, NEW l, j # NoJob, l # NoJob, l.op = j.op, l.pc = j.pc, NEW k
  PROVE  (MidWay(l, k) <=> MidWay(j, k)) /\ (Replacing(l, k) <=> Replacing(j, k))
BY DEF MidWay, Replacing

LEMMA SettledStep ==
  ASSUME BookInv, [BookNext]_bookVars
  PROVE  SettledOk(happened', job', chain', env', mem', file')
<1> DEFINE Maps(k, m) == Settled(chain, m.contractMap, k)
           Goal(k) == /\ MidWay(job', k) \/ Settled(chain, env', k)
                      /\ Replacing(job', k) \/ (Maps(k, mem') /\ Maps(k, file'))
<1>1. SUFFICES ASSUME "cut" \notin happened', NEW k \in Kits
               PROVE  Goal(k)
  <2>1. Extends(chain, chain')
    BY ChainStep
  <2>2. Named(chain, env')
    BY EnvStep DEF EnvOk
  <2>3. SettledOk(happened', job', chain, env', mem', file')
    BY <1>1 DEF SettledOk
  <2> QED
    BY <2>1, <2>2, <2>3, BookStep, AllSettledKept
<1>2. /\ "cut" \notin happened /\ Typed
      /\ MidWay(job, k) \/ Settled(chain, env, k)
      /\ Replacing(job, k) \/ (Maps(k, mem) /\ Maps(k, file))
  BY <1>1, HappenedKept DEF BookInv, SettledOk
<1>3. job = NoJob => Settled(chain, env, k) /\ Maps(k, mem) /\ Maps(k, file)
  BY <1>2 DEF MidWay, Replacing
<1> HIDE DEF Maps
<1>4. ASSUME UNCHANGED <<file, env>>, mem'.contractMap = mem.contractMap, job # NoJob,
             job' # NoJob, Advanced(job, job'), job.pc \in 1 .. Len(Recipe(job.op)),
             Step.do # "contract"
      PROVE  Goal(k)
  <2>1. MidWay(job, k) => MidWay(job', k)
    BY <1>4, MidWayFacts DEF BookInv
  <2>2. Replacing(job, k) => Replacing(job', k)
    BY <1>4, <2>1 DEF Replacing, Advanced
  <2> QED
    BY <1>2, <1>4, <2>1, <2>2 DEF Maps
<1>5. ASSUME UNCHANGED <<env, job>>, mem'.contractMap = mem.contractMap,
             file' = file \/ file' = mem
      PROVE  Goal(k)
  BY <1>2, <1>5 DEF Maps
<1>6. CASE \E op \in world.ops : Call(op)
  <2>1. job = NoJob
    BY <1>6, CallForm
  <2> QED
    BY <1>3, <1>6, <2>1 DEF Call
<1>7. CASE Quiet
  <2>1. UNCHANGED <<mem, file, env>> /\ job # NoJob /\ IsJob(chain, job)
    BY <1>7, QuietForm
  <2>2. CASE AtEnd /\ job' = NoJob
    <3>1. ~MidWay(job, k)
      BY <2>1, <2>2, RecipeFacts DEF MidWay, AtEnd, IsJob
    <3> QED
      BY <1>2, <2>1, <3>1 DEF Replacing
  <2>3. CASE AtStep(job.pc) /\ Step.do # "contract" /\ Advanced(job, job') /\ job' # NoJob
    BY <1>4, <2>1, <2>3 DEF AtStep
  <2> QED
    BY <1>1, <1>7, <2>2, <2>3, QuietForm
<1>8. CASE FetchContract
  <2>1. /\ AtStep(job.pc) /\ Step.do = "contract" /\ job.op.mode = "FETCH"
        /\ Stored(env, env', Step.name, mem.contractMap[Step.name])
        /\ Step.name \in DOMAIN mem.contractMap /\ Advanced(job, job') /\ job' # NoJob
    BY <1>8, FetchForm
  <2>2. /\ job # NoJob /\ job.pc \in 1 .. Len(Recipe(job.op))
    BY <2>1 DEF AtStep
  <2>3. Maps(k, mem) /\ Maps(k, file) /\ mem' = mem /\ file' = file
    BY <1>2, <1>8, <2>1 DEF Replacing, FetchContract
  <2>4. MidWay(job', k) \/ Settled(chain, env', k)
    <3>1. CASE Step.name \in {k.rm, k.ycd}
      BY <2>1, <2>2, <3>1, MidWayFacts
    <3>2. CASE Step.name = k.forge
      <4>1. \A t \in {k.rm, k.ycd} : t \in DOMAIN mem.contractMap /\ env[t] = mem.contractMap[t]
        BY <2>1, <2>2, <3>2, MidWayFacts
      <4>2. \A t \in {k.rm, k.ycd} : env[t] \in chain.deployed[mem.contractMap[k.forge]].uses
        BY <2>1, <2>3, <3>2, <4>1 DEF Maps, Settled
      <4> QED
        BY <2>1, <3>2, <4>2, ForgeSettled
    <3>3. CASE Step.name \notin {k.rm, k.ycd, k.forge}
      <4>1. MidWay(job, k) => MidWay(job', k)
        BY <2>1, <2>2, <3>3, MidWayFacts
      <4> QED
        BY <1>2, <2>1, <3>3, <4>1, StoredSettled
    <3> QED
      BY <3>1, <3>2, <3>3
  <2> QED
    BY <2>3, <2>4
<1>9. CASE ReturnContract
  <2>1. /\ AtStep(job.pc) /\ Step.do = "contract" /\ job.op.mode = "DEPLOY_NOSAVE"
        /\ Stored(env, env', Step.name, job.made)
        /\ job.made # 0 /\ Advanced(job, job') /\ job' # NoJob
    BY <1>9, ReturnForm
  <2>2. /\ job # NoJob /\ job.pc \in 1 .. Len(Recipe(job.op))
    BY <2>1 DEF AtStep
  <2>3. Maps(k, mem) /\ Maps(k, file) /\ mem' = mem /\ file' = file
    BY <1>2, <1>9, <2>1 DEF Replacing, ReturnContract
  <2>4. MidWay(job', k) \/ Settled(chain, env', k)
    <3>1. CASE Step.name \in {k.rm, k.ycd}
      BY <2>1, <2>2, <3>1, MidWayFacts
    <3>2. CASE Step.name = k.forge
      <4>1. {k.rm, k.ycd} \subseteq Step.uses
        BY <2>1, <2>2, <3>2, MidWayFacts
      <4>2. \A t \in {k.rm, k.ycd} : env[t] \in chain.deployed[job.made].uses
        BY <2>1, <2>2, <4>1, MadeFacts
      <4> QED
        BY <2>1, <3>2, <4>2, ForgeSettled
    <3>3. CASE Step.name \notin {k.rm, k.ycd, k.forge}
      <4>1. MidWay(job, k) => MidWay(job', k)
        BY <2>1, <2>2, <3>3, MidWayFacts
      <4> QED
        BY <1>2, <2>1, <3>3, <4>1, StoredSettled
    <3> QED
      BY <3>1, <3>2, <3>3
  <2> QED
    BY <2>3, <2>4
<1>10. CASE DeployContract
  <2>1. AtStep(job.pc) /\ job'.op = job.op /\ job'.pc = job.pc /\ DOMAIN job' = DOMAIN job
    BY <1>10, ReadyFacts, Built DEF DeployContract, AtContract
  <2>2. UNCHANGED <<mem, file, env>>
    BY <1>10 DEF DeployContract
  <2>3. job # NoJob /\ job' # NoJob
    BY <2>1, JobWorks DEF AtStep, IsJob
  <2> QED
    BY <1>2, <2>1, <2>2, <2>3, SameMidWay
<1>11. CASE saveContract
  <2>1. /\ AtStep(job.pc) /\ Step.do = "contract" /\ Saved(mem, mem', Step.name, job.made)
        /\ job.op.mode \in {"DEPLOY", "FORCE_DEPLOY"}
    BY <1>11, SavedForm
  <2>2. UNCHANGED <<file, env, job>> /\ job # NoJob /\ job.pc \in 1 .. Len(Recipe(job.op))
    BY <1>11, <2>1 DEF saveContract, AtStep
  <2>3. CASE MidWay(job, k)
    BY <2>1, <2>2, <2>3 DEF Replacing
  <2>4. CASE ~MidWay(job, k)
    <3>1. Step.name \notin {k.rm, k.ycd, k.forge}
      BY <2>1, <2>2, <2>4, MidWayFacts
    <3>2. Stored(mem.contractMap, mem'.contractMap, Step.name, job.made)
      BY <2>1 DEF Saved, Stored
    <3>3. Maps(k, mem) /\ Maps(k, file) /\ Settled(chain, env, k)
      BY <1>2, <2>4 DEF Replacing
    <3>4. Maps(k, mem')
      BY <3>1, <3>2, <3>3, StoredSettled DEF Maps
    <3> QED
      BY <2>2, <3>3, <3>4
  <2> QED
    BY <2>3, <2>4
<1>12. CASE saveNewForge
  BY <1>5, <1>12, ListedForm DEF saveNewForge, Listed
<1>13. CASE StartNote
  <2>1. UNCHANGED <<mem, file, env>>
    BY <1>13 DEF StartNote
  <2>2. CASE WriterOf(Step) = "main"
    BY <1>5, <1>13, <2>1, <2>2, StartForm DEF Threads
  <2>3. CASE WriterOf(Step) # "main"
    BY <1>4, <1>13, <2>1, <2>3, StartForm DEF Threads, WriterOf, AtStep
  <2> QED
    BY <2>2, <2>3
<1>14. CASE Transact
  BY <1>4, <1>14, TransactForm DEF Transact, AtStep, Transactions
<1>15. CASE InfoKnown
  BY <1>4, <1>15, KnownForm DEF InfoKnown, Overwritten
<1>16. CASE Info("main") \/ Info("liqYT")
  BY <1>5, <1>16, InfoForm DEF Info, AddedTo
<1>17. ASSUME NEW w \in Threads, FlattenForges(w) \/ FlattenContracts(w)
       PROVE  Goal(k)
  BY <1>5, <1>17 DEF FlattenForges, FlattenContracts
<1>18. CASE Write("main")
  <2>1. /\ job # NoJob /\ job' # NoJob /\ Advanced(job, job') /\ IsJob(chain, job)
        /\ job.pc \in 1 .. Len(Recipe(job.op))
        /\ MainIs(job, writer["main"], mem, env) /\ Step = StepOf(job)
        /\ Step.do = "contract" => Stored(env, env', Step.name, job.made) /\ job.made # 0
        /\ Step.do # "contract" => env' = env
    BY <1>18, WriteMainForm
  <2>2. mem' = mem /\ file' = mem
    BY <1>18 DEF Write
  <2>3. CASE Step.do # "contract"
    <3>1. MidWay(job, k) => MidWay(job', k)
      BY <2>1, <2>3, MidWayFacts
    <3>2. Replacing(job, k) => Replacing(job', k)
      BY <2>1, <3>1 DEF Replacing, Advanced
    <3> QED
      BY <1>2, <2>1, <2>2, <2>3, <3>1, <3>2
  <2>4. CASE Step.do = "contract"
    <3>1. /\ Step.name \in DOMAIN mem.contractMap /\ mem.contractMap[Step.name] = job.made
          /\ job.op.mode # "DEPLOY_NOSAVE" /\ job.op.mode # "FETCH" /\ job.made # 0
          /\ ContractIsOrdered(job.op, Recipe(job.op), job.pc)
      BY <2>1, <2>4, MadeFacts DEF MainIs, Notes
    <3>2. job'.op = job.op /\ job.op.mode \in {"DEPLOY", "FORCE_DEPLOY"}
      BY <2>1, <3>1 DEF Advanced, ContractIsOrdered, Modes
    <3>3. CASE Step.name \in {k.rm, k.ycd}
      <4>1. MidWay(job', k)
        BY <2>1, <2>4, <3>3, MidWayFacts
      <4> QED
        BY <3>2, <4>1 DEF Replacing
    <3>4. CASE Step.name = k.forge
      <4>1. /\ {k.rm, k.ycd} \subseteq Step.uses
            /\ \A t \in {k.rm, k.ycd} : t \in DOMAIN mem.contractMap /\ env[t] = mem.contractMap[t]
        BY <2>1, <2>4, <3>1, <3>4, MidWayFacts
      <4>2. \A t \in {k.rm, k.ycd} : env[t] \in chain.deployed[job.made].uses
        BY <2>1, <3>1, <4>1, MadeFacts
      <4>3. Settled(chain, env', k)
        BY <2>1, <2>4, <3>4, <4>2, ForgeSettled
      <4>4. Maps(k, mem)
        BY <3>1, <3>4, <4>1, <4>2 DEF Maps, Settled
      <4> QED
        BY <2>2, <4>3, <4>4
    <3>5. CASE Step.name \notin {k.rm, k.ycd, k.forge}
      <4>1. MidWay(job, k) => MidWay(job', k)
        BY <2>1, <3>5, MidWayFacts
      <4>2. Replacing(job, k) => Replacing(job', k)
        BY <3>2, <4>1 DEF Replacing
      <4>3. Settled(chain, env, k) => Settled(chain, env', k)
        BY <2>1, <2>4, <3>5, StoredSettled
      <4> QED
        BY <1>2, <2>2, <4>1, <4>2, <4>3
    <3> QED
      BY <3>3, <3>4, <3>5
  <2> QED
    BY <2>3, <2>4
<1>19. CASE Write("liqYT") \/ FailSave("liqYT")
  BY <1>5, <1>19 DEF Write, FailSave, Resume
<1>20. CASE FailSave("main") \/ \E w \in Threads : CrashBetweenFiles(w)
  BY <1>1, <1>20 DEF FailSave, CrashBetweenFiles
<1>21. CASE Crash
  <2>1. job = NoJob /\ mem' = file /\ file' = file /\ env' = NoMap
    BY <1>1, <1>21 DEF Crash, Working
  <2>2. Settled(chain, NoMap, k)
    BY DEF Settled, NoMap
  <2> QED
    BY <1>3, <2>1, <2>2
<1>22. CASE Restart
  <2>1. job = NoJob /\ mem' = file /\ file' = file /\ env' = FetchedCore(file)
    BY <1>2, <1>22 DEF Restart, Typed, Working
  <2>2. /\ DOMAIN env' \subseteq DOMAIN file.contractMap
        /\ \A n \in DOMAIN env' : env'[n] = file.contractMap[n]
    BY <2>1 DEF FetchedCore
  <2>3. Settled(chain, env', k)
    BY <1>3, <2>1, <2>2 DEF Settled, Maps
  <2> QED
    BY <1>3, <2>1, <2>3
<1>23. CASE UNCHANGED bookVars
  BY <1>5, <1>23 DEF bookVars
<1> QED
  BY <1>6, <1>7, <1>8, <1>9, <1>10, <1>11, <1>12, <1>13, <1>14, <1>15, <1>16, <1>17, <1>18, <1>19,
     <1>20, <1>21, <1>22, <1>23, BookNextCases DEF Threads

-----------------------------------------------------------------------------
(***************************************************************************)
(* The files and memory.                                                   *)
(***************************************************************************)
\* Only a write makes a failed write good.
LEMMA FailedKept ==
  ASSUME BookInv, [BookNext]_bookVars, ~Write("main"), ~Write("liqYT")
  PROVE  "failedWrite" \in happened => "failedWrite" \in happened'
<1>1. CASE (\E op \in world.ops : Call(op)) \/ Quiet
  BY <1>1, CallForm, QuietForm
<1>2. CASE ~((\E op \in world.ops : Call(op)) \/ Quiet)
  BY <1>2, BookNextCases DEF FetchContract, DeployContract, ReturnContract, saveContract, saveNewForge,
     StartNote, Transact, InfoKnown, Info, FlattenForges, FlattenContracts, FailSave,
     CrashBetweenFiles, Crash, Restart, bookVars, Threads
<1> QED
  BY <1>1, <1>2

LEMMA SyncedSelf ==
  ASSUME NEW y, NEW m
  PROVE  Synced(y, m, m)
BY DEF Synced

LEMMA SyncedKept ==
  ASSUME NEW y, NEW z, NEW m, NEW f, Synced(y, m, f),
         Behind(y) => Behind(z) /\ z.note.id = y.note.id
  PROVE  Synced(z, m, f)
BY DEF Synced

LEMMA SyncedOverwritten ==
  ASSUME NEW y, NEW m, NEW n, NEW f, Synced(y, m, f), Overwritten(m, n)
  PROVE  Synced(y, n, f)
<1>1. \A id \in DOMAIN m.forgeMap : \A g \in Fields : n.forgeMap[id][g] = m.forgeMap[id][g]
  BY DEF Overwritten
<1> QED
  BY <1>1 DEF Synced, Overwritten, Fields

LEMMA SyncStep ==
  ASSUME BookInv, [BookNext]_bookVars
  PROVE  SyncOk(happened', writer'["main"], writer'["liqYT"], mem', file')
<1> DEFINE x == writer["main"]
           y == writer["liqYT"]
           z == writer'["liqYT"]
           Kept == Behind(y) => Behind(z) /\ z.note.id = y.note.id
<1>1. SUFFICES ASSUME "failedWrite" \notin happened', ~Behind(writer'["main"])
               PROVE  Synced(z, mem', file')
  BY DEF SyncOk
<1>2. Typed
  BY DEF BookInv
<1>3. ASSUME UNCHANGED <<mem, file>>, ~Behind(x), Kept, ~Write("main"), ~Write("liqYT")
      PROVE  Synced(z, mem', file')
  <2>1. Synced(y, mem, file)
    BY <1>1, <1>3, FailedKept DEF BookInv, SyncOk
  <2> QED
    BY <1>3, <2>1, SyncedKept
<1>4. ASSUME NEW u, NEW v, Alike(u, v)
      PROVE  Behind(u) => Behind(v) /\ v.note.id = u.note.id
  BY <1>4 DEF Alike, Behind
<1>5. CASE Write("main") \/ Write("liqYT")
  BY <1>5, SyncedSelf DEF Write
<1> SUFFICES ASSUME ~Write("main"), ~Write("liqYT")
             PROVE  Synced(z, mem', file')
  BY <1>5
<1>6. CASE \E op \in world.ops : Call(op)
  BY <1>3, <1>6, CallForm DEF Call, Behind
<1>7. CASE Quiet
  BY <1>3, <1>7, QuietForm DEF Behind
<1>8. CASE FetchContract \/ DeployContract \/ ReturnContract \/ Transact
  <2>1. x = Idle /\ UNCHANGED <<mem, file, writer>>
    BY <1>8, ReadyFacts DEF FetchContract, DeployContract, ReturnContract, Transact, AtContract,
       AtTransaction, AtStep
  <2> QED
    BY <1>3, <2>1 DEF Behind
<1>9. CASE saveContract \/ saveNewForge
  BY <1>1, <1>9, SavedForm, ListedForm DEF Began, Behind
<1>10. CASE StartNote
  <2>1. UNCHANGED <<mem, file>> /\ x = Idle
    BY <1>10, ReadyFacts DEF StartNote, AtNote, AtStep
  <2>2. CASE WriterOf(Step) = "main"
    <3>1. Kept
      BY <1>4, <1>10, <2>2, StartForm DEF Threads, Began
    <3> QED
      BY <1>3, <2>1, <3>1 DEF Behind
  <2>3. CASE WriterOf(Step) # "main"
    <3>1. y = Idle
      BY <1>10, <2>3, StartForm DEF Threads, WriterOf
    <3> QED
      BY <1>3, <2>1, <3>1 DEF Behind
  <2> QED
    BY <2>2, <2>3
<1>11. CASE InfoKnown
  <2>1. x.phase = "info" /\ z = y /\ file' = file /\ Overwritten(mem, mem')
    BY <1>11, KnownForm DEF Closed, InfoKnown
  <2>2. Synced(y, mem, file)
    BY <1>1, <2>1, FailedKept DEF BookInv, SyncOk, Behind
  <2> QED
    BY <2>1, <2>2, SyncedOverwritten
<1>12. CASE Info("main") \/ FlattenForges("main") \/ FlattenContracts("main")
  BY <1>1, <1>2, <1>12, InfoForm, FlattenForgesForm, FlattenContractsForm DEF WentOn, Behind
<1>13. CASE FlattenForges("liqYT") \/ FlattenContracts("liqYT")
  <2>1. \E p \in {"contracts", "write"} : WentOn(writer, writer', "liqYT", "main", p)
    BY <1>2, <1>13, FlattenForgesForm, FlattenContractsForm
  <2>2. UNCHANGED <<mem, file>>
    BY <1>13 DEF FlattenForges, FlattenContracts
  <2>3. Kept /\ writer'["main"] = x
    BY <2>1 DEF WentOn, Behind
  <2> QED
    BY <1>1, <1>3, <2>2, <2>3
<1>14. CASE Info("liqYT")
  <2> DEFINE n == y.note
  <2>1. /\ WentOn(writer, writer', "liqYT", "main", "forges") /\ y.phase = "info"
        /\ Field(n) = "liqYTs" /\ AddedTo(mem, mem', n.id, "liqYTs", n.what) /\ file' = file
    BY <1>14, InfoForm, NoteForm DEF Info
  <2>2. Behind(z) /\ z.note.id = n.id /\ writer'["main"] = x /\ ~Behind(y)
    BY <2>1 DEF WentOn, Behind
  <2>3. Synced(y, mem, file)
    BY <1>1, <2>2, FailedKept DEF BookInv, SyncOk
  <2> HIDE DEF n
  <2>4. /\ mem'.contractMap = mem.contractMap /\ DOMAIN mem'.forgeMap = DOMAIN mem.forgeMap
        /\ n.id \in DOMAIN mem.forgeMap
        /\ \A b \in DOMAIN mem.forgeMap : b # n.id => mem'.forgeMap[b] = mem.forgeMap[b]
    BY <2>1 DEF AddedTo
  <2>5. /\ mem'.forgeMap[n.id].yields = mem.forgeMap[n.id].yields
        /\ mem'.forgeMap[n.id].markets = mem.forgeMap[n.id].markets
        /\ mem'.forgeMap[n.id].liqOTs = mem.forgeMap[n.id].liqOTs
    BY <2>1 DEF AddedTo, Fields
  <2>6. file.contractMap = mem'.contractMap
    BY <2>3, <2>4 DEF Synced
  <2>7. ASSUME NEW id \in DOMAIN mem'.forgeMap
        PROVE  /\ id \in DOMAIN file.forgeMap
               /\ mem'.forgeMap[id].yields \subseteq file.forgeMap[id].yields
               /\ mem'.forgeMap[id].markets \subseteq file.forgeMap[id].markets
               /\ mem'.forgeMap[id].liqOTs \subseteq file.forgeMap[id].liqOTs
               /\ \A a \in mem'.forgeMap[id].liqYTs :
                    a \in file.forgeMap[id].liqYTs \/ (Behind(z) /\ z.note.id = id)
    <3>1. CASE id = n.id
      BY <2>2, <2>3, <2>4, <2>5, <2>7, <3>1 DEF Synced
    <3>2. CASE id # n.id
      BY <2>2, <2>3, <2>4, <2>7, <3>2 DEF Synced
    <3> QED
      BY <3>1, <3>2
  <2> QED
    BY <2>1, <2>6, <2>7 DEF Synced
<1>15. CASE FailSave("main")
  <2>1. UNCHANGED <<mem, file>> /\ x # Idle /\ (x.phase # "info" => "failedWrite" \in happened')
    BY <1>15 DEF FailSave, Busy
  <2>2. Closed(writer, writer', "main", "liqYT")
    BY <1>2, <1>15, ClosedForm DEF FailSave
  <2> QED
    BY <1>1, <1>3, <2>1, <2>2 DEF Closed, Behind
<1>16. CASE FailSave("liqYT")
  <2>1. UNCHANGED <<mem, file>> /\ y # Idle /\ (y.phase # "info" => "failedWrite" \in happened')
    BY <1>16 DEF FailSave, Busy
  <2>2. Closed(writer, writer', "liqYT", "main")
    BY <1>2, <1>16, ClosedForm DEF FailSave
  <2> QED
    BY <1>1, <1>3, <2>1, <2>2 DEF Closed, Behind
<1>17. CASE Crash \/ \E w \in Threads : CrashBetweenFiles(w)
  <2>1. mem' = file'
    BY <1>17 DEF Crash, CrashBetweenFiles
  <2> QED
    BY <2>1, SyncedSelf
<1>18. CASE Restart
  <2>1. mem' = file'
    BY <1>18 DEF Restart
  <2> QED
    BY <2>1, SyncedSelf
<1>19. CASE UNCHANGED bookVars
  BY <1>1, <1>3, <1>19 DEF bookVars
<1> QED
  BY <1>6, <1>7, <1>8, <1>9, <1>10, <1>11, <1>12, <1>13, <1>14, <1>15, <1>16, <1>17, <1>18, <1>19,
     BookNextCases DEF Threads

LEMMA BeganAlone ==
  ASSUME NEW s, NEW z, NEW w, NEW v, NEW p \in {"info", "forges"}, NEW note,
         Began(s, z, w, v, p, note), NEW m
  PROVE  AloneOk(z[w], z[v], m) /\ AloneOk(z[v], z[w], m)
BY DEF Began, Alike, AloneOk

LEMMA WentOnAlone ==
  ASSUME NEW s, NEW z, NEW w, NEW v, NEW p \in {"forges", "contracts", "write"},
         WentOn(s, z, w, v, p), s[w] # Idle, NEW m, NEW n, p # "forges" => n = m,
         AloneOk(s[w], s[v], m), AloneOk(s[v], s[w], m),
         p = "contracts" => z[w].flat.forges = m.forgeMap,
         p = "write" => /\ s[w].phase = "contracts" /\ z[w].flat.forges = s[w].flat.forges
                        /\ z[w].flat.contracts = m.contractMap
  PROVE  AloneOk(z[w], z[v], n) /\ AloneOk(z[v], z[w], n)
<1>1. AloneOk(z[v], z[w], n)
  BY DEF WentOn, AloneOk
<1>2. AloneOk(z[w], z[v], n)
  BY DEF WentOn, AloneOk
<1> QED
  BY <1>1, <1>2

LEMMA ClosedAlone ==
  ASSUME NEW s, NEW z, NEW w, NEW v, Closed(s, z, w, v), NEW m, AloneOk(s[v], s[w], m)
  PROVE  AloneOk(z[w], z[v], m) /\ AloneOk(z[v], z[w], m)
BY DEF Closed, AloneOk

\* The two saves, in either order.
Lone(s, m) == AloneOk(s["main"], s["liqYT"], m) /\ AloneOk(s["liqYT"], s["main"], m)

LEMMA AloneStep ==
  ASSUME BookInv, [BookNext]_bookVars
  PROVE  Lone(writer', mem')
<1>1. Lone(writer, mem) /\ Typed
  BY DEF BookInv, Lone
<1>2. ASSUME writer' = writer, mem' = mem
      PROVE  Lone(writer', mem')
  BY <1>1, <1>2
<1>3. CASE \E op \in world.ops : Call(op)
  BY <1>2, <1>3 DEF Call
<1>4. CASE Quiet
  BY <1>2, <1>4, QuietForm
<1>5. CASE FetchContract \/ DeployContract \/ ReturnContract \/ Transact \/ UNCHANGED bookVars
  BY <1>2, <1>5 DEF FetchContract, DeployContract, ReturnContract, Transact, bookVars
<1>6. CASE saveContract \/ saveNewForge
  BY <1>6, SavedForm, ListedForm, BeganAlone DEF Lone
<1>7. CASE StartNote
  <2>1. CASE WriterOf(Step) = "main"
    BY <1>7, <2>1, StartForm, BeganAlone DEF Lone, Threads
  <2>2. CASE WriterOf(Step) # "main"
    BY <1>7, <2>2, StartForm, BeganAlone DEF Lone, Threads, WriterOf
  <2> QED
    BY <2>1, <2>2
<1>8. ASSUME NEW w \in Threads, NEW v \in Threads, v # w, Info(w)
      PROVE  Lone(writer', mem')
  <2>1. WentOn(writer, writer', w, v, "forges") /\ writer[w] # Idle
    BY <1>8, InfoForm DEF Threads
  <2>2. AloneOk(writer[w], writer[v], mem) /\ AloneOk(writer[v], writer[w], mem)
    BY <1>1, <1>8 DEF Threads, Lone
  <2>3. AloneOk(writer'[w], writer'[v], mem') /\ AloneOk(writer'[v], writer'[w], mem')
    BY <2>1, <2>2, WentOnAlone
  <2> QED
    BY <1>8, <2>3 DEF Threads, Lone
<1>9. ASSUME NEW w \in Threads, NEW v \in Threads, v # w, FlattenForges(w)
      PROVE  Lone(writer', mem')
  <2>1. /\ WentOn(writer, writer', w, v, "contracts") /\ writer[w] # Idle /\ mem' = mem
        /\ writer'[w].flat.forges = mem.forgeMap
    BY <1>1, <1>9, FlattenForgesForm DEF Threads, FlattenForges
  <2>2. AloneOk(writer[w], writer[v], mem) /\ AloneOk(writer[v], writer[w], mem)
    BY <1>1, <1>9 DEF Threads, Lone
  <2>3. AloneOk(writer'[w], writer'[v], mem') /\ AloneOk(writer'[v], writer'[w], mem')
    BY <2>1, <2>2, WentOnAlone
  <2> QED
    BY <1>9, <2>3 DEF Threads, Lone
<1>10. ASSUME NEW w \in Threads, NEW v \in Threads, v # w, FlattenContracts(w)
       PROVE  Lone(writer', mem')
  <2>1. /\ WentOn(writer, writer', w, v, "write") /\ writer[w] # Idle /\ mem' = mem
        /\ writer[w].phase = "contracts" /\ writer'[w].flat.forges = writer[w].flat.forges
        /\ writer'[w].flat.contracts = mem.contractMap
    BY <1>1, <1>10, FlattenContractsForm DEF Threads, FlattenContracts
  <2>2. AloneOk(writer[w], writer[v], mem) /\ AloneOk(writer[v], writer[w], mem)
    BY <1>1, <1>10 DEF Threads, Lone
  <2>3. AloneOk(writer'[w], writer'[v], mem') /\ AloneOk(writer'[v], writer'[w], mem')
    BY <2>1, <2>2, WentOnAlone
  <2> QED
    BY <1>10, <2>3 DEF Threads, Lone
<1>11. ASSUME NEW w \in Threads, NEW v \in Threads, v # w, Write(w) \/ FailSave(w)
       PROVE  Lone(writer', mem')
  <2>1. Closed(writer, writer', w, v) /\ mem' = mem
    BY <1>1, <1>11, ClosedForm DEF Threads, Write, FailSave
  <2>2. AloneOk(writer[v], writer[w], mem)
    BY <1>1, <1>11 DEF Threads, Lone
  <2>3. AloneOk(writer'[w], writer'[v], mem') /\ AloneOk(writer'[v], writer'[w], mem')
    BY <2>1, <2>2, ClosedAlone
  <2> QED
    BY <1>11, <2>3 DEF Threads, Lone
<1>12. CASE InfoKnown
  <2>1. Closed(writer, writer', "main", "liqYT") /\ writer["main"] # Idle
    BY <1>12, KnownForm
  <2>2. writer["liqYT"] # Idle => ~writer["liqYT"].alone
    BY <1>1, <2>1 DEF Lone, AloneOk
  <2> QED
    BY <2>1, <2>2 DEF Closed, Lone, AloneOk
<1>13. CASE Crash \/ \E w \in Threads : CrashBetweenFiles(w)
  <2>1. writer' = [w \in DOMAIN writer |-> Idle]
    BY <1>13 DEF Crash, CrashBetweenFiles
  <2> QED
    BY <1>1, <2>1 DEF Typed, SavesOk, Lone, AloneOk
<1>14. CASE Restart
  BY <1>2, <1>1, <1>14 DEF Restart, Typed
<1> QED
  BY <1>3, <1>4, <1>5, <1>6, <1>7, <1>8, <1>9, <1>10, <1>11, <1>12, <1>13, <1>14, BookNextCases

LEMMA FlatStep ==
  ASSUME BookInv, [BookNext]_bookVars
  PROVE  FlatOk(happened', flat', file')
<1>1. Typed /\ FlatOk(happened, flat, file)
  BY DEF BookInv
<1>2. ASSUME UNCHANGED <<flat, file>>, {"overlapped", "torn"} \cap happened \subseteq happened'
      PROVE  FlatOk(happened', flat', file')
  BY <1>1, <1>2 DEF FlatOk
<1>3. CASE (\E op \in world.ops : Call(op)) \/ Quiet
  BY <1>2, <1>3, CallForm, QuietForm DEF Call
<1>4. ASSUME NEW w \in Threads, NEW v \in Threads, v # w, Write(w)
      PROVE  FlatOk(happened', flat', file')
  <2>1. /\ writer[w] # Idle /\ writer[w].phase = "write" /\ file' = mem /\ flat' = writer[w].flat
        /\ ~writer[w].alone => "overlapped" \in happened'
    BY <1>4 DEF Write, Busy
  <2>2. AloneOk(writer[w], writer[v], mem)
    BY <1>4 DEF BookInv, Threads
  <2> QED
    BY <2>1, <2>2 DEF FlatOk, AloneOk
<1>5. CASE \E w \in Threads : CrashBetweenFiles(w)
  BY <1>5 DEF CrashBetweenFiles, FlatOk
<1>6. CASE \/ FetchContract \/ DeployContract \/ ReturnContract \/ saveContract \/ saveNewForge
           \/ StartNote \/ Transact \/ InfoKnown \/ Crash \/ Restart \/ UNCHANGED bookVars
           \/ \E w \in Threads : Info(w) \/ FlattenForges(w) \/ FlattenContracts(w) \/ FailSave(w)
  <2>1. UNCHANGED <<flat, file>> /\ happened \subseteq happened'
    BY <1>6 DEF FetchContract, DeployContract, ReturnContract, saveContract, saveNewForge,
       StartNote, Transact, InfoKnown, Info, FlattenForges, FlattenContracts, FailSave, Crash,
       Restart, bookVars
  <2> QED
    BY <1>2, <2>1
<1> QED
  BY <1>3, <1>4, <1>5, <1>6, BookNextCases

-----------------------------------------------------------------------------
(***************************************************************************)
(* What the functions that returned have left.                             *)
(***************************************************************************)
LEMMA RecordedKept ==
  ASSUME NEW m, NEW y, NEW op, RecordedIn(m, y, op), NEW n, Grows(m, n),
         NEW z, NEW i, Handed(y, z, n, i), "lostSave" \notin i
  PROVE  RecordedIn(n, z, op)
<1> DEFINE k == KitOf(op.id)
<1>1. op.kind = "deploy" =>
        /\ op.mode # "DEPLOY_NOSAVE" => {k.rm, k.ycd, k.forge} \subseteq DOMAIN n.contractMap
        /\ k.lists = "always" \/ (k.lists = "DEPLOY" /\ op.mode = "DEPLOY")
             => k.id \in DOMAIN n.forgeMap
  BY DEF RecordedIn, Grows
<1>2. /\ op.kind \in {"newYield", "saveYield"} =>
           op.id \in DOMAIN n.forgeMap /\ op.id \in n.forgeMap[op.id].yields
      /\ op.kind = "newMarket" => op.id \in DOMAIN n.forgeMap /\ op.id \in n.forgeMap[op.id].markets
  BY DEF RecordedIn, Grows
<1>3. ASSUME NEW name, NEW id, Mined(m, name, id, "liqOTs")
      PROVE  Mined(n, name, id, "liqOTs")
  BY <1>3 DEF Mined, Grows
<1>4. ASSUME NEW id, MiningIs(m, y, LiqYT(id), id)
      PROVE  MiningIs(n, z, LiqYT(id), id)
  <2>1. /\ LiqYT(id) \in MiningNames /\ LiqYT(id) \in DOMAIN n.contractMap /\ id \in DOMAIN n.forgeMap
        /\ n.contractMap[LiqYT(id)] = m.contractMap[LiqYT(id)]
        /\ m.forgeMap[id].liqYTs \subseteq n.forgeMap[id].liqYTs
    BY <1>4 DEF MiningIs, Grows
  <2>2. m.contractMap[LiqYT(id)] \in m.forgeMap[id].liqYTs \/ InFlight(y, id)
    BY <1>4 DEF MiningIs
  <2>3. CASE InFlight(y, id)
    BY <2>1, <2>3 DEF InFlight, Handed, StillSaves, MiningIs
  <2> QED
    BY <2>1, <2>2, <2>3 DEF MiningIs
<1> QED
  BY <1>1, <1>2, <1>3, <1>4 DEF RecordedIn

LEMMA SyncedRecorded ==
  ASSUME NEW m, NEW y, NEW op, RecordedIn(m, y, op), NEW f, Synced(y, m, f)
  PROVE  RecordedIn(f, y, op)
<1> DEFINE k == KitOf(op.id)
<1>1. op.kind = "deploy" =>
        /\ op.mode # "DEPLOY_NOSAVE" => {k.rm, k.ycd, k.forge} \subseteq DOMAIN f.contractMap
        /\ k.lists = "always" \/ (k.lists = "DEPLOY" /\ op.mode = "DEPLOY")
             => k.id \in DOMAIN f.forgeMap
  BY DEF RecordedIn, Synced
<1>2. /\ op.kind \in {"newYield", "saveYield"} =>
           op.id \in DOMAIN f.forgeMap /\ op.id \in f.forgeMap[op.id].yields
      /\ op.kind = "newMarket" => op.id \in DOMAIN f.forgeMap /\ op.id \in f.forgeMap[op.id].markets
  BY DEF RecordedIn, Synced
<1>3. ASSUME NEW name, NEW id, Mined(m, name, id, "liqOTs")
      PROVE  Mined(f, name, id, "liqOTs")
  BY <1>3 DEF Mined, Synced
<1>4. ASSUME NEW id, MiningIs(m, y, LiqYT(id), id)
      PROVE  MiningIs(f, y, LiqYT(id), id)
  BY <1>4 DEF MiningIs, Synced, InFlight, Behind
<1> QED
  BY <1>1, <1>2, <1>3, <1>4 DEF RecordedIn

LEMMA ReturnRecorded ==
  ASSUME BookInv, Return, "lostSave" \notin happened
  PROVE  job.op \in Calls /\ RecordedIn(mem, writer["liqYT"], job.op)
<1> DEFINE r  == Recipe(job.op)
           op == job.op
           y  == writer["liqYT"]
           k  == KitOf(op.id)
<1>1. /\ job # NoJob /\ IsJob(chain, job) /\ op \in Calls /\ ProgressOk(job, env, mem, y, happened)
      /\ Len(r) \in Nat /\ DOMAIN r = 1 .. Len(r) /\ Records(op, r) /\ job.pc = Len(r) + 1
  BY RecipeFacts DEF BookInv, Typed, JobOk, IsJob, Return, Working, AtEnd
<1>2. ASSUME NEW i \in DOMAIN r
      PROVE  /\ DoneStep(r[i], op.mode, env, mem, y, happened) /\ StepIsOrdered(op, r, i)
             /\ r[i].do \in {"noteLiqOT", "noteLiqYT"} =>
                  /\ r[i].name \in MiningNames /\ r[i].name \in DOMAIN mem.contractMap
  <2>1. i \in 1 .. job.pc - 1 /\ i \in Nat /\ i \in 1 .. Len(r) /\ i <= job.pc
    BY <1>1
  <2>2. DoneStep(r[i], op.mode, env, mem, y, happened)
    BY <1>1, <2>1 DEF ProgressOk
  <2>3. StepIsOrdered(op, r, i)
    BY <1>1, <2>1, StepFacts
  <2>4. r[i].do \in {"noteLiqOT", "noteLiqYT"} =>
          r[i].name \in MiningNames /\ r[i].name \in DOMAIN mem.contractMap
    BY <1>1, <2>1, NotedName
  <2> QED
    BY <2>2, <2>3, <2>4
<1>3. ASSUME NEW n, Deployed(r, Len(r) + 1, n), op.mode # "DEPLOY_NOSAVE"
      PROVE  n \in DOMAIN mem.contractMap
  <2>1. job.pc \in Nat /\ job.pc <= job.pc /\ Deployed(r, job.pc, n)
    BY <1>1, <1>3
  <2>2. /\ IsJob(chain, job) /\ ProgressOk(job, env, mem, writer["liqYT"], happened)
        /\ job.pc \in Nat /\ job.pc <= job.pc /\ Deployed(Recipe(job.op), job.pc, n)
        /\ job.op.mode # "DEPLOY_NOSAVE"
    BY <1>1, <1>3, <2>1
  <2> HIDE DEF r, op
  <2> QED
    BY ONLY <2>2, DeployedDone
<1> HIDE DEF r, op, y, k
<1>4. CASE op.kind = "deploy"
  <2>1. /\ k \in Kits /\ k.id = op.id
        /\ \A n \in {k.rm, k.ycd, k.forge} : Deployed(r, Len(r) + 1, n)
        /\ k.lists # "never" => \E i \in DOMAIN r : r[i].do = "saveNewForge" /\ r[i].id = k.id
    BY <1>1, <1>4 DEF Records, k
  <2>2. op.mode # "DEPLOY_NOSAVE" => {k.rm, k.ycd, k.forge} \subseteq DOMAIN mem.contractMap
    BY <1>3, <2>1
  <2>3. ASSUME k.lists = "always" \/ (k.lists = "DEPLOY" /\ op.mode = "DEPLOY")
        PROVE  k.id \in DOMAIN mem.forgeMap
    <3>1. PICK i \in DOMAIN r : r[i].do = "saveNewForge" /\ r[i].id = k.id
      BY <2>1, <2>3
    <3>2. ListingIsOrdered(op, r, i)
      BY <1>2, <3>1 DEF StepIsOrdered
    <3>3. PICK l \in Kits : r[i].id = l.id /\ (r[i].always <=> l.lists = "always")
      BY <3>2 DEF ListingIsOrdered
    <3>4. l = k
      BY <2>1, <3>1, <3>3, KitFacts
    <3> QED
      BY <1>2, <2>3, <3>1, <3>3, <3>4 DEF DoneStep
  <2> QED
    BY <1>1, <1>4, <2>2, <2>3 DEF RecordedIn, op, k
<1>5. CASE op.kind \in {"newYield", "saveYield"}
  <2>1. PICK i \in DOMAIN r : r[i].do = "noteYield" /\ r[i].id = op.id
    BY <1>1, <1>5 DEF Records
  <2> QED
    BY <1>1, <1>2, <1>5, <2>1 DEF RecordedIn, DoneStep, op
<1>6. CASE op.kind = "newMarket"
  <2>1. PICK i \in DOMAIN r : r[i].do = "noteMarket" /\ r[i].id = op.id
    BY <1>1, <1>6 DEF Records
  <2> QED
    BY <1>1, <1>2, <1>6, <2>1 DEF RecordedIn, DoneStep, op
<1>7. CASE op.kind = "newLiqYT"
  <2>1. PICK i \in DOMAIN r : r[i].do = "noteLiqYT" /\ r[i].id = op.id /\ r[i].name = LiqYT(op.id)
    BY <1>1, <1>7 DEF Records
  <2>2. MiningIs(mem, y, LiqYT(op.id), op.id)
    BY <1>2, <2>1 DEF DoneStep, MiningIs
  <2> QED
    BY <1>1, <1>7, <2>2 DEF RecordedIn, op, y
<1>8. CASE op.kind = "newLiqOT"
  <2>1. PICK i \in DOMAIN r : r[i].do = "noteLiqOT" /\ r[i].id = op.id /\ r[i].name = LiqOT(op.id)
    BY <1>1, <1>8 DEF Records
  <2>2. Mined(mem, LiqOT(op.id), op.id, "liqOTs")
    BY <1>2, <2>1 DEF DoneStep, Mined
  <2> QED
    BY <1>1, <1>8, <2>2 DEF RecordedIn, op
<1>9. CASE op.kind = "newLiqJLP"
  <2>1. PICK i \in DOMAIN r :
          r[i].do = "noteLiqOT" /\ r[i].id = "TraderJoeComplex" /\ r[i].name = "LiqJLP"
    BY <1>1, <1>9 DEF Records
  <2>2. Mined(mem, "LiqJLP", "TraderJoeComplex", "liqOTs")
    BY <1>2, <2>1 DEF DoneStep, Mined
  <2> QED
    BY <1>1, <1>9, <2>2 DEF RecordedIn, op
<1>10. CASE op.kind \notin {"deploy", "newYield", "saveYield", "newMarket", "newLiqYT", "newLiqOT",
                            "newLiqJLP"}
  BY <1>1, <1>10 DEF RecordedIn, op
<1> QED
  BY <1>4, <1>5, <1>6, <1>7, <1>8, <1>9, <1>10

LEMMA RecordStep ==
  ASSUME BookInv, [BookNext]_bookVars
  PROVE  RecordOk(happened', finished', mem', file', writer'["liqYT"])
<1> DEFINE y == writer["liqYT"]
           z == writer'["liqYT"]
           Goal(op) == /\ op \in Calls /\ RecordedIn(mem', z, op)
                       /\ "failedWrite" \notin happened' => RecordedIn(file', z, op)
<1>1. SUFFICES ASSUME "lostSave" \notin happened', NEW op \in finished'
               PROVE  Goal(op)
  BY DEF RecordOk
<1>2. /\ Typed /\ "lostSave" \notin happened
      /\ op \in finished => /\ op \in Calls /\ RecordedIn(mem, y, op)
                            /\ "failedWrite" \notin happened => RecordedIn(file, y, op)
  BY <1>1, HappenedKept DEF BookInv, RecordOk
<1> HIDE DEF y, z
<1>3. ASSUME op \in finished, Grows(mem, mem'), Handed(y, z, mem', happened'),
             \/ file' = mem'
             \/ /\ file' = file /\ ~Write("main") /\ ~Write("liqYT")
                /\ "failedWrite" \in happened' \/ StillSaves(y, z)
      PROVE  Goal(op)
  <2>1. op \in Calls /\ RecordedIn(mem', z, op)
    BY <1>1, <1>2, <1>3, RecordedKept
  <2>2. ASSUME file' # mem', file' = file, "failedWrite" \notin happened'
        PROVE  RecordedIn(file, z, op)
    <3>1. RecordedIn(file, y, op) /\ StillSaves(y, z)
      BY <1>2, <1>3, <2>2, FailedKept
    <3>2. Handed(y, z, file, happened')
      BY <3>1 DEF Handed
    <3> QED
      BY <1>1, <3>1, <3>2, GrowsTrivially, RecordedKept
  <2> QED
    BY <1>3, <2>1, <2>2
<1>4. ASSUME op \in finished, UNCHANGED <<mem, file>>, z = y, ~Write("main"), ~Write("liqYT")
      PROVE  Goal(op)
  <2>1. StillSaves(y, z)
    BY <1>4 DEF StillSaves
  <2>2. Handed(y, z, mem', happened')
    BY <2>1 DEF Handed
  <2> QED
    BY <1>3, <1>4, <2>1, <2>2, GrowsTrivially
<1>5. CASE Write("main") \/ Write("liqYT")
  <2>1. mem' = mem /\ file' = mem' /\ op \in finished
    BY <1>1, <1>5 DEF Write
  <2>2. CASE Write("main")
    <3>1. z = y
      BY <2>2, WriteMainForm DEF Closed, y, z
    <3>2. Handed(y, z, mem', happened')
      BY <3>1, AlikeTrivially, AlikeIsHanded
    <3> QED
      BY <1>3, <2>1, <3>2, GrowsTrivially
  <2>3. CASE Write("liqYT")
    BY <1>3, <2>1, <2>3, LiqHanded, GrowsTrivially DEF y, z
  <2> QED
    BY <1>5, <2>2, <2>3
<1> SUFFICES ASSUME ~Write("main"), ~Write("liqYT")
             PROVE  Goal(op)
  BY <1>5
<1>6. CASE \E o \in world.ops : Call(o)
  BY <1>1, <1>4, <1>6 DEF Call, y, z
<1>7. CASE Quiet
  <2>1. UNCHANGED <<mem, file>> /\ z = y
    BY <1>7, QuietForm DEF y, z
  <2>2. CASE op \in finished
    BY <1>4, <2>1, <2>2
  <2>3. CASE op \notin finished
    <3>1. Return /\ op = job.op /\ happened' = happened /\ writer["main"] = Idle
      BY <1>1, <1>7, <2>3 DEF Quiet, Return, ThrowContract, ThrowListing, ThrowTransaction,
         SkipListing, ThrowNote, Busy
    <3>2. op \in Calls /\ RecordedIn(mem, y, op)
      BY <1>2, <3>1, ReturnRecorded DEF y
    <3>3. "failedWrite" \notin happened => RecordedIn(file, y, op)
      <4>1. "failedWrite" \notin happened => Synced(y, mem, file)
        BY <3>1 DEF BookInv, SyncOk, Behind, y
      <4> QED
        BY <3>2, <4>1, SyncedRecorded
    <3> QED
      BY <2>1, <3>1, <3>2, <3>3
  <2> QED
    BY <2>2, <2>3
<1>8. CASE FetchContract \/ DeployContract \/ ReturnContract \/ Transact \/ UNCHANGED bookVars
  <2>1. UNCHANGED <<mem, file, writer, finished>>
    BY <1>8 DEF FetchContract, DeployContract, ReturnContract, Transact, bookVars
  <2> QED
    BY <1>1, <1>4, <2>1 DEF y, z
<1>9. CASE saveContract \/ saveNewForge
  <2>1. Grows(mem, mem') /\ Alike(y, z)
    BY <1>9, SavedForm, ListedForm DEF Began, y, z
  <2>2. file' = file /\ finished' = finished
    BY <1>9 DEF saveContract, saveNewForge
  <2>3. StillSaves(y, z) /\ Handed(y, z, mem', happened')
    BY <2>1, AlikeIsHanded DEF Alike, StillSaves
  <2> QED
    BY <1>1, <1>3, <2>1, <2>2, <2>3
<1>10. CASE StartNote
  <2>1. UNCHANGED <<mem, file, finished>>
    BY <1>10 DEF StartNote
  <2>2. StillSaves(y, z)
    <3>1. CASE WriterOf(Step) = "main"
      BY <1>10, <3>1, StartForm DEF Threads, Began, Alike, StillSaves, y, z
    <3>2. CASE WriterOf(Step) # "main"
      <4>1. y = Idle
        BY <1>10, <3>2, StartForm DEF Threads, WriterOf, y
      <4> QED
        BY <4>1 DEF StillSaves
    <3> QED
      BY <3>1, <3>2
  <2>3. Handed(y, z, mem', happened')
    BY <2>2 DEF Handed
  <2> QED
    BY <1>1, <1>3, <2>1, <2>2, <2>3, GrowsTrivially
<1>11. CASE InfoKnown
  <2>1. Grows(mem, mem') /\ StillSaves(y, z)
    BY <1>11, KnownForm DEF Closed, StillSaves, y, z
  <2>2. file' = file /\ finished' = finished
    BY <1>11 DEF InfoKnown
  <2>3. Handed(y, z, mem', happened')
    BY <2>1 DEF Handed
  <2> QED
    BY <1>1, <1>3, <2>1, <2>2, <2>3
<1>12. CASE Info("main") \/ Info("liqYT")
  <2>1. Grows(mem, mem') /\ StillSaves(y, z)
    BY <1>12, InfoForm DEF WentOn, StillSaves, y, z
  <2>2. file' = file /\ finished' = finished
    BY <1>12 DEF Info
  <2>3. Handed(y, z, mem', happened')
    BY <2>1 DEF Handed
  <2> QED
    BY <1>1, <1>3, <2>1, <2>2, <2>3
<1>13. ASSUME NEW w \in Threads, FlattenForges(w) \/ FlattenContracts(w)
       PROVE  Goal(op)
  <2>1. UNCHANGED <<mem, file, finished>>
    BY <1>13 DEF FlattenForges, FlattenContracts
  <2>2. StillSaves(y, z)
    <3>1. CASE w = "liqYT"
      BY <1>2, <1>13, <3>1, FlattenForgesForm, FlattenContractsForm DEF WentOn, StillSaves, y, z
    <3>2. CASE w = "main"
      BY <1>2, <1>13, <3>2, FlattenForgesForm, FlattenContractsForm DEF WentOn, StillSaves, y, z
    <3> QED
      BY <3>1, <3>2 DEF Threads
  <2>3. Handed(y, z, mem', happened')
    BY <2>2 DEF Handed
  <2> QED
    BY <1>1, <1>3, <2>1, <2>2, <2>3, GrowsTrivially
<1>14. CASE FailSave("main")
  <2>1. Closed(writer, writer', "main", "liqYT")
    BY <1>2, <1>14, ClosedForm DEF FailSave
  <2> QED
    BY <1>1, <1>4, <1>14, <2>1 DEF FailSave, Closed, y, z
<1>15. CASE FailSave("liqYT")
  <2>1. UNCHANGED <<mem, file, finished>> /\ (y.phase # "info" => "failedWrite" \in happened')
    BY <1>15 DEF FailSave, y
  <2>2. Handed(y, z, mem', happened') /\ (y.phase = "info" => "lostSave" \in happened')
    BY <1>15, <2>1, LiqHanded DEF y, z
  <2> QED
    BY <1>1, <1>3, <2>1, <2>2, GrowsTrivially
<1>16. CASE Crash
  <2>1. /\ y = Idle /\ "failedWrite" \notin happened /\ mem' = file /\ file' = file
        /\ finished' = finished /\ z = Idle
    BY <1>1, <1>2, <1>16 DEF Crash, Busy, Typed, SavesOk, y, z
  <2> QED
    BY <1>1, <1>2, <2>1
<1>17. ASSUME NEW w \in Threads, CrashBetweenFiles(w)
       PROVE  Goal(op)
  <2>1. file' = mem' /\ mem' = mem /\ finished' = finished
    BY <1>17 DEF CrashBetweenFiles
  <2>2. Handed(y, z, mem', happened')
    <3>1. CASE w = "liqYT"
      BY <1>17, <2>1, <3>1, LiqHanded DEF y, z
    <3>2. CASE w = "main"
      <4>1. y = Idle
        BY <1>1, <1>2, <1>17, <3>2 DEF CrashBetweenFiles, Busy, Typed, SavesOk, y
      <4> QED
        BY <4>1 DEF Handed, StillSaves
    <3> QED
      BY <3>1, <3>2 DEF Threads
  <2> QED
    BY <1>1, <1>3, <2>1, <2>2, GrowsTrivially
<1>18. CASE Restart
  <2>1. mem' = mem /\ UNCHANGED <<file, writer, finished>>
    BY <1>2, <1>18 DEF Restart, Typed
  <2> QED
    BY <1>1, <1>4, <2>1 DEF y, z
<1> QED
  BY <1>6, <1>7, <1>8, <1>9, <1>10, <1>11, <1>12, <1>13, <1>14, <1>15, <1>16, <1>17, <1>18,
     BookNextCases DEF Threads

-----------------------------------------------------------------------------
(***************************************************************************)
(* The invariant holds, and what follows from it.                          *)
(***************************************************************************)
LEMMA WorldFacts ==
  ASSUME NEW w \in Worlds
  PROVE  /\ ChainOk(InitialChain(w)) /\ BookOk(InitialChain(w), InitialBook(w))
         /\ Sound(InitialChain(w), InitialBook(w)) /\ InitialisedWithUser(InitialChain(w))
         /\ PAUSE_LIQ \in {w.names[i] : i \in 1 .. w.core}
         /\ w.ops \subseteq Calls /\ w.kits \subseteq KitIds
<1> DEFINE c == InitialChain(w)
           b == InitialBook(w)
<1>1. /\ w.ops \subseteq Calls /\ w.kits \subseteq KitIds
      /\ PAUSE_LIQ \in {w.names[i] : i \in 1 .. w.core} /\ PAUSE_LIQ \in DOMAIN b.contractMap
      /\ \A n \in DOMAIN b.contractMap : b.contractMap[n] \in DOMAIN c.deployed
      /\ IsChain(c) /\ BuiltAsOrdered(c) /\ InitialisedWithUser(c)
      /\ Linked(c, b.contractMap) /\ ListedAsBuilt(c, b)
  BY BookAssumption DEF IsWorld
<1>2. IsBook(b)
  BY DEF InitialBook, IsBook, Fields
<1> HIDE DEF c, b
<1>3. Named(c, b.contractMap)
  BY <1>1 DEF Named, Linked
<1>4. ChainOk(c) /\ BookOk(c, b) /\ Sound(c, b)
  BY <1>1, <1>2, <1>3 DEF ChainOk, BookOk, Sound
<1> QED
  BY <1>1, <1>4 DEF c, b

\* With no function running, what the map holds of a forge is what it was built with.
LEMMA SoundSettled ==
  ASSUME NEW c, ChainOk(c), NEW map, Linked(c, map), Named(c, map), NEW k \in Kits
  PROVE  Settled(c, map, k)
<1>1. SUFFICES ASSUME k.forge \in DOMAIN map, NEW t \in {k.rm, k.ycd}, t \in DOMAIN map
               PROVE  map[t] \in c.deployed[map[k.forge]].uses
  BY DEF Settled
<1>2. map[k.forge] \in DOMAIN c.deployed /\ c.deployed[map[k.forge]].name = k.forge
  BY <1>1 DEF Named
<1>3. PICK u \in c.deployed[map[k.forge]].uses : c.deployed[u].name = t
  BY <1>1, <1>2 DEF ChainOk, BuiltAsOrdered
<1>4. map[t] = u
  BY <1>1, <1>3 DEF Linked
<1> QED
  BY <1>3, <1>4

LEMMA BookInitHolds ==
  ASSUME BookInit
  PROVE  BookInv
<1>1. /\ world \in Worlds /\ file = InitialBook(world) /\ mem = file
      /\ flat = [contracts |-> file.contractMap, forges |-> file.forgeMap]
      /\ env = FetchedCore(file) /\ chain = InitialChain(world) /\ up = TRUE /\ job = NoJob
      /\ writer = [w \in {"main", "liqYT"} |-> Idle] /\ happened = {} /\ finished = {}
  BY DEF BookInit
<1>2. /\ ChainOk(chain) /\ BookOk(chain, file) /\ BookOk(chain, mem) /\ Sound(chain, mem)
      /\ Sound(chain, file) /\ InitialisedWithUser(chain)
      /\ PAUSE_LIQ \in {world.names[i] : i \in 1 .. world.core}
  BY <1>1, WorldFacts
<1>3. /\ DOMAIN env = DOMAIN file.contractMap \cap {world.names[i] : i \in 1 .. world.core}
      /\ \A n \in DOMAIN env : env[n] = file.contractMap[n]
  BY <1>1 DEF FetchedCore
<1>4. EnvOk(chain, env, up)
  BY <1>2, <1>3 DEF EnvOk, BookOk, Named
<1>5. /\ writer["main"] = Idle /\ writer["liqYT"] = Idle /\ SavesOk(writer)
      /\ DOMAIN flat = {"contracts", "forges"}
      /\ flat.contracts = file.contractMap /\ flat.forges = file.forgeMap
  BY <1>1 DEF SavesOk
<1>6. Typed
  BY <1>1, <1>2, <1>4, <1>5 DEF Typed, JobOk
<1>7. /\ MainOk(job, writer["main"], mem, env) /\ LiqOk(writer["liqYT"], mem)
      /\ MadeOk(job, writer["main"], mem, env, chain)
      /\ ProgressOk(job, env, mem, writer["liqYT"], happened)
      /\ AloneOk(writer["main"], writer["liqYT"], mem)
      /\ AloneOk(writer["liqYT"], writer["main"], mem)
  BY <1>1, <1>5 DEF MainOk, LiqOk, MadeOk, ProgressOk, AloneOk
<1>8. UnforcedOk(happened, job, chain, mem, file, env)
  BY <1>1, <1>2, <1>3 DEF UnforcedOk
<1>9. SettledOk(happened, job, chain, env, mem, file)
  <2>1. ASSUME NEW k \in Kits
        PROVE  Settled(chain, mem.contractMap, k) /\ Settled(chain, env, k)
    <3>1. Settled(chain, mem.contractMap, k)
      BY <1>2, SoundSettled DEF Sound, BookOk
    <3> QED
      BY <1>1, <1>3, <3>1 DEF Settled
  <2> QED
    BY <1>1, <2>1 DEF SettledOk
<1>10. InitialisedAsBuilt /\ SyncOk(happened, writer["main"], writer["liqYT"], mem, file)
  BY <1>1, <1>2, SyncedSelf DEF InitialisedAsBuilt, SyncOk
<1>11. FlatOk(happened, flat, file) /\ RecordOk(happened, finished, mem, file, writer["liqYT"])
  BY <1>1, <1>5 DEF FlatOk, RecordOk
<1> QED
  BY <1>6, <1>7, <1>8, <1>9, <1>10, <1>11 DEF BookInv

LEMMA BookNextHolds ==
  ASSUME BookInv, [BookNext]_bookVars
  PROVE  BookInv'
<1>1. Lone(writer', mem') /\ InitialisedAsBuilt'
  BY AloneStep, ChainStep
<1> QED
  BY <1>1, TypedStep, MainStep, LiqStep, MadeStep, ProgressStep, UnforcedStep, SettledStep, SyncStep,
     FlatStep, RecordStep DEF BookInv, Lone

\* The inductive invariant holds throughout a session.
THEOREM BookInvHolds == BookSpec => []BookInv
<1>1. BookInit => BookInv
  BY BookInitHolds
<1>2. BookInv /\ [BookNext]_bookVars => BookInv'
  BY BookNextHolds
<1> QED
  BY <1>1, <1>2, PTL DEF BookSpec

\* The book is well formed throughout.
LEMMA TypeFollows ==
  ASSUME BookInv
  PROVE  BookTypeOK
<1>1. /\ Typed /\ BookOk(chain, mem) /\ BookOk(chain, file) /\ EnvOk(chain, env, up)
      /\ JobOk(chain, job) /\ SavesOk(writer) /\ ChainOk(chain)
  BY DEF BookInv, Typed
<1>2. \A book \in Books : book.contractMap = mem.contractMap \/ book.contractMap = file.contractMap
  BY DEF Books
<1>3. \A book \in Books : \A n \in DOMAIN book.contractMap :
        book.contractMap[n] \in DOMAIN chain.deployed
  BY <1>1, <1>2 DEF BookOk, Named
<1>4. \A n \in DOMAIN env : env[n] \in DOMAIN chain.deployed
  BY <1>1 DEF EnvOk, Named
<1>5. ~up => ~Working /\ mem = file
  BY <1>1 DEF Typed
<1>6. Working => job.pc \in 1 .. Len(Recipe(job.op)) + 1 /\ job.made \in 0 .. Len(chain.deployed)
  <2>1. Len(chain.deployed) \in Nat /\ DOMAIN chain.deployed = 1 .. Len(chain.deployed)
    <3> DEFINE s == chain.deployed
               S == {s[i] : i \in DOMAIN s}
    <3>1. s \in Seq(S)
      BY <1>1 DEF ChainOk, IsChain
    <3> HIDE DEF s, S
    <3>2. Len(s) \in Nat /\ DOMAIN s = 1 .. Len(s)
      BY <3>1
    <3> QED
      BY <3>2 DEF s
  <2> QED
    BY <1>1, <2>1 DEF JobOk, IsJob, Working
<1>7. \A w \in DOMAIN writer : Busy(w) =>
        writer[w].phase \in {"info", "forges", "contracts", "write"}
  BY <1>1 DEF SavesOk, Busy, IsSave, Phases
<1>8. Busy("main") => Working
  BY DEF BookInv, MainOk, Busy, Working
<1> QED
  BY <1>3, <1>4, <1>5, <1>6, <1>7, <1>8 DEF BookTypeOK

\* The file and the chain agree, in every session: an address was built with
\* the addresses of its neighbours in the book, a listed forge is the booked
\* one, and an initialised contract serves a forge built on it.
THEOREM BookStaysConsistent == BookSpec => []BookIsConsistent
<1>1. ASSUME BookInv  PROVE BookIsConsistent
  <2>1. BookTypeOK /\ InitialisedAsBuilt
    BY <1>1, TypeFollows DEF BookInv
  <2>2. "forced" \in happened \/ (Linked(chain, file.contractMap) /\ ListedAsBuilt(chain, file))
    BY <1>1 DEF BookInv, UnforcedOk, Sound
  <2> QED
    BY <2>1, <2>2 DEF BookIsConsistent
<1> QED
  BY <1>1, BookInvHolds, PTL

\* What a function that returned has made is in the file, and the flattened
\* copy agrees with it, outside the incidents named.
THEOREM ReturnedStaysRecorded == BookSpec => []ReturnedIsRecorded
<1>1. ASSUME BookInv  PROVE ReturnedIsRecorded
  <2>1. FlatIsCurrent
    BY <1>1 DEF BookInv, FlatOk, FlatIsCurrent
  <2>2. ASSUME "failedWrite" \notin happened, "lostSave" \notin happened, NEW op \in finished
        PROVE  Recorded(op)
    <3>1. RecordedIn(file, writer["liqYT"], op)
      BY <1>1, <2>2 DEF BookInv, RecordOk
    <3>2. CASE op.kind = "deploy"
      BY <3>1, <3>2 DEF RecordedIn, Recorded
    <3>3. CASE op.kind \in {"newYield", "saveYield", "newMarket"}
      BY <3>1, <3>3 DEF RecordedIn, Recorded
    <3>4. CASE op.kind = "newLiqYT"
      <4>1. MiningIs(file, writer["liqYT"], LiqYT(op.id), op.id)
        BY <3>1, <3>4 DEF RecordedIn
      <4> QED
        BY <3>4, <4>1 DEF Recorded, MiningIs, InFlight, Busy
    <3>5. CASE op.kind = "newLiqOT"
      <4>1. Mined(file, LiqOT(op.id), op.id, "liqOTs")
        BY <3>1, <3>5 DEF RecordedIn
      <4> QED
        BY <3>5, <4>1 DEF Recorded, Mined
    <3>6. CASE op.kind = "newLiqJLP"
      <4>1. Mined(file, "LiqJLP", "TraderJoeComplex", "liqOTs")
        BY <3>1, <3>6 DEF RecordedIn
      <4> QED
        BY <3>6, <4>1 DEF Recorded, Mined
    <3>7. CASE op.kind \notin {"deploy", "newYield", "saveYield", "newMarket", "newLiqYT",
                               "newLiqOT", "newLiqJLP"}
      BY <3>7 DEF Recorded
    <3> QED
      BY <3>2, <3>3, <3>4, <3>5, <3>6, <3>7
  <2> QED
    BY <2>1, <2>2 DEF ReturnedIsRecorded
<1> QED
  BY <1>1, BookInvHolds, PTL

\* A mining contract in the book was built with the manager that env names.
LEMMA MiningIsReached ==
  ASSUME BookInv, up, "forced" \notin happened, NEW name, NEW id, NEW field \in {"liqYTs", "liqOTs"},
         name \in MiningNames, name \in DOMAIN mem.contractMap, id \in DOMAIN mem.forgeMap,
         mem.contractMap[name] \in mem.forgeMap[id][field]
  PROVE  \E a \in DOMAIN chain.deployed : /\ chain.deployed[a].name = name
           /\ \E m \in chain.deployed[a].uses : <<m, a>> \in PauseTargets
<1> DEFINE a == mem.contractMap[name]
<1>1. /\ a \in DOMAIN chain.deployed /\ chain.deployed[a].name = name
      /\ BuiltAsOrdered(chain) /\ Linked(chain, mem.contractMap)
      /\ PAUSE_LIQ \in DOMAIN env /\ env[PAUSE_LIQ] = mem.contractMap[PAUSE_LIQ]
  BY DEF BookInv, Typed, BookOk, Named, ChainOk, EnvOk, UnforcedOk, Sound
<1>2. PICK m \in chain.deployed[a].uses : chain.deployed[m].name = PAUSE_LIQ
  BY <1>1 DEF BuiltAsOrdered
<1>3. mem.contractMap[PAUSE_LIQ] = m
  BY <1>1, <1>2 DEF Linked
<1>4. <<env[PAUSE_LIQ], a>> \in PauseTargets
  BY DEF PauseTargets
<1> QED
  BY <1>1, <1>2, <1>3, <1>4

\* The transactions generated to pause everything reach every mining contract
\* that a returned function has made, by the manager it asks.
THEOREM PauseAlwaysReachesReturned == BookSpec => []PauseReachesReturned
<1>1. ASSUME BookInv  PROVE PauseReachesReturned
  <2>1. SUFFICES ASSUME up, "forced" \notin happened, "lostSave" \notin happened, NEW op \in finished
                 PROVE  Reached(op) \/ (op.kind = "newLiqYT" /\ Busy("liqYT"))
    BY DEF PauseReachesReturned
  <2>2. RecordedIn(mem, writer["liqYT"], op)
    BY <1>1, <2>1 DEF BookInv, RecordOk
  <2>3. CASE op.kind = "newLiqYT"
    <3>1. MiningIs(mem, writer["liqYT"], LiqYT(op.id), op.id)
      BY <2>2, <2>3 DEF RecordedIn
    <3>2. CASE InFlight(writer["liqYT"], op.id)
      BY <2>3, <3>2 DEF InFlight, Busy
    <3>3. CASE ~InFlight(writer["liqYT"], op.id)
      <4>1. /\ LiqYT(op.id) \in MiningNames /\ LiqYT(op.id) \in DOMAIN mem.contractMap
            /\ op.id \in DOMAIN mem.forgeMap
            /\ mem.contractMap[LiqYT(op.id)] \in mem.forgeMap[op.id]["liqYTs"]
        BY <3>1, <3>3 DEF MiningIs
      <4>2. \E a \in DOMAIN chain.deployed : /\ chain.deployed[a].name = LiqYT(op.id)
              /\ \E m \in chain.deployed[a].uses : <<m, a>> \in PauseTargets
        BY <1>1, <2>1, <4>1, MiningIsReached
      <4> QED
        BY <2>3, <4>2 DEF Reached, MiningOf
    <3> QED
      BY <3>2, <3>3
  <2>4. CASE op.kind = "newLiqOT"
    <3>1. Mined(mem, LiqOT(op.id), op.id, "liqOTs")
      BY <2>2, <2>4 DEF RecordedIn
    <3>2. \E a \in DOMAIN chain.deployed : /\ chain.deployed[a].name = LiqOT(op.id)
            /\ \E m \in chain.deployed[a].uses : <<m, a>> \in PauseTargets
      BY <1>1, <2>1, <3>1, MiningIsReached DEF Mined
    <3> QED
      BY <2>4, <3>2 DEF Reached, MiningOf
  <2>5. CASE op.kind = "newLiqJLP"
    <3>1. Mined(mem, "LiqJLP", "TraderJoeComplex", "liqOTs")
      BY <2>2, <2>5 DEF RecordedIn
    <3>2. \E a \in DOMAIN chain.deployed : /\ chain.deployed[a].name = "LiqJLP"
            /\ \E m \in chain.deployed[a].uses : <<m, a>> \in PauseTargets
      BY <1>1, <2>1, <3>1, MiningIsReached DEF Mined
    <3> QED
      BY <2>5, <3>2 DEF Reached, MiningOf
  <2>6. CASE op.kind \notin {"newLiqYT", "newLiqOT", "newLiqJLP"}
    BY <2>6 DEF Reached
  <2> QED
    BY <2>3, <2>4, <2>5, <2>6
<1> QED
  BY <1>1, BookInvHolds, PTL

-----------------------------------------------------------------------------
(***************************************************************************)
(* A forge that was not listed.                                            *)
(***************************************************************************)
LEMMA BooksGrow ==
  ASSUME BookInv, [BookNext]_bookVars
  PROVE  /\ mem' = file \/ Grows(mem, mem')
         /\ file' = file \/ file' = mem
<1>1. CASE (\E op \in world.ops : Call(op)) \/ Quiet
  BY <1>1, QuietForm, GrowsTrivially DEF Call
<1>2. CASE saveContract \/ saveNewForge
  BY <1>2, SavedForm, ListedForm DEF saveContract, saveNewForge
<1>3. CASE Info("main") \/ Info("liqYT")
  BY <1>3, InfoForm DEF Info
<1>4. CASE FetchContract \/ DeployContract \/ ReturnContract \/ StartNote \/ Transact
             \/ UNCHANGED bookVars
  BY <1>4, GrowsTrivially DEF FetchContract, DeployContract, ReturnContract, StartNote, Transact,
     bookVars
<1>5. ASSUME NEW w \in Threads, FlattenForges(w) \/ FlattenContracts(w) \/ Write(w) \/ FailSave(w)
                                  \/ CrashBetweenFiles(w)
      PROVE  Grows(mem, mem') /\ (file' = file \/ file' = mem)
  BY <1>5, GrowsTrivially DEF FlattenForges, FlattenContracts, Write, FailSave, CrashBetweenFiles
<1>6. CASE Crash \/ Restart
  BY <1>6 DEF Crash, Restart
<1>7. CASE InfoKnown
  BY <1>7, KnownForm DEF InfoKnown
<1> QED
  BY <1>1, <1>2, <1>3, <1>4, <1>5, <1>6, <1>7, BookNextCases DEF Threads

\* Only saveNewForge lists a forge, and for this one only within a DEPLOY of it.
LEMMA ListingIsDeploy ==
  ASSUME BookInv, saveNewForge, NEW k \in Kits, k.lists # "always", Step.id = k.id
  PROVE  job # NoJob /\ job.op = Op("deploy", k.id, "DEPLOY") /\ job.pc > 1
<1>1. /\ AtStep(job.pc) /\ Step.do = "saveNewForge" /\ (job.op.mode = "DEPLOY" \/ Step.always)
  BY ListedForm
<1>2. ListingIsOrdered(job.op, Recipe(job.op), job.pc) /\ Step = Recipe(job.op)[job.pc]
  BY <1>1 DEF AtStep, StepIsOrdered
<1>3. PICK l \in Kits :
        /\ Step.id = l.id /\ (Step.always <=> l.lists = "always")
        /\ Deployed(Recipe(job.op), job.pc, l.rm)
        /\ job.op.mode = "DEPLOY" => job.op = Op("deploy", l.id, "DEPLOY")
  BY <1>2 DEF ListingIsOrdered
<1>4. l = k
  BY <1>3, KitFacts
<1>5. job.pc \in Nat /\ \E j \in 1 .. job.pc - 1 : TRUE
  BY <1>1, <1>3 DEF AtStep, Deployed
<1> QED
  BY <1>1, <1>3, <1>4, <1>5 DEF AtStep

LEMMA ForgeMapStep ==
  ASSUME BookInv, [BookNext]_bookVars
  PROVE  \/ DOMAIN mem'.forgeMap \subseteq DOMAIN mem.forgeMap \cup DOMAIN file.forgeMap
         \/ saveNewForge /\ DOMAIN mem'.forgeMap = DOMAIN mem.forgeMap \cup {Step.id}
<1>1. CASE (\E op \in world.ops : Call(op)) \/ Quiet
  BY <1>1, QuietForm DEF Call
<1>2. CASE saveContract \/ saveNewForge
  BY <1>2, SavedForm, ListedForm DEF Saved, Listed
<1>3. CASE Info("main") \/ Info("liqYT")
  BY <1>3, InfoForm DEF AddedTo
<1>4. CASE FetchContract \/ DeployContract \/ ReturnContract \/ StartNote \/ Transact \/ InfoKnown
             \/ UNCHANGED bookVars
  BY <1>4, KnownForm DEF FetchContract, DeployContract, ReturnContract, StartNote, Transact, Overwritten,
     bookVars
<1>5. CASE \E w \in Threads : FlattenForges(w) \/ FlattenContracts(w) \/ Write(w) \/ FailSave(w)
                                \/ CrashBetweenFiles(w)
  BY <1>5 DEF FlattenForges, FlattenContracts, Write, FailSave, CrashBetweenFiles
<1>6. CASE Crash \/ Restart
  BY <1>6 DEF Crash, Restart
<1> QED
  BY <1>1, <1>2, <1>3, <1>4, <1>5, <1>6, BookNextCases DEF Threads

\* At the first step of a DEPLOY whose reward manager is booked: it is left by an exception only.
Barred(k) ==
  /\ job # NoJob => job.op # Op("deploy", k.id, "DEPLOY") \/ (job.pc = 1 /\ writer["main"] = Idle)
  /\ k.rm \in DOMAIN mem.contractMap

LEMMA BarredStep ==
  ASSUME BookInv, [BookNext]_bookVars, NEW k \in Kits, Barred(k), job' # NoJob,
         job'.op = Op("deploy", k.id, "DEPLOY")
  PROVE  job'.pc = 1 /\ writer'["main"] = Idle
<1>1. CASE \E op \in world.ops : Call(op)
  BY <1>1, CallForm DEF Call
<1> SUFFICES ASSUME ~\E op \in world.ops : Call(op)
             PROVE  job'.pc = 1 /\ writer'["main"] = Idle
  BY <1>1
<1>2. ASSUME job # NoJob, job.op = Op("deploy", k.id, "DEPLOY")
      PROVE  /\ job.pc = 1 /\ writer["main"] = Idle /\ Step.do = "contract" /\ Step.name = k.rm
             /\ job.op.mode = "DEPLOY"
  <2>1. job.pc = 1 /\ writer["main"] = Idle
    BY <1>2 DEF Barred
  <2>2. job.op \in Calls /\ job.op.kind = "deploy" /\ job.op.id = k.id /\ job.op.mode = "DEPLOY"
    BY <1>2 DEF BookInv, Typed, JobOk, IsJob, Op
  <2>3. Records(job.op, Recipe(job.op)) /\ KitOf(job.op.id) = k
    BY <2>2, RecipeFacts, KitFacts
  <2>4. Recipe(job.op)[1].do = "contract" /\ Recipe(job.op)[1].name = k.rm
    BY <2>2, <2>3 DEF Records
  <2> QED
    BY <2>1, <2>2, <2>4 DEF Step
<1>3. ASSUME job # NoJob, job'.op = job.op
      PROVE  /\ job.pc = 1 /\ writer["main"] = Idle /\ Step.do = "contract" /\ Step.name = k.rm
             /\ job.op.mode = "DEPLOY"
  BY <1>2, <1>3
<1>4. CASE UNCHANGED <<job, writer>>
  BY <1>3, <1>4
<1>5. CASE Quiet
  BY <1>3, <1>5, QuietForm DEF Advanced, AtStep
<1>6. CASE FetchContract \/ ReturnContract \/ Transact
  BY <1>3, <1>6, FetchForm, ReturnForm, TransactForm DEF Advanced, AtStep, Transactions
<1>7. CASE DeployContract
  BY <1>3, <1>7, Built, ReadyFacts DEF DeployContract, AtContract, AtStep
<1>8. CASE saveContract
  <2>1. job' = job /\ job # NoJob
    BY <1>8, SavedForm DEF saveContract, AtStep
  <2> QED
    BY <1>3, <1>8, <2>1, SavedForm DEF Barred
<1>9. CASE saveNewForge
  <2>1. job' = job /\ job # NoJob
    BY <1>9, ListedForm DEF saveNewForge, AtStep
  <2> QED
    BY <1>3, <1>9, <2>1, ListedForm
<1>10. CASE StartNote
  <2>1. AtStep(job.pc) /\ Step.do \in Notes
    BY <1>10, ReadyFacts DEF StartNote, AtNote
  <2>2. job # NoJob /\ job'.op = job.op
    <3>1. job' = job \/ Advanced(job, job')
      BY <1>10, StartForm DEF Threads, WriterOf
    <3> QED
      BY <2>1, <3>1 DEF AtStep, Advanced
  <2> QED
    BY <1>3, <2>1, <2>2 DEF Notes
<1>11. CASE InfoKnown \/ Write("main")
  BY <1>3, <1>11, KnownForm, WriteMainForm DEF Advanced
<1>12. CASE Info("main") \/ FlattenForges("main") \/ FlattenContracts("main")
  <2>1. job' = job /\ writer["main"] # Idle
    BY <1>12 DEF Info, FlattenForges, FlattenContracts, Busy
  <2>2. job # NoJob
    BY <2>1
  <2> QED
    BY <1>3, <2>1, <2>2
<1>13. CASE Info("liqYT") \/ FlattenForges("liqYT") \/ FlattenContracts("liqYT")
  <2>1. job' = job /\ Typed
    BY <1>13 DEF Info, FlattenForges, FlattenContracts, BookInv
  <2>2. writer'["main"] = writer["main"]
    BY <1>13, <2>1, InfoForm, FlattenForgesForm, FlattenContractsForm DEF WentOn
  <2> QED
    BY <1>3, <2>1, <2>2
<1>14. CASE Write("liqYT") \/ FailSave("liqYT")
  <2>1. job' = job /\ Typed
    BY <1>14 DEF Write, Resume, FailSave, BookInv
  <2>2. writer'["main"] = writer["main"]
    BY <1>14, <2>1, ClosedForm DEF Closed, Write, FailSave
  <2> QED
    BY <1>3, <2>1, <2>2
<1>15. CASE FailSave("main") \/ Crash \/ \E w \in Threads : CrashBetweenFiles(w)
  BY <1>15 DEF FailSave, Crash, CrashBetweenFiles
<1>16. CASE Restart \/ UNCHANGED bookVars
  BY <1>4, <1>16 DEF Restart, bookVars
<1> QED
  BY <1>5, <1>6, <1>7, <1>8, <1>9, <1>10, <1>11, <1>12, <1>13, <1>14, <1>15, <1>16, BookNextCases
     DEF Threads

\* A forge whose deployment stopped between its reward manager and its listing
\* is never listed again, whatever the operator calls.
THEOREM UnlistedForgesStayUnlisted == BookSpec => UnlistedStaysUnlisted
<1>1. ASSUME BookInv, [BookNext]_bookVars, NEW k \in Kits, Unlisted(k), k.lists # "always"
      PROVE  Unlisted(k)'
  <2>1. /\ k.rm \in DOMAIN file.contractMap /\ k.rm \in DOMAIN mem.contractMap
        /\ k.id \notin DOMAIN file.forgeMap /\ k.id \notin DOMAIN mem.forgeMap
    BY <1>1 DEF Unlisted
  <2>2. Barred(k) /\ (job # NoJob /\ job.op = Op("deploy", k.id, "DEPLOY") => ~(job.pc > 1))
    <3>1. job # NoJob => job.pc \in Nat /\ job.pc >= 1
      BY <1>1, RecipeFacts DEF BookInv, Typed, JobOk, IsJob
    <3> QED
      BY <1>1, <2>1, <3>1 DEF Unlisted, Barred, Working, Busy
  <2>3. k.rm \in DOMAIN mem'.contractMap /\ k.rm \in DOMAIN file'.contractMap
    BY <1>1, <2>1, BooksGrow DEF Grows
  <2>4. k.id \notin DOMAIN mem'.forgeMap
    <3>1. CASE saveNewForge /\ DOMAIN mem'.forgeMap = DOMAIN mem.forgeMap \cup {Step.id}
      BY <1>1, <2>1, <2>2, <3>1, ListingIsDeploy
    <3> QED
      BY <1>1, <2>1, <3>1, ForgeMapStep
  <2>5. k.id \notin DOMAIN file'.forgeMap
    BY <1>1, <2>1, BooksGrow
  <2>6. ~(job' # NoJob /\ job'.op = Op("deploy", k.id, "DEPLOY")
            /\ (job'.pc > 1 \/ writer'["main"] # Idle))
    BY <1>1, <2>2, BarredStep
  <2> QED
    BY <2>3, <2>4, <2>5, <2>6 DEF Unlisted, Working, Busy
<1>2. ASSUME BookInv, [BookNext]_bookVars
      PROVE  [\A k \in {KitOf(id) : id \in world.kits} :
                Unlisted(k) /\ k.lists # "always" => Unlisted(k)']_bookVars
  <2>1. \A id \in world.kits : KitOf(id) \in Kits
    <3>1. world.kits \subseteq KitIds
      BY <1>2, WorldFacts DEF BookInv, Typed
    <3> QED
      BY <3>1, KitFacts DEF KitIds
  <2> QED
    BY <1>1, <1>2, <2>1
<1> QED
  BY <1>2, BookInvHolds, PTL DEF BookSpec, UnlistedStaysUnlisted

-----------------------------------------------------------------------------

USE TimeAssumption, BoundAssumption

(* The sums of the model are those of module Sums.                         *)
LEMMA SumOverIs == \A f : SumOver(f) = SumIn(f, DOMAIN f)
BY DEF SumOver, SumIn

-----------------------------------------------------------------------------
(* Epochs and time.                                                        *)

(* Integer division. *)
LEMMA ProductMonotone ==
    ASSUME NEW a \in Int, NEW b \in Int, a <= b, NEW c \in Nat
    PROVE  a * c <= b * c
OBVIOUS

LEMMA TimesZero == \A a \in Nat : a * 0 = 0
OBVIOUS

LEMMA StartType == \A e \in Int : StartOf(e) \in Int /\ EndOf(e) \in Int
BY DEF StartOf, EndOf

LEMMA EpochLength == ASSUME NEW e \in Int PROVE EndOf(e) = StartOf(e) + EpochDuration
<1>1. e * EpochDuration = (e - 1) * EpochDuration + EpochDuration
  OBVIOUS
<1> QED
  BY <1>1 DEF StartOf, EndOf

(* An epoch ends when the next one starts, and later ones start later. *)
LEMMA EpochOrder ==
    ASSUME NEW i \in Int, NEW j \in Int, i < j
    PROVE  EndOf(i) <= StartOf(j) /\ EndOf(i) < EndOf(j)
<1>1. i * EpochDuration <= (j - 1) * EpochDuration
  BY ProductMonotone
<1>2. j * EpochDuration = (j - 1) * EpochDuration + EpochDuration
  OBVIOUS
<1> QED
  BY <1>1, <1>2 DEF StartOf, EndOf

(* The first epoch starts at StartTime. *)
LEMMA FirstEpoch == ASSUME NEW i \in Nat \ {0} PROVE StartOf(i) >= StartTime /\ EndOf(i) > 0
<1>1. 0 * EpochDuration <= (i - 1) * EpochDuration /\ 0 * EpochDuration <= i * EpochDuration
  BY ProductMonotone
<1> QED
  BY <1>1 DEF StartOf, EndOf

(* A time lies in its epoch. *)
LEMMA EpochBounds ==
    ASSUME NEW t \in Nat
    PROVE  /\ EpochOf(t) \in Nat
           /\ t < StartTime => EpochOf(t) = 0
           /\ t >= StartTime => /\ EpochOf(t) >= 1
                                /\ StartOf(EpochOf(t)) <= t
                                /\ t < EndOf(EpochOf(t))
<1>1. CASE t < StartTime
  BY <1>1 DEF EpochOf
<1>2. CASE t >= StartTime
  <2> DEFINE q == (t - StartTime) \div EpochDuration
  <2>1. q \in Nat /\ q * EpochDuration <= t - StartTime
        /\ t - StartTime < q * EpochDuration + EpochDuration
    BY <1>2, DivisionDef
  <2>2. EpochOf(t) = q + 1
    BY <1>2 DEF EpochOf
  <2> HIDE DEF q
  <2>3. (q + 1) * EpochDuration = q * EpochDuration + EpochDuration
    BY <2>1
  <2> QED
    BY <1>2, <2>1, <2>2, <2>3 DEF StartOf, EndOf
<1> QED
  BY <1>1, <1>2

(* An epoch has begun when it is not after the running one. *)
LEMMA BegunOrNot ==
    ASSUME NEW t \in Nat, NEW e \in Nat \ {0}
    PROVE  /\ e <= EpochOf(t) <=> StartOf(e) <= t
           /\ e < EpochOf(t) <=> EndOf(e) <= t
<1>1. CASE t < StartTime
  <2>1. EpochOf(t) = 0 /\ StartOf(e) > t
    BY <1>1, EpochBounds, FirstEpoch, StartType
  <2>2. EndOf(e) > t
    BY <2>1, EpochLength, StartType
  <2> QED
    BY <2>1, <2>2, StartType
<1>2. CASE t >= StartTime
  <2> DEFINE c == EpochOf(t)
  <2>1. c \in Nat /\ StartOf(c) <= t /\ t < EndOf(c)
    BY <1>2, EpochBounds
  <2>2. CASE e < c
    <3>1. EndOf(e) <= StartOf(c)
      BY <2>1, <2>2, EpochOrder
    <3>2. EndOf(e) = StartOf(e) + EpochDuration
      BY EpochLength
    <3> QED
      BY <2>1, <2>2, <3>1, <3>2, StartType DEF c
  <2>3. CASE e = c
    BY <2>1, <2>3, StartType DEF c
  <2>4. CASE e > c
    <3>1. EndOf(c) <= StartOf(e) /\ EndOf(c) < EndOf(e)
      BY <2>1, <2>4, EpochOrder
    <3> QED
      BY <2>1, <2>4, <3>1, StartType DEF c
  <2> QED
    BY <2>1, <2>2, <2>3, <2>4 DEF c
<1> QED
  BY <1>1, <1>2

-----------------------------------------------------------------------------
(* Units of an epoch.                                                      *)
Length(t, since, e) == LargerOf(0, SmallerOf(t, EndOf(e)) - LargerOf(since, StartOf(e)))

LEMMA UnitsAre == \A amount, since, e : Units(amount, since, e) = amount * Length(now, since, e)
BY DEF Units, Length

(* A second counts in the running epoch, in no other. *)
LEMMA LengthGrows ==
    ASSUME NEW t \in Nat, NEW since \in 0..t, NEW e \in Nat \ {0}
    PROVE  /\ Length(t, since, e) \in Nat
           /\ Length(t + 1, since, e)
                = Length(t, since, e) + IF e = EpochOf(t) THEN 1 ELSE 0
<1>1. /\ e <= EpochOf(t) <=> StartOf(e) <= t
      /\ e < EpochOf(t) <=> EndOf(e) <= t
  BY BegunOrNot
<1>2. EpochOf(t) \in Nat /\ StartOf(e) \in Int /\ EndOf(e) \in Int
  BY EpochBounds, StartType
<1>3. StartOf(e) <= EndOf(e)
  BY EpochLength, StartType
<1> QED
  BY <1>1, <1>2, <1>3 DEF Length, LargerOf, SmallerOf

(* Nothing more comes to an epoch that has not begun, nor to one that is   *)
(* up to date, be it until now or until its end.                           *)
LEMMA LengthZero ==
    ASSUME NEW t \in Nat, NEW since \in Nat, NEW e \in Nat \ {0},
           e > EpochOf(t) \/ since = t \/ since = EndOf(e)
    PROVE  Length(t, since, e) = 0
<1>1. e > EpochOf(t) => StartOf(e) > t
  BY BegunOrNot, EpochBounds, StartType
<1>2. StartOf(e) \in Int /\ EndOf(e) \in Int
  BY StartType
<1> QED
  BY <1>1, <1>2 DEF Length, LargerOf, SmallerOf

-----------------------------------------------------------------------------
(* The inductive invariant about totals.                                   *)

(* All epochs that had begun were brought up to date at T, the others      *)
(* never.                                                                  *)
UpToDate(T) ==
    \A e \in Epoch :
        lastUpdated[e] = IF e <= numberOfEpochs /\ e <= EpochOf(T)
                         THEN SmallerOf(T, EndOf(e)) ELSE 0

TotalsTyped ==
    /\ now \in Nat /\ numberOfEpochs \in 0..MaxEpochs /\ totalStake \in Nat
    /\ totalStakeUnits \in [Epoch -> Nat] /\ lastUpdated \in [Epoch -> Nat]

NothingBefore ==
    \A e \in Epoch : e > numberOfEpochs \/ e > CurEpoch => totalStakeUnits[e] = 0

TInv == TotalsTyped /\ NothingBefore /\ \E T \in 0..now : UpToDate(T)

LEMMA EpochMonotone ==
    ASSUME NEW s \in Nat, NEW t \in Nat, s <= t
    PROVE  EpochOf(s) <= EpochOf(t)
<1>1. EpochOf(s) \in Nat /\ EpochOf(t) \in Nat
  BY EpochBounds
<1>2. CASE EpochOf(s) = 0
  BY <1>1, <1>2
<1>3. CASE EpochOf(s) # 0
  <2>1. StartOf(EpochOf(s)) <= s
    BY <1>1, <1>3, BegunOrNot
  <2>2. StartOf(EpochOf(s)) <= t
    BY <1>1, <2>1, StartType
  <2> QED
    BY <1>1, <1>3, <2>2, BegunOrNot
<1> QED
  BY <1>2, <1>3

(* What the loop leaves behind: it reaches every epoch that is behind.     *)
LEMMA LoopReachesAll ==
    ASSUME TInv, NEW e \in Epoch
    PROVE  /\ UpdatedAt(e) = IF e <= numberOfEpochs /\ e <= CurEpoch
                             THEN SmallerOf(now, EndOf(e)) ELSE 0
           /\ e <= LastLive /\ ~Refreshed(e) => lastUpdated[e] = EndOf(e)
           /\ lastUpdated[e] \in 0..now
<1>1. PICK T \in 0..now : UpToDate(T)
  BY DEF TInv
<1>2. /\ now \in Nat /\ T \in Nat /\ numberOfEpochs \in Nat /\ e \in Nat \ {0}
      /\ EpochOf(T) \in Nat /\ CurEpoch \in Nat /\ EpochOf(T) <= CurEpoch
      /\ LastLive \in Nat /\ Epoch \subseteq Nat \ {0}
  <2>1. now \in Nat /\ T \in Nat /\ numberOfEpochs \in Nat /\ e \in Nat \ {0}
    BY <1>1 DEF TInv, TotalsTyped, Epoch
  <2>2. EpochOf(T) \in Nat /\ CurEpoch \in Nat /\ EpochOf(T) <= CurEpoch
    BY <1>1, <2>1, EpochBounds, EpochMonotone DEF CurEpoch
  <2> QED
    BY <2>1, <2>2 DEF LastLive, SmallerOf, Epoch
<1>3. e <= LastLive <=> e <= numberOfEpochs /\ e <= CurEpoch
  BY <1>2 DEF LastLive, SmallerOf
<1>4. EndOf(e) \in Nat \ {0}
  BY <1>2, StartType, FirstEpoch
<1>5. lastUpdated[e] = IF e <= numberOfEpochs /\ e <= EpochOf(T)
                       THEN SmallerOf(T, EndOf(e)) ELSE 0
  BY <1>1 DEF UpToDate
<1>6. e <= LastLive /\ ~Refreshed(e) => lastUpdated[e] = EndOf(e) /\ now >= EndOf(e)
  <2> SUFFICES ASSUME e <= LastLive, ~Refreshed(e)
               PROVE  lastUpdated[e] = EndOf(e) /\ now >= EndOf(e)
    OBVIOUS
  <2>1. PICK i \in e..LastLive : lastUpdated[i] = EndOf(i)
    BY DEF Refreshed
  <2>2. i \in Nat \ {0} /\ i \in Epoch /\ e <= i /\ i <= LastLive
    <3>1. LastLive <= MaxEpochs
      BY <1>2 DEF LastLive, SmallerOf, TInv, TotalsTyped
    <3> QED
      BY <1>2, <2>1, <3>1 DEF Epoch
  <2>3. EndOf(i) \in Nat \ {0}
    BY <2>2, StartType, FirstEpoch
  <2>4. i <= EpochOf(T) /\ EndOf(i) = SmallerOf(T, EndOf(i))
    BY <1>1, <2>1, <2>2, <2>3 DEF UpToDate
  <2>5. EndOf(i) <= T
    BY <1>2, <2>3, <2>4 DEF SmallerOf
  <2>6. EndOf(e) <= EndOf(i)
    BY <1>2, <1>4, <2>2, <2>3, EpochOrder
  <2> QED
    BY <1>1, <1>2, <1>3, <1>4, <1>5, <2>2, <2>3, <2>4, <2>5, <2>6 DEF SmallerOf
<1>7. e > LastLive => ~Refreshed(e) /\ lastUpdated[e] = 0
  BY <1>2, <1>3, <1>5 DEF Refreshed
<1>8. lastUpdated[e] \in 0..now
  BY <1>1, <1>2, <1>4, <1>5 DEF SmallerOf
<1> QED
  BY <1>2, <1>3, <1>4, <1>6, <1>7, <1>8 DEF UpdatedAt, SmallerOf

(* What the ledger says is what an update would store, and what is stored  *)
(* then is not to be added again.                                          *)
LEMMA UpdateStoresTotals ==
    ASSUME TInv, NEW e \in Epoch
    PROVE  /\ TotalUnits(e) \in Nat
           /\ LedgerTotal(e) = IF e > numberOfEpochs THEN 0 ELSE TotalUnits(e)
           /\ e > numberOfEpochs \/ e > CurEpoch => TotalUnits(e) = 0
           /\ e <= numberOfEpochs => Length(now, UpdatedAt(e), e) = 0
<1>1. /\ now \in Nat /\ numberOfEpochs \in Nat /\ e \in Nat \ {0} /\ CurEpoch \in Nat
      /\ totalStake \in Nat /\ totalStakeUnits[e] \in Nat /\ EndOf(e) \in Nat
  <2>1. now \in Nat /\ numberOfEpochs \in Nat /\ e \in Nat \ {0}
        /\ totalStake \in Nat /\ totalStakeUnits[e] \in Nat
    BY DEF TInv, TotalsTyped, Epoch
  <2> QED
    BY <2>1, EpochBounds, StartType, FirstEpoch DEF CurEpoch
<1>2. lastUpdated[e] \in 0..now
  BY LoopReachesAll
<1>3. Length(now, lastUpdated[e], e) \in Nat
  BY <1>1, <1>2, LengthGrows
<1>4. totalStake * Length(now, lastUpdated[e], e) \in Nat
  BY <1>1, <1>3
<1>5. e <= LastLive <=> e <= numberOfEpochs /\ e <= CurEpoch
  BY <1>1 DEF LastLive, SmallerOf
<1>6. e <= LastLive /\ ~Refreshed(e) => Length(now, lastUpdated[e], e) = 0
  BY <1>1, <1>2, LoopReachesAll, LengthZero
<1>7. e > CurEpoch => Length(now, lastUpdated[e], e) = 0
  BY <1>1, <1>2, LengthZero DEF CurEpoch
<1>8. e > LastLive => ~Refreshed(e)
  BY <1>1 DEF Refreshed, LastLive, SmallerOf
<1>9. totalStake * 0 = 0
  BY <1>1
<1>10. LedgerTotal(e) = IF e > numberOfEpochs THEN 0 ELSE TotalUnits(e)
  <2> DEFINE more == totalStake * Length(now, lastUpdated[e], e)
  <2>1. LedgerTotal(e) = IF e > numberOfEpochs THEN 0 ELSE totalStakeUnits[e] + more
    BY UnitsAre DEF LedgerTotal
  <2>2. TotalUnits(e) = totalStakeUnits[e] + IF Refreshed(e) THEN more ELSE 0
    BY UnitsAre DEF TotalUnits
  <2>3. e <= numberOfEpochs /\ ~Refreshed(e) => more = 0
    BY <1>1, <1>5, <1>6, <1>7, <1>9
  <2> HIDE DEF more
  <2> QED
    BY <1>1, <2>1, <2>2, <2>3
<1>11. TotalUnits(e) \in Nat
  BY <1>1, <1>4, UnitsAre DEF TotalUnits
<1>12. e > numberOfEpochs \/ e > CurEpoch => TotalUnits(e) = 0
  <2> SUFFICES ASSUME e > numberOfEpochs \/ e > CurEpoch
               PROVE  TotalUnits(e) = 0
    OBVIOUS
  <2>1. ~Refreshed(e)
    BY <1>1, <1>5, <1>8 DEF LastLive, SmallerOf
  <2>2. totalStakeUnits[e] = 0
    BY DEF TInv, NothingBefore
  <2> QED
    BY <2>1, <2>2 DEF TotalUnits
<1>13. e <= numberOfEpochs => Length(now, UpdatedAt(e), e) = 0
  <2>1. UpdatedAt(e) = IF e <= numberOfEpochs /\ e <= CurEpoch
                       THEN SmallerOf(now, EndOf(e)) ELSE 0
    BY LoopReachesAll
  <2> QED
    BY <1>1, <2>1, LengthZero DEF SmallerOf, CurEpoch
<1> QED
  BY <1>10, <1>11, <1>12, <1>13

LEMMA TotalsInit == Init => TInv
<1> SUFFICES ASSUME Init PROVE TInv
  OBVIOUS
<1>1. TotalsTyped /\ NothingBefore
  BY DEF Init, TotalsTyped, NothingBefore, Epoch
<1>2. UpToDate(0) /\ 0 \in 0..now
  <2>1. EpochOf(0) = 0
    BY EpochBounds
  <2> QED
    BY <2>1 DEF Init, UpToDate, Epoch
<1> QED
  BY <1>1, <1>2 DEF TInv

(* An operation that runs the loop, whatever it does to the stake. *)
LEMMA UpdateKeepsTotals ==
    ASSUME TInv, NEW u, NEW claimed, UpdatePendingRewards(u, claimed),
           UNCHANGED <<now, numberOfEpochs>>, totalStake' \in Nat
    PROVE  TInv' /\ \A e \in Epoch : LedgerTotal(e)' = LedgerTotal(e)
<1>1. /\ totalStakeUnits' = [e \in Epoch |-> TotalUnits(e)]
      /\ lastUpdated' = [e \in Epoch |-> UpdatedAt(e)]
  BY DEF UpdatePendingRewards
<1>2. now \in Nat /\ numberOfEpochs \in 0..MaxEpochs /\ CurEpoch' = CurEpoch
  BY DEF TInv, TotalsTyped, CurEpoch
<1>3. \A e \in Epoch : UpdatedAt(e) \in Nat
  <2> SUFFICES ASSUME NEW e \in Epoch PROVE UpdatedAt(e) \in Nat
    OBVIOUS
  <2>1. EndOf(e) \in Nat
    BY StartType, FirstEpoch DEF Epoch
  <2> QED
    BY <1>2, <2>1, LoopReachesAll DEF SmallerOf
<1>4. TotalsTyped'
  BY <1>1, <1>2, <1>3, UpdateStoresTotals DEF TotalsTyped
<1>5. NothingBefore'
  BY <1>1, <1>2, UpdateStoresTotals DEF NothingBefore
<1>6. TInv'
  <2>1. \E T \in 0..now' : UpToDate(T)'
    <3>1. now' = now
      OBVIOUS
    <3> QED
      BY <1>1, <1>2, <3>1, LoopReachesAll DEF UpToDate, CurEpoch
  <2> QED
    BY <1>4, <1>5, <2>1 DEF TInv
<1>7. ASSUME NEW e \in Epoch PROVE LedgerTotal(e)' = LedgerTotal(e)
  <2>1. LedgerTotal(e) = IF e > numberOfEpochs THEN 0 ELSE TotalUnits(e)
    BY UpdateStoresTotals
  <2>2. LedgerTotal(e)' = IF e > numberOfEpochs THEN 0
                          ELSE TotalUnits(e) + totalStake' * Length(now, UpdatedAt(e), e)
    BY <1>1, UnitsAre DEF LedgerTotal, Units, Length
  <2>3. e <= numberOfEpochs => Length(now, UpdatedAt(e), e) = 0
    BY UpdateStoresTotals
  <2>4. totalStake' * 0 = 0
    <3>1. PICK stake \in Nat : stake = totalStake'
      OBVIOUS
    <3>2. stake * 0 = 0
      BY <3>1, TimesZero, Zenon
    <3> QED
      BY <3>1, <3>2
  <2>5. TotalUnits(e) \in Nat
    BY UpdateStoresTotals
  <2>6. e \in Nat
    BY DEF Epoch
  <2> QED
    BY <1>2, <2>1, <2>2, <2>3, <2>4, <2>5, <2>6
<1> QED
  BY <1>6, <1>7

(* A new epoch has not begun, so it has no units. *)
LEMMA FundKeepsTotals ==
    ASSUME TInv, NEW reward, Fund(reward)
    PROVE  TInv' /\ \A e \in Epoch : LedgerTotal(e)' = LedgerTotal(e)
<1>1. /\ now \in Nat /\ numberOfEpochs \in Nat /\ CurEpoch \in Nat
      /\ CurEpoch <= numberOfEpochs /\ numberOfEpochs' = numberOfEpochs + 1
      /\ numberOfEpochs' <= MaxEpochs
      /\ UNCHANGED <<now, totalStake, totalStakeUnits, lastUpdated>> /\ CurEpoch' = CurEpoch
  BY EpochBounds DEF Fund, TInv, TotalsTyped, CurEpoch, unitVars, stakeVars
<1>2. TotalsTyped'
  BY <1>1 DEF TInv, TotalsTyped
<1>3. NothingBefore'
  BY <1>1 DEF TInv, NothingBefore, Epoch
<1>4. PICK T \in 0..now : UpToDate(T)
  BY DEF TInv
<1>5. T \in Nat /\ EpochOf(T) \in Nat /\ EpochOf(T) <= CurEpoch
  BY <1>1, <1>4, EpochBounds, EpochMonotone DEF CurEpoch
<1>6. UpToDate(T)'
  BY <1>1, <1>4, <1>5 DEF UpToDate, Epoch
<1>7. TInv'
  BY <1>1, <1>2, <1>3, <1>4, <1>6 DEF TInv
<1>8. ASSUME NEW e \in Epoch PROVE LedgerTotal(e)' = LedgerTotal(e)
  <2>1. LedgerTotal(e)' = IF e > numberOfEpochs + 1 THEN 0
                          ELSE totalStakeUnits[e] + Units(totalStake, lastUpdated[e], e)
    BY <1>1 DEF LedgerTotal, Units
  <2>2. CASE e # numberOfEpochs + 1
    BY <1>1, <2>1, <2>2 DEF LedgerTotal, Epoch
  <2>3. CASE e = numberOfEpochs + 1
    <3>1. totalStakeUnits[e] = 0
      BY <1>1, <2>3 DEF TInv, NothingBefore
    <3>2. Length(now, lastUpdated[e], e) = 0
      <4>1. e \in Nat \ {0} /\ lastUpdated[e] \in Nat
        BY DEF Epoch, TInv, TotalsTyped
      <4> QED
        BY <1>1, <2>3, <4>1, LengthZero DEF CurEpoch
    <3>3. totalStake * 0 = 0
      BY DEF TInv, TotalsTyped
    <3> QED
      BY <1>1, <2>1, <2>3, <3>1, <3>2, <3>3, UnitsAre DEF LedgerTotal
  <2> QED
    BY <2>2, <2>3
<1> QED
  BY <1>7, <1>8

(* A second counts once, in the running epoch. *)
LEMMA TickCounts ==
    ASSUME TInv, Tick
    PROVE  TInv' /\ \A e \in Epoch :
              LedgerTotal(e)' = LedgerTotal(e)
                + IF e = CurEpoch /\ e <= numberOfEpochs THEN totalStake ELSE 0
<1>1. /\ now \in Nat /\ numberOfEpochs \in Nat /\ totalStake \in Nat /\ now' = now + 1
      /\ UNCHANGED <<numberOfEpochs, totalStake, totalStakeUnits, lastUpdated>>
  BY DEF Tick, TInv, TotalsTyped, fundVars, unitVars, stakeVars
<1>2. CurEpoch \in Nat /\ CurEpoch' \in Nat /\ CurEpoch <= CurEpoch'
  BY <1>1, EpochBounds, EpochMonotone DEF CurEpoch
<1>3. TotalsTyped' /\ NothingBefore'
  BY <1>1, <1>2 DEF TInv, TotalsTyped, NothingBefore, Epoch
<1>4. PICK T \in 0..now : UpToDate(T)
  BY DEF TInv
<1>5. T \in 0..now' /\ UpToDate(T)'
  BY <1>1, <1>4 DEF UpToDate
<1>6. TInv'
  BY <1>3, <1>5 DEF TInv
<1>7. ASSUME NEW e \in Epoch
      PROVE  LedgerTotal(e)' = LedgerTotal(e)
               + IF e = CurEpoch /\ e <= numberOfEpochs THEN totalStake ELSE 0
  <2> DEFINE length == Length(now, lastUpdated[e], e)
  <2>1. e \in Nat \ {0} /\ totalStakeUnits[e] \in Nat /\ lastUpdated[e] \in 0..now
    BY LoopReachesAll DEF Epoch, TInv, TotalsTyped
  <2>2. /\ length \in Nat
        /\ Length(now + 1, lastUpdated[e], e) = length + IF e = CurEpoch THEN 1 ELSE 0
    BY <1>1, <2>1, LengthGrows DEF CurEpoch
  <2>3. LedgerTotal(e) = IF e > numberOfEpochs THEN 0
                         ELSE totalStakeUnits[e] + totalStake * length
    BY UnitsAre DEF LedgerTotal
  <2>4. LedgerTotal(e)' = IF e > numberOfEpochs THEN 0
                          ELSE totalStakeUnits[e]
                               + totalStake * Length(now + 1, lastUpdated[e], e)
    BY <1>1 DEF LedgerTotal, Units, Length
  <2> HIDE DEF length
  <2>5. totalStake * (length + 1) = totalStake * length + totalStake
        /\ totalStake * (length + 0) = totalStake * length /\ totalStake * length \in Nat
    BY <1>1, <2>2
  <2>6. CASE e = CurEpoch
    BY <1>1, <2>1, <2>2, <2>3, <2>4, <2>5, <2>6
  <2>7. CASE e # CurEpoch
    BY <1>1, <2>1, <2>2, <2>3, <2>4, <2>5, <2>7
  <2> QED
    BY <2>6, <2>7
<1> QED
  BY <1>6, <1>7

(* The other operations leave the clock, the epochs and the units alone. *)
LEMMA OthersKeepTotals ==
    ASSUME TInv,
           UNCHANGED <<now, numberOfEpochs, totalStake, totalStakeUnits, lastUpdated>>
    PROVE  TInv' /\ \A e \in Epoch : LedgerTotal(e)' = LedgerTotal(e)
BY DEF TInv, TotalsTyped, NothingBefore, UpToDate, CurEpoch, LedgerTotal, Units

TotalsStep ==
    \A e \in Epoch :
        LedgerTotal(e)' = LedgerTotal(e)
          + IF now' # now /\ e = CurEpoch /\ e <= numberOfEpochs THEN totalStake ELSE 0

LEMMA LedgerTotalType == TInv => \A e \in Epoch : LedgerTotal(e) \in Nat
BY UpdateStoresTotals DEF LedgerTotal

LEMMA NextTotals == TInv /\ [Next]_vars => TInv' /\ TotalsStep
<1> SUFFICES ASSUME TInv, [Next]_vars PROVE TInv' /\ TotalsStep
  OBVIOUS
<1>0. ASSUME TInv', now' = now, \A e \in Epoch : LedgerTotal(e)' = LedgerTotal(e)
      PROVE  TInv' /\ TotalsStep
  BY <1>0, LedgerTotalType DEF TotalsStep
<1>1. ASSUME NEW u \in User, NEW amount \in 1..MaxStake, Stake(u, amount)
      PROVE  TInv' /\ TotalsStep
  <2>1. totalStake' \in Nat
    BY <1>1 DEF Stake, TInv, TotalsTyped
  <2> QED
    BY <1>0, <1>1, <2>1, UpdateKeepsTotals DEF Stake, fundVars
<1>2. ASSUME NEW u \in User, NEW amount \in 1..MaxStake, Withdraw(u, amount)
      PROVE  TInv' /\ TotalsStep
  <2>1. totalStake' \in Nat
    BY <1>2 DEF Withdraw, TInv, TotalsTyped
  <2> QED
    BY <1>0, <1>2, <2>1, UpdateKeepsTotals DEF Withdraw, fundVars
<1>3. ASSUME NEW u \in User, RedeemRewards(u)
      PROVE  TInv' /\ TotalsStep
  <2>1. totalStake' \in Nat
    BY <1>3 DEF RedeemRewards, stakeVars, TInv, TotalsTyped
  <2> QED
    BY <1>0, <1>3, <2>1, UpdateKeepsTotals DEF RedeemRewards, fundVars
<1>4. ASSUME NEW u \in User, UpdateAndReadEpochData(u)
      PROVE  TInv' /\ TotalsStep
  <2>1. totalStake' \in Nat
    BY <1>4 DEF UpdateAndReadEpochData, stakeVars, TInv, TotalsTyped
  <2> QED
    BY <1>0, <1>4, <2>1, UpdateKeepsTotals DEF UpdateAndReadEpochData, fundVars
<1>5. ASSUME NEW reward \in Reward, Fund(reward)
      PROVE  TInv' /\ TotalsStep
  BY <1>0, <1>5, FundKeepsTotals DEF Fund
<1>6. ASSUME NEW e \in Epoch, NEW reward \in Reward, TopUpRewards(e, reward)
      PROVE  TInv' /\ TotalsStep
  BY <1>0, <1>6, OthersKeepTotals DEF TopUpRewards, unitVars, stakeVars
<1>7. CASE SetUpEmergencyMode
  BY <1>0, <1>7, OthersKeepTotals DEF SetUpEmergencyMode, fundVars, unitVars, stakeVars
<1>8. CASE SpenderWithdraw
  BY <1>0, <1>8, OthersKeepTotals DEF SpenderWithdraw, fundVars, unitVars
<1>9. ASSUME NEW s \in Status, SetStatus(s)
      PROVE  TInv' /\ TotalsStep
  BY <1>0, <1>9, OthersKeepTotals DEF SetStatus, fundVars, unitVars, stakeVars
<1>10. CASE Tick
  <2>1. now' # now
    BY <1>10 DEF Tick, TInv, TotalsTyped
  <2> QED
    BY <1>10, <2>1, TickCounts DEF TotalsStep
<1>11. CASE UNCHANGED vars
  BY <1>0, <1>11, OthersKeepTotals DEF vars, fundVars, unitVars, stakeVars
<1> QED
  BY <1>1, <1>2, <1>3, <1>4, <1>5, <1>6, <1>7, <1>8, <1>9, <1>10, <1>11 DEF Next

(* However lazily the totals are kept and whatever comes in between, an    *)
(* epoch has one unit per token and second staked in it                    *)
(* (_updateStakeData, and the funding of epochs before they begin).        *)
THEOREM TotalsAreALedger == Spec => TotalsCountEverySecond
BY TotalsInit, NextTotals, PTL DEF Spec, TotalsCountEverySecond, TotalsStep

-----------------------------------------------------------------------------
(* Claimed epochs.                                                         *)

(* Where no epoch of the loop vests at k, there is nothing to add: the sum *)
(* is over the empty set.                                                  *)
LEMMA NoRewards ==
    ASSUME NEW u, NEW k, \A e \in Visited(u) : ~(Ended(e) /\ VestsAt(e, k))
    PROVE  Available(u, k) = availableRewardsForUser[k][u] + 0
<1>1. {e \in Visited(u) : Ended(e) /\ VestsAt(e, k)} = {}
  OBVIOUS
<1>2. SumOver([e \in {} |-> RewardPerVestingEpoch(u, e)]) = 0
  BY SumOverIs, SumEmpty
<1> QED
  BY <1>1, <1>2 DEF Available

(* A user who claimed was settled in the last epoch of the claim or later. *)
SettledWhenClaimed(u) ==
    /\ lastTimeUserStakeUpdated[u] <= now
    /\ lastEpochClaimed[u] > 0 =>
          /\ lastTimeUserStakeUpdated[u] # 0
          /\ lastEpochClaimed[u] <= EpochOf(lastTimeUserStakeUpdated[u])

ClaimTyped ==
    /\ now \in Nat /\ numberOfEpochs \in Nat
    /\ \E v : availableRewardsForUser = [k \in VestEpoch |-> [u \in User |-> v[k][u]]]
    /\ lastTimeUserStakeUpdated \in [User -> Nat]
    /\ lastEpochClaimed \in [User -> Nat]

CInv == ClaimTyped /\ (\A u \in User : SettledWhenClaimed(u)) /\ ClaimedEpochsStayEmpty

(* What is empty for good gets nothing from an update.                     *)
LEMMA ClaimedStaysEmpty ==
    ASSUME CInv, NEW u \in User, NEW k \in VestEpoch,
           lastEpochClaimed[u] > 0, k <= lastEpochClaimed[u]
    PROVE  Available(u, k) = 0
<1>1. availableRewardsForUser[k][u] = 0
  BY DEF CInv, ClaimedEpochsStayEmpty
<1>2. ASSUME NEW e \in Visited(u) PROVE ~(Ended(e) /\ VestsAt(e, k))
  <2> DEFINE first == EpochOf(lastTimeUserStakeUpdated[u])
  <2>1. lastTimeUserStakeUpdated[u] \in Nat /\ lastEpochClaimed[u] \in Nat
    BY DEF CInv, ClaimTyped
  <2>2. lastTimeUserStakeUpdated[u] # 0 /\ lastEpochClaimed[u] <= first /\ first \in Nat
    BY <2>1, EpochBounds DEF CInv, SettledWhenClaimed
  <2>3. e \in first..LastLive
    BY <1>2, <2>2 DEF Visited
  <2>4. k \in Int
    BY DEF VestEpoch
  <2> HIDE DEF first
  <2>5. LastLive \in Int
    BY EpochBounds DEF LastLive, CurEpoch, SmallerOf, CInv, ClaimTyped
  <2> QED
    BY <2>1, <2>2, <2>3, <2>4, <2>5 DEF VestsAt
<1> QED
  BY <1>1, <1>2, NoRewards

(* An update that empties the epochs of claimed, and a claim of them.      *)
LEMMA UpdateKeepsClaims ==
    ASSUME CInv, NEW u \in User, NEW claimed, UpdatePendingRewards(u, claimed),
           UNCHANGED <<now, numberOfEpochs>>, CurEpoch > 0,
           \/ UNCHANGED lastEpochClaimed
           \/ /\ claimed = Claimable(u)
              /\ lastEpochClaimed' = [lastEpochClaimed EXCEPT ![u] = LastClaimable]
    PROVE  CInv'
<1>1. /\ now \in Nat /\ numberOfEpochs \in Nat /\ CurEpoch \in Nat /\ now # 0
      /\ LastClaimable \in Nat /\ LastClaimable <= CurEpoch
  <2>1. now \in Nat /\ numberOfEpochs \in Nat /\ CurEpoch \in Nat
    BY EpochBounds DEF CInv, ClaimTyped, CurEpoch
  <2>2. now # 0
    BY <2>1, EpochBounds DEF CurEpoch
  <2> QED
    BY <2>1, <2>2 DEF LastClaimable, SmallerOf
<1>2. /\ availableRewardsForUser' =
            [k \in VestEpoch |-> [availableRewardsForUser[k] EXCEPT
                                    ![u] = IF k \in claimed THEN 0 ELSE Available(u, k)]]
      /\ lastTimeUserStakeUpdated' = [lastTimeUserStakeUpdated EXCEPT ![u] = now]
  BY DEF UpdatePendingRewards
<1>3. PICK v : availableRewardsForUser = [k \in VestEpoch |-> [w \in User |-> v[k][w]]]
  BY DEF CInv, ClaimTyped
<1>4. \A k \in VestEpoch, w \in User :
        availableRewardsForUser'[k][w] =
          IF w # u THEN availableRewardsForUser[k][w]
          ELSE IF k \in claimed THEN 0 ELSE Available(u, k)
  BY <1>2, <1>3
<1>5. ClaimTyped'
  <2>1. lastEpochClaimed' \in [User -> Nat]
    BY <1>1 DEF CInv, ClaimTyped
  <2>2. lastTimeUserStakeUpdated' \in [User -> Nat]
    BY <1>1, <1>2 DEF CInv, ClaimTyped
  <2>3. \E x : availableRewardsForUser' = [k \in VestEpoch |-> [w \in User |-> x[k][w]]]
    <3>1. availableRewardsForUser' =
            [k \in VestEpoch |-> [w \in User |-> availableRewardsForUser'[k][w]]]
      BY <1>2, <1>3
    <3> QED
      BY <3>1
  <2> QED
    BY <1>1, <2>1, <2>2, <2>3 DEF ClaimTyped
<1>6. ASSUME NEW w \in User PROVE SettledWhenClaimed(w)'
  <2>1. CASE w # u
    BY <1>2, <2>1 DEF CInv, ClaimTyped, SettledWhenClaimed
  <2>2. CASE w = u
    <3>1. lastTimeUserStakeUpdated'[u] = now
      BY <1>2 DEF CInv, ClaimTyped
    <3>2. lastEpochClaimed[u] \in Nat /\ lastTimeUserStakeUpdated[u] \in Nat
      BY DEF CInv, ClaimTyped
    <3>3. lastEpochClaimed[u] <= CurEpoch
      <4>1. EpochOf(lastTimeUserStakeUpdated[u]) <= CurEpoch
        BY <1>1, <3>2, EpochMonotone DEF CurEpoch, CInv, SettledWhenClaimed
      <4>2. EpochOf(lastTimeUserStakeUpdated[u]) \in Nat
        BY <3>2, EpochBounds
      <4> QED
        BY <1>1, <3>2, <4>1, <4>2 DEF CInv, SettledWhenClaimed
    <3>4. lastEpochClaimed'[u] <= CurEpoch
      BY <1>1, <3>3 DEF CInv, ClaimTyped
    <3> QED
      BY <1>1, <2>2, <3>1, <3>4 DEF SettledWhenClaimed, CurEpoch
  <2> QED
    BY <2>1, <2>2
<1>7. ClaimedEpochsStayEmpty'
  <2> SUFFICES ASSUME NEW w \in User, NEW k \in VestEpoch,
                      lastEpochClaimed'[w] > 0, k <= lastEpochClaimed'[w]
               PROVE  availableRewardsForUser'[k][w] = 0
    BY DEF ClaimedEpochsStayEmpty
  <2>1. CASE w # u
    BY <1>4, <2>1 DEF CInv, ClaimTyped, ClaimedEpochsStayEmpty
  <2>2. CASE w = u /\ lastEpochClaimed[u] > 0 /\ k <= lastEpochClaimed[u]
    BY <1>4, <2>2, ClaimedStaysEmpty
  <2>3. CASE w = u /\ ~(lastEpochClaimed[u] > 0 /\ k <= lastEpochClaimed[u])
    <3>1. lastEpochClaimed[u] \in Nat /\ k \in Nat
      BY DEF CInv, ClaimTyped, VestEpoch
    <3>2. claimed = Claimable(u) /\ lastEpochClaimed'[u] = LastClaimable
      BY <2>3 DEF CInv, ClaimTyped
    <3>3. k \in claimed
      BY <1>1, <2>3, <3>1, <3>2 DEF Claimable
    <3> QED
      BY <1>4, <2>3, <3>3
  <2> QED
    BY <2>1, <2>2, <2>3
<1> QED
  BY <1>5, <1>6, <1>7 DEF CInv

LEMMA ClaimsInit == Init => CInv
<1> SUFFICES ASSUME Init PROVE CInv
  OBVIOUS
<1>1. now \in Nat /\ numberOfEpochs \in Nat
  BY DEF Init
<1>2. ClaimTyped
  <2>1. availableRewardsForUser =
          [k \in VestEpoch |-> [u \in User |-> availableRewardsForUser[k][u]]]
    BY DEF Init
  <2>2. lastTimeUserStakeUpdated \in [User -> Nat] /\ lastEpochClaimed \in [User -> Nat]
    BY DEF Init
  <2> QED
    BY <1>1, <2>1, <2>2 DEF ClaimTyped
<1>3. \A u \in User : lastEpochClaimed[u] = 0 /\ lastTimeUserStakeUpdated[u] = 0
  BY DEF Init
<1> QED
  BY <1>1, <1>2, <1>3 DEF CInv, SettledWhenClaimed, ClaimedEpochsStayEmpty

(* Time and the number of epochs only grow, and the rest stays.            *)
LEMMA OthersKeepClaims ==
    ASSUME CInv, now' \in Nat, numberOfEpochs' \in Nat, now <= now',
           UNCHANGED <<availableRewardsForUser, lastTimeUserStakeUpdated, lastEpochClaimed>>
    PROVE  CInv'
<1>1. ClaimTyped'
  BY DEF CInv, ClaimTyped
<1>2. \A u \in User : SettledWhenClaimed(u)'
  BY DEF CInv, ClaimTyped, SettledWhenClaimed
<1>3. ClaimedEpochsStayEmpty'
  BY DEF CInv, ClaimedEpochsStayEmpty
<1> QED
  BY <1>1, <1>2, <1>3 DEF CInv

LEMMA NextClaims == CInv /\ [Next]_vars => CInv'
<1> SUFFICES ASSUME CInv, [Next]_vars PROVE CInv'
  OBVIOUS
<1>0. now \in Nat /\ numberOfEpochs \in Nat /\ now <= now
  BY DEF CInv, ClaimTyped
<1>1. ASSUME NEW u \in User, NEW amount \in 1..MaxStake, Stake(u, amount)
      PROVE  CInv'
  BY <1>1, UpdateKeepsClaims DEF Stake, IsUserAllowedToUse, fundVars, claimVars
<1>2. ASSUME NEW u \in User, NEW amount \in 1..MaxStake, Withdraw(u, amount)
      PROVE  CInv'
  BY <1>2, UpdateKeepsClaims DEF Withdraw, IsUserAllowedToUse, fundVars, claimVars
<1>3. ASSUME NEW u \in User, RedeemRewards(u)
      PROVE  CInv'
  BY <1>3, UpdateKeepsClaims DEF RedeemRewards, IsUserAllowedToUse, fundVars
<1>4. ASSUME NEW u \in User, UpdateAndReadEpochData(u)
      PROVE  CInv'
  BY <1>4, UpdateKeepsClaims DEF UpdateAndReadEpochData, IsUserAllowedToUse, fundVars, claimVars
<1>5. ASSUME NEW reward \in Reward, Fund(reward)
      PROVE  CInv'
  BY <1>0, <1>5, OthersKeepClaims DEF Fund, unitVars, claimVars
<1>6. ASSUME NEW e \in Epoch, NEW reward \in Reward, TopUpRewards(e, reward)
      PROVE  CInv'
  BY <1>0, <1>6, OthersKeepClaims DEF TopUpRewards, unitVars, claimVars
<1>7. CASE SetUpEmergencyMode
  BY <1>0, <1>7, OthersKeepClaims DEF SetUpEmergencyMode, fundVars, unitVars, claimVars
<1>8. CASE SpenderWithdraw
  BY <1>0, <1>8, OthersKeepClaims DEF SpenderWithdraw, fundVars, unitVars, claimVars
<1>9. ASSUME NEW s \in Status, SetStatus(s)
      PROVE  CInv'
  BY <1>0, <1>9, OthersKeepClaims DEF SetStatus, fundVars, unitVars, claimVars
<1>10. CASE Tick
  BY <1>0, <1>10, OthersKeepClaims DEF Tick, fundVars, unitVars, claimVars
<1>11. CASE UNCHANGED vars
  BY <1>0, <1>11, OthersKeepClaims DEF vars, fundVars, unitVars, claimVars
<1> QED
  BY <1>1, <1>2, <1>3, <1>4, <1>5, <1>6, <1>7, <1>8, <1>9, <1>10, <1>11 DEF Next

(* "After the rewards an epoch has been claimed, there won't be any        *)
(* additional rewards in that epoch" (PendleLiquidityMiningBase.sol:62),   *)
(* for any schedule of epochs, vesting and claims.                         *)
THEOREM ClaimedIsFinal == Spec => []ClaimedEpochsStayEmpty
<1>1. CInv => ClaimedEpochsStayEmpty
  BY DEF CInv
<1> QED
  BY <1>1, ClaimsInit, NextClaims, PTL DEF Spec

-----------------------------------------------------------------------------
(* The units of the users.                                                 *)
UsersTyped ==
    /\ stakeUnitsForUser \in [Epoch -> [User -> Nat]]
    /\ balances \in [User -> Nat]
    /\ lastTimeUserStakeUpdated \in [User -> 0..now]

(* Who was never settled has staked nothing. *)
NewcomersHaveNothing == \A u \in User : lastTimeUserStakeUpdated[u] = 0 => balances[u] = 0

NoUnitsBefore ==
    \A e \in Epoch, u \in User :
        e > numberOfEpochs \/ e > CurEpoch => stakeUnitsForUser[e][u] = 0

UnitsOf(e) == [u \in User |-> LedgerUnits(e, u)]

(* The inductive invariant: what is staked, and the units of each epoch,   *)
(* add up.  It is why no epoch that the loop of _updatePendingRewards      *)
(* skips as empty could have given the user anything.                      *)
StakeAddsUp ==
    /\ totalStake = SumIn(balances, User)
    /\ \A e \in Epoch : LedgerTotal(e) = SumIn(UnitsOf(e), User)

LInv == TInv /\ UsersTyped /\ NewcomersHaveNothing /\ NoUnitsBefore /\ StakeAddsUp

(* What is known of one user and one epoch. *)
LEMMA UserFacts ==
    ASSUME LInv, NEW e \in Epoch, NEW u \in User
    PROVE  /\ e \in Nat \ {0} /\ now \in Nat /\ numberOfEpochs \in Nat /\ CurEpoch \in Nat
           /\ totalStake \in Nat /\ balances[u] \in Nat
           /\ stakeUnitsForUser[e][u] \in Nat
           /\ lastTimeUserStakeUpdated[u] \in 0..now
           /\ Length(now, lastTimeUserStakeUpdated[u], e) \in Nat
           /\ LastLive \in Nat
           /\ e <= LastLive <=> e <= numberOfEpochs /\ e <= CurEpoch
<1>1. /\ e \in Nat \ {0} /\ now \in Nat /\ numberOfEpochs \in Nat
      /\ totalStake \in Nat /\ balances[u] \in Nat
      /\ lastTimeUserStakeUpdated[u] \in 0..now
  BY DEF LInv, TInv, TotalsTyped, UsersTyped, Epoch
<1>2. stakeUnitsForUser[e][u] \in Nat
  BY DEF LInv, UsersTyped
<1>3. CurEpoch \in Nat
  BY <1>1, EpochBounds DEF CurEpoch
<1>4. Length(now, lastTimeUserStakeUpdated[u], e) \in Nat
  BY <1>1, LengthGrows
<1>5. LastLive \in Nat /\ (e <= LastLive <=> e <= numberOfEpochs /\ e <= CurEpoch)
  BY <1>1, <1>3 DEF LastLive, SmallerOf
<1> QED
  BY <1>1, <1>2, <1>3, <1>4, <1>5

(* The units of the ledger, as the ones stored and those to be added. *)
LEMMA UnitsStoredAndDue ==
    ASSUME LInv, NEW e \in Epoch, NEW u \in User
    PROVE  \E s, more \in Nat :
             /\ s = stakeUnitsForUser[e][u]
             /\ more = balances[u] * Length(now, lastTimeUserStakeUpdated[u], e)
             /\ LedgerUnits(e, u) = IF e > numberOfEpochs THEN 0
                                    ELSE s + IF lastTimeUserStakeUpdated[u] = 0 THEN 0 ELSE more
             /\ UserUnits(u, e) = s + IF e \in Visited(u) THEN more ELSE 0
<1>1. PICK b \in Nat, l \in Nat :
         b = balances[u] /\ l = Length(now, lastTimeUserStakeUpdated[u], e)
  BY UserFacts
<1>2. b * l \in Nat
  BY NatTimes, Zenon
<1>3. Units(balances[u], lastTimeUserStakeUpdated[u], e) = b * l
  BY <1>1, UnitsAre
<1>4. stakeUnitsForUser[e][u] \in Nat
  BY UserFacts
<1> QED
  BY <1>1, <1>2, <1>3, <1>4 DEF LedgerUnits, UserUnits

(* Nobody has more than there is. *)
LEMMA UserWithinTotal ==
    ASSUME LInv, NEW u \in User
    PROVE  /\ balances[u] <= totalStake
           /\ \A e \in Epoch : LedgerUnits(e, u) \in Nat /\ LedgerUnits(e, u) <= LedgerTotal(e)
<1> USE UserAssumption
<1>1. balances[u] <= totalStake
  <2>1. \A w \in User : balances[w] \in Nat
    BY DEF LInv, UsersTyped
  <2> QED
    BY <2>1, SumNat DEF LInv, StakeAddsUp
<1>2. ASSUME NEW e \in Epoch PROVE LedgerUnits(e, u) \in Nat /\ LedgerUnits(e, u) <= LedgerTotal(e)
  <2>1. \A w \in User : LedgerUnits(e, w) \in Nat
    BY UnitsStoredAndDue
  <2>2. PICK f : f = UnitsOf(e)
    OBVIOUS
  <2>3. \A w \in User : f[w] \in Nat /\ f[w] = LedgerUnits(e, w)
    BY <2>1, <2>2 DEF UnitsOf
  <2>4. f[u] <= SumIn(f, User)
    BY <2>3, SumNat
  <2> QED
    BY <2>2, <2>3, <2>4 DEF LInv, StakeAddsUp
<1> QED
  BY <1>1, <1>2

LEMMA LengthPast ==
    ASSUME NEW t \in Nat, NEW since \in Nat, NEW e \in Nat \ {0}, EndOf(e) <= since
    PROVE  Length(t, since, e) = 0
<1>1. StartOf(e) \in Int /\ EndOf(e) \in Int /\ StartOf(e) <= EndOf(e)
  BY StartType, EpochLength
<1> QED
  BY <1>1 DEF Length, LargerOf, SmallerOf

(* The units the ledger gives a user are what an update stores. *)
LEMMA UpdateStoresUnits ==
    ASSUME LInv, NEW e \in Epoch, NEW u \in User
    PROVE  /\ UserUnits(u, e) \in Nat
           /\ LedgerUnits(e, u) = IF e > numberOfEpochs THEN 0 ELSE UserUnits(u, e)
           /\ e > numberOfEpochs \/ e > CurEpoch => UserUnits(u, e) = 0
<1>1. PICK s \in Nat, more \in Nat :
         /\ s = stakeUnitsForUser[e][u]
         /\ more = balances[u] * Length(now, lastTimeUserStakeUpdated[u], e)
         /\ LedgerUnits(e, u) = IF e > numberOfEpochs THEN 0
                                ELSE s + IF lastTimeUserStakeUpdated[u] = 0 THEN 0 ELSE more
         /\ UserUnits(u, e) = s + IF e \in Visited(u) THEN more ELSE 0
  BY UnitsStoredAndDue
<1>2. PICK T \in 0..now : T = lastTimeUserStakeUpdated[u]
  BY UserFacts
<1>3. /\ e \in Nat \ {0} /\ now \in Nat /\ T \in Nat /\ numberOfEpochs \in Nat
      /\ CurEpoch \in Nat /\ LastLive \in Nat /\ EpochOf(T) \in Nat /\ balances[u] \in Nat
      /\ e <= LastLive <=> e <= numberOfEpochs /\ e <= CurEpoch
  BY <1>2, UserFacts, EpochBounds
<1>4. \A l : l = Length(now, T, e) /\ l = 0 => more = 0
  BY <1>1, <1>2, <1>3, TimesZero
<1>5. e > numberOfEpochs \/ e > CurEpoch => s = 0 /\ e \notin Visited(u)
  <2>1. e > numberOfEpochs \/ e > CurEpoch => s = 0
    BY <1>1 DEF LInv, NoUnitsBefore
  <2>2. e \in Visited(u) => e <= LastLive
    BY <1>2, <1>3 DEF Visited
  <2> QED
    BY <1>3, <2>1, <2>2
<1>6. T # 0 /\ e <= numberOfEpochs /\ e \notin Visited(u) => more = 0
  <2> SUFFICES ASSUME T # 0, e <= numberOfEpochs, e \notin Visited(u) PROVE more = 0
    OBVIOUS
  <2>1. CASE e < EpochOf(T)
    <3>1. EndOf(e) <= T
      BY <1>3, <2>1, BegunOrNot
    <3>2. Length(now, T, e) = 0
      BY <1>3, <3>1, LengthPast
    <3> QED
      BY <1>4, <3>2
  <2>2. CASE e > CurEpoch
    <3>1. Length(now, T, e) = 0
      BY <1>3, <2>2, LengthZero DEF CurEpoch
    <3> QED
      BY <1>4, <3>1
  <2>3. CASE TotalUnits(e) = 0
    <3>1. LedgerTotal(e) = 0
      BY <1>3, <2>3, UpdateStoresTotals DEF LInv
    <3>2. LedgerUnits(e, u) \in Nat /\ LedgerUnits(e, u) <= LedgerTotal(e)
      BY UserWithinTotal
    <3> QED
      BY <1>1, <1>2, <1>3, <3>1, <3>2
  <2>4. CASE totalStake = 0
    <3>1. balances[u] = 0
      BY <1>3, <2>4, UserWithinTotal
    <3>2. more = 0 * Length(now, T, e) /\ Length(now, T, e) \in Nat
      BY <1>1, <1>2, <3>1, UserFacts
    <3> QED
      BY <3>2
  <2>5. e \in EpochOf(T)..LastLive => TotalUnits(e) = 0 \/ totalStake = 0
    BY <1>2 DEF Visited
  <2> QED
    BY <1>3, <2>1, <2>2, <2>3, <2>4, <2>5
<1>7. T = 0 => e \notin Visited(u)
  BY <1>2 DEF Visited
<1> QED
  BY <1>1, <1>2, <1>3, <1>5, <1>6, <1>7

(* An operation that settles u and changes his stake, or nobody's.         *)
LEMMA UpdateKeepsUnits ==
    ASSUME LInv, NEW u \in User, NEW claimed, UpdatePendingRewards(u, claimed),
           UNCHANGED <<now, numberOfEpochs>>, CurEpoch > 0,
           totalStake' \in Nat, balances' \in [User -> Nat],
           \A w \in User \ {u} : balances'[w] = balances[w],
           totalStake' = totalStake + (balances'[u] - balances[u])
    PROVE  LInv' /\ \A e \in Epoch, w \in User : LedgerUnits(e, w)' = LedgerUnits(e, w)
<1> USE UserAssumption
<1>1. /\ stakeUnitsForUser' = [e \in Epoch |-> [stakeUnitsForUser[e] EXCEPT ![u] = UserUnits(u, e)]]
      /\ lastTimeUserStakeUpdated' = [lastTimeUserStakeUpdated EXCEPT ![u] = now]
  BY DEF UpdatePendingRewards
<1>2. /\ TInv' /\ CurEpoch' = CurEpoch
      /\ \A e \in Epoch : LedgerTotal(e)' = LedgerTotal(e)
  BY UpdateKeepsTotals DEF LInv, CurEpoch
<1>3. now \in Nat /\ now # 0
  <2>1. now \in Nat
    BY DEF LInv, TInv, TotalsTyped
  <2> QED
    BY <2>1, EpochBounds DEF CurEpoch
<1>4. /\ \A e \in Epoch, w \in User :
           stakeUnitsForUser'[e][w] = IF w = u THEN UserUnits(u, e) ELSE stakeUnitsForUser[e][w]
      /\ \A w \in User :
           lastTimeUserStakeUpdated'[w] = IF w = u THEN now ELSE lastTimeUserStakeUpdated[w]
  BY <1>1 DEF LInv, UsersTyped
<1>5. UsersTyped'
  <2>1. lastTimeUserStakeUpdated' \in [User -> 0..now']
    BY <1>1, <1>3 DEF LInv, UsersTyped
  <2>2. \A e \in Epoch : UserUnits(u, e) \in Nat
    BY UpdateStoresUnits
  <2>3. stakeUnitsForUser' \in [Epoch -> [User -> Nat]]
    BY <1>1, <2>2 DEF LInv, UsersTyped
  <2> QED
    BY <2>1, <2>3 DEF UsersTyped
<1>6. NewcomersHaveNothing'
  BY <1>3, <1>4 DEF LInv, NewcomersHaveNothing
<1>7. NoUnitsBefore'
  BY <1>2, <1>4, UpdateStoresUnits DEF LInv, NoUnitsBefore
<1>8. ASSUME NEW e \in Epoch, NEW w \in User PROVE LedgerUnits(e, w)' = LedgerUnits(e, w)
  <2>1. CASE w # u
    BY <1>4, <2>1 DEF LedgerUnits, Units
  <2>2. CASE w = u
    <3>1. PICK b \in Nat : b = balances'[u]
      OBVIOUS
    <3>2. /\ e \in Nat \ {0} /\ numberOfEpochs \in Nat /\ UserUnits(u, e) \in Nat
          /\ LedgerUnits(e, u) = IF e > numberOfEpochs THEN 0 ELSE UserUnits(u, e)
      BY UserFacts, UpdateStoresUnits
    <3>3. Length(now, now, e) = 0
      BY <1>3, <3>2, LengthZero
    <3>4. b * 0 = 0
      BY TimesZero, Zenon
    <3>5. LedgerUnits(e, u)' = IF e > numberOfEpochs THEN 0
                               ELSE UserUnits(u, e) + b * Length(now, now, e)
      BY <1>3, <1>4, <3>1 DEF LedgerUnits, Units, Length
    <3> QED
      BY <2>2, <3>2, <3>3, <3>4, <3>5
  <2> QED
    BY <2>1, <2>2
<1>9. totalStake' = SumIn(balances', User)
  <2>1. PICK f, g : f = balances /\ g = balances'
    OBVIOUS
  <2>2. \A w \in User : f[w] \in Int
    BY <2>1 DEF LInv, UsersTyped
  <2>3. g[u] \in Int
    BY <2>1
  <2>4. \A w \in User \ {u} : g[w] = f[w]
    BY <2>1
  <2>5. SumIn(g, User) = SumIn(f, User) + (g[u] - f[u])
    BY ONLY IsFiniteSet(User), u \in User, <2>2, <2>3, <2>4, SumChange
  <2> QED
    BY <2>1, <2>5, Zenon DEF LInv, StakeAddsUp
<1>10. \A e \in Epoch : UnitsOf(e)' = UnitsOf(e)
  BY <1>8 DEF UnitsOf
<1>11. StakeAddsUp'
  BY <1>2, <1>9, <1>10 DEF LInv, StakeAddsUp
<1> QED
  BY <1>2, <1>5, <1>6, <1>7, <1>8, <1>11 DEF LInv

(* A new epoch has no units, of anybody. *)
LEMMA FundKeepsUnits ==
    ASSUME LInv, NEW reward, Fund(reward)
    PROVE  LInv' /\ \A e \in Epoch, w \in User : LedgerUnits(e, w)' = LedgerUnits(e, w)
<1> USE UserAssumption
<1>1. /\ now \in Nat /\ numberOfEpochs \in Nat /\ CurEpoch \in Nat
      /\ CurEpoch <= numberOfEpochs /\ numberOfEpochs' = numberOfEpochs + 1
      /\ UNCHANGED <<now, totalStake, stakeUnitsForUser, balances, lastTimeUserStakeUpdated>>
      /\ CurEpoch' = CurEpoch
  BY EpochBounds DEF Fund, LInv, TInv, TotalsTyped, CurEpoch, unitVars, stakeVars
<1>2. TInv' /\ \A e \in Epoch : LedgerTotal(e)' = LedgerTotal(e)
  BY FundKeepsTotals DEF LInv
<1>3. UsersTyped' /\ NewcomersHaveNothing' /\ NoUnitsBefore'
  BY <1>1 DEF LInv, UsersTyped, NewcomersHaveNothing, NoUnitsBefore, Epoch
<1>4. ASSUME NEW e \in Epoch, NEW w \in User PROVE LedgerUnits(e, w)' = LedgerUnits(e, w)
  <2>1. CASE e # numberOfEpochs + 1
    BY <1>1, <2>1, UserFacts DEF LedgerUnits, Units
  <2>2. CASE e = numberOfEpochs + 1
    <3>1. /\ e \in Nat \ {0} /\ lastTimeUserStakeUpdated[w] \in Nat /\ balances[w] \in Nat
      BY UserFacts
    <3>2. stakeUnitsForUser[e][w] = 0
      BY <1>1, <2>2 DEF LInv, NoUnitsBefore
    <3>3. Length(now, lastTimeUserStakeUpdated[w], e) = 0
      BY <1>1, <2>2, <3>1, LengthZero DEF CurEpoch
    <3>4. Units(balances[w], lastTimeUserStakeUpdated[w], e) = 0
      BY <3>1, <3>3, UnitsAre, TimesZero
    <3>5. LedgerUnits(e, w)' = 0
      BY <1>1, <2>2, <3>2, <3>4 DEF LedgerUnits, Units
    <3>6. LedgerUnits(e, w) = 0
      BY <1>1, <2>2 DEF LedgerUnits
    <3> QED
      BY <3>5, <3>6
  <2> QED
    BY <2>1, <2>2
<1>5. \A e \in Epoch : UnitsOf(e)' = UnitsOf(e)
  BY <1>4 DEF UnitsOf
<1>6. StakeAddsUp'
  BY <1>1, <1>2, <1>5 DEF LInv, StakeAddsUp
<1> QED
  BY <1>2, <1>3, <1>4, <1>6 DEF LInv

(* A second counts for everybody who has staked. *)
LEMMA TickCountsUnits ==
    ASSUME LInv, Tick
    PROVE  LInv' /\ \A e \in Epoch, w \in User :
              LedgerUnits(e, w)' = LedgerUnits(e, w)
                + IF e = CurEpoch /\ e <= numberOfEpochs THEN balances[w] ELSE 0
<1> USE UserAssumption
<1>1. /\ now \in Nat /\ now' = now + 1 /\ numberOfEpochs \in Nat
      /\ UNCHANGED <<numberOfEpochs, totalStake, stakeUnitsForUser, balances,
                     lastTimeUserStakeUpdated>>
  BY DEF Tick, LInv, TInv, TotalsTyped, fundVars, unitVars, stakeVars
<1>2. CurEpoch \in Nat /\ CurEpoch' \in Nat /\ CurEpoch <= CurEpoch'
  BY <1>1, EpochBounds, EpochMonotone DEF CurEpoch
<1>3. /\ TInv'
      /\ \A e \in Epoch : LedgerTotal(e)' = LedgerTotal(e)
           + IF e = CurEpoch /\ e <= numberOfEpochs THEN totalStake ELSE 0
  BY TickCounts DEF LInv
<1>4. UsersTyped' /\ NewcomersHaveNothing'
  BY <1>1 DEF LInv, UsersTyped, NewcomersHaveNothing
<1>5. NoUnitsBefore'
  BY <1>1, <1>2 DEF LInv, NoUnitsBefore, Epoch
<1>6. ASSUME NEW e \in Epoch, NEW w \in User
      PROVE  LedgerUnits(e, w)' = LedgerUnits(e, w)
               + IF e = CurEpoch /\ e <= numberOfEpochs THEN balances[w] ELSE 0
  <2>1. PICK T \in 0..now, b \in Nat, s \in Nat, l \in Nat :
           /\ T = lastTimeUserStakeUpdated[w] /\ b = balances[w] /\ s = stakeUnitsForUser[e][w]
           /\ l = Length(now, T, e)
    BY UserFacts
  <2>2. T \in Nat /\ e \in Nat \ {0}
    BY <1>1, <2>1, UserFacts
  <2>3. Length(now + 1, T, e) = l + IF e = CurEpoch THEN 1 ELSE 0
    <3>1. T \in 0..now
      OBVIOUS
    <3>2. Length(now + 1, T, e) = Length(now, T, e) + IF e = EpochOf(now) THEN 1 ELSE 0
      BY <1>1, <2>2, <3>1, LengthGrows
    <3> QED
      BY <2>1, <3>2 DEF CurEpoch
  <2>4. b * (l + 1) = b * l + b /\ b * (l + 0) = b * l /\ b * l \in Nat
    BY NatTimes
  <2>5. T = 0 => b = 0
    BY <2>1 DEF LInv, NewcomersHaveNothing
  <2>6. LedgerUnits(e, w) = IF e > numberOfEpochs THEN 0 ELSE s + IF T = 0 THEN 0 ELSE b * l
    BY <2>1, UnitsAre DEF LedgerUnits
  <2>7. LedgerUnits(e, w)' = IF e > numberOfEpochs THEN 0
                             ELSE s + IF T = 0 THEN 0 ELSE b * Length(now + 1, T, e)
    BY <1>1, <2>1 DEF LedgerUnits, Units, Length
  <2>8. CASE e = CurEpoch
    BY <1>1, <1>2, <2>1, <2>3, <2>4, <2>5, <2>6, <2>7, <2>8
  <2>9. CASE e # CurEpoch
    BY <1>1, <1>2, <2>1, <2>2, <2>3, <2>4, <2>5, <2>6, <2>7, <2>9
  <2> QED
    BY <2>8, <2>9
<1>7. \A w \in User : balances[w] \in Int
  BY DEF LInv, UsersTyped
<1>8. ASSUME NEW e \in Epoch PROVE LedgerTotal(e)' = SumIn(UnitsOf(e)', User)
  <2>1. PICK f, g, h : f = UnitsOf(e) /\ g = balances /\ h = UnitsOf(e)'
    OBVIOUS
  <2>2. \A w \in User : f[w] = LedgerUnits(e, w) /\ f[w] \in Int /\ h[w] = LedgerUnits(e, w)'
    BY <2>1, UserWithinTotal DEF UnitsOf
  <2>3. LedgerTotal(e) = SumIn(f, User) /\ totalStake = SumIn(g, User)
    BY <2>1 DEF LInv, StakeAddsUp
  <2>4. CASE e = CurEpoch /\ e <= numberOfEpochs
    <3>1. \A w \in User : f[w] \in Int /\ g[w] \in Int /\ h[w] = f[w] + g[w]
      BY <1>6, <1>7, <2>1, <2>2, <2>4
    <3>2. SumIn(h, User) = SumIn(f, User) + SumIn(g, User)
      BY <3>1, SumPlus
    <3>3. LedgerTotal(e)' = LedgerTotal(e) + totalStake
      BY <1>3, <2>4
    <3> QED
      BY <2>1, <2>3, <3>2, <3>3, Zenon
  <2>5. CASE ~(e = CurEpoch /\ e <= numberOfEpochs)
    <3>1. \A w \in User : f[w] \in Int /\ f[w] = h[w]
      BY <1>6, <2>2, <2>5
    <3>2. SumIn(f, User) = SumIn(h, User)
      BY ONLY IsFiniteSet(User), <3>1, SumSame
    <3>3. LedgerTotal(e)' = LedgerTotal(e)
      <4>1. LedgerTotal(e) \in Nat
        BY LedgerTotalType DEF LInv
      <4> QED
        BY <1>3, <2>5, <4>1
    <3> QED
      BY <2>1, <2>3, <3>2, <3>3, Zenon
  <2> QED
    BY <2>4, <2>5
<1>9. StakeAddsUp'
  BY <1>1, <1>8 DEF LInv, StakeAddsUp
<1> QED
  BY <1>3, <1>4, <1>5, <1>6, <1>9 DEF LInv

LEMMA OthersKeepUnits ==
    ASSUME LInv, UNCHANGED <<now, numberOfEpochs, totalStake, totalStakeUnits, lastUpdated,
                             stakeUnitsForUser, balances, lastTimeUserStakeUpdated>>
    PROVE  LInv' /\ \A e \in Epoch, w \in User : LedgerUnits(e, w)' = LedgerUnits(e, w)
<1>1. TInv' /\ \A e \in Epoch : LedgerTotal(e)' = LedgerTotal(e)
  BY OthersKeepTotals DEF LInv
<1>2. UsersTyped' /\ NewcomersHaveNothing' /\ NoUnitsBefore'
  BY DEF LInv, UsersTyped, NewcomersHaveNothing, NoUnitsBefore, CurEpoch
<1>3. \A e \in Epoch, w \in User : LedgerUnits(e, w)' = LedgerUnits(e, w)
  BY DEF LedgerUnits, Units
<1>4. StakeAddsUp'
  BY <1>1, <1>3 DEF LInv, StakeAddsUp, UnitsOf
<1> QED
  BY <1>1, <1>2, <1>3, <1>4 DEF LInv

LEMMA UnitsInit == Init => LInv
<1> USE UserAssumption
<1> SUFFICES ASSUME Init PROVE LInv
  OBVIOUS
<1>1. TInv /\ now \in Nat
  BY TotalsInit DEF Init
<1>2. UsersTyped /\ NewcomersHaveNothing /\ NoUnitsBefore
  BY <1>1 DEF Init, UsersTyped, NewcomersHaveNothing, NoUnitsBefore
<1>3. totalStake = SumIn(balances, User)
  <2>1. \A u \in User : balances[u] = 0
    BY DEF Init
  <2> QED
    BY <2>1, SumZero DEF Init
<1>4. ASSUME NEW e \in Epoch PROVE LedgerTotal(e) = SumIn(UnitsOf(e), User)
  <2>1. numberOfEpochs = 0 /\ e > 0
    BY DEF Init, Epoch
  <2>2. LedgerTotal(e) = 0 /\ \A u \in User : UnitsOf(e)[u] = 0
    BY <2>1 DEF LedgerTotal, LedgerUnits, UnitsOf
  <2> QED
    BY <2>2, SumZero
<1> QED
  BY <1>1, <1>2, <1>3, <1>4 DEF LInv, StakeAddsUp

UnitsStep ==
    \A e \in Epoch, u \in User :
        LedgerUnits(e, u)' = LedgerUnits(e, u)
          + IF now' # now /\ e = CurEpoch /\ e <= numberOfEpochs THEN balances[u] ELSE 0

LEMMA NextUnits == LInv /\ [Next]_vars => LInv' /\ UnitsStep
<1> SUFFICES ASSUME LInv, [Next]_vars PROVE LInv' /\ UnitsStep
  OBVIOUS
<1>0. ASSUME LInv', now' = now,
             \A e \in Epoch, u \in User : LedgerUnits(e, u)' = LedgerUnits(e, u)
      PROVE  LInv' /\ UnitsStep
  BY <1>0, UserWithinTotal DEF UnitsStep
<1>1. totalStake \in Nat /\ balances \in [User -> Nat]
  BY DEF LInv, TInv, TotalsTyped, UsersTyped
<1>2. ASSUME NEW u \in User, NEW amount \in 1..MaxStake, Stake(u, amount)
      PROVE  LInv' /\ UnitsStep
  <2>1. /\ totalStake' \in Nat /\ balances' \in [User -> Nat]
        /\ \A w \in User \ {u} : balances'[w] = balances[w]
        /\ totalStake' = totalStake + (balances'[u] - balances[u])
    BY <1>1, <1>2 DEF Stake
  <2> QED
    BY <1>0, <1>2, <2>1, UpdateKeepsUnits DEF Stake, IsUserAllowedToUse, fundVars
<1>3. ASSUME NEW u \in User, NEW amount \in 1..MaxStake, Withdraw(u, amount)
      PROVE  LInv' /\ UnitsStep
  <2>1. /\ totalStake' \in Nat /\ balances' \in [User -> Nat]
        /\ \A w \in User \ {u} : balances'[w] = balances[w]
        /\ totalStake' = totalStake + (balances'[u] - balances[u])
    BY <1>1, <1>3 DEF Withdraw
  <2> QED
    BY <1>0, <1>3, <2>1, UpdateKeepsUnits DEF Withdraw, IsUserAllowedToUse, fundVars
<1>4. ASSUME NEW u \in User, NEW claimed, UpdatePendingRewards(u, claimed), IsUserAllowedToUse,
             UNCHANGED <<now, numberOfEpochs, balances, totalStake>>
      PROVE  LInv' /\ UnitsStep
  <2>1. /\ totalStake' \in Nat /\ balances' \in [User -> Nat]
        /\ \A w \in User \ {u} : balances'[w] = balances[w]
        /\ totalStake' = totalStake + (balances'[u] - balances[u])
    BY <1>1, <1>4
  <2> QED
    BY <1>0, <1>4, <2>1, UpdateKeepsUnits DEF IsUserAllowedToUse
<1>5. ASSUME NEW u \in User, RedeemRewards(u) PROVE LInv' /\ UnitsStep
  BY <1>4, <1>5 DEF RedeemRewards, fundVars, stakeVars
<1>6. ASSUME NEW u \in User, UpdateAndReadEpochData(u) PROVE LInv' /\ UnitsStep
  BY <1>4, <1>6 DEF UpdateAndReadEpochData, fundVars, stakeVars
<1>7. ASSUME NEW reward \in Reward, Fund(reward) PROVE LInv' /\ UnitsStep
  BY <1>0, <1>7, FundKeepsUnits DEF Fund
<1>8. CASE Tick
  <2>1. now' # now
    BY <1>8 DEF Tick, LInv, TInv, TotalsTyped
  <2> QED
    BY <1>8, <2>1, TickCountsUnits DEF UnitsStep
<1>9. ASSUME UNCHANGED <<now, numberOfEpochs, totalStake, totalStakeUnits, lastUpdated,
                         stakeUnitsForUser, balances, lastTimeUserStakeUpdated>>
      PROVE  LInv' /\ UnitsStep
  BY <1>0, <1>9, OthersKeepUnits
<1>10. ASSUME NEW e \in Epoch, NEW reward \in Reward, TopUpRewards(e, reward)
       PROVE  LInv' /\ UnitsStep
  BY <1>9, <1>10 DEF TopUpRewards, unitVars, stakeVars
<1>11. CASE SetUpEmergencyMode \/ (\E s \in Status : SetStatus(s)) \/ UNCHANGED vars
  BY <1>9, <1>11 DEF SetUpEmergencyMode, SetStatus, vars, fundVars, unitVars, stakeVars
<1>12. CASE SpenderWithdraw
  BY <1>9, <1>12 DEF SpenderWithdraw, fundVars, unitVars
<1> QED
  BY <1>2, <1>3, <1>5, <1>6, <1>7, <1>8, <1>10, <1>11, <1>12 DEF Next

LEMMA UnitsHold == Spec => []LInv
BY UnitsInit, NextUnits, PTL DEF Spec

(* Every step is one of the ledger that counts every second, or none.      *)
LEMMA LedgerSteps ==
    LInv /\ [Next]_vars => [Ledger!Next]_(Ledger!vars)
<1> SUFFICES ASSUME LInv, [Next]_vars
             PROVE  Ledger!Next \/ UNCHANGED Ledger!vars
  OBVIOUS
<1>1. UnitsStep /\ TotalsStep
  BY NextUnits, NextTotals DEF LInv
<1>2. /\ now \in Nat /\ totalStake \in Nat /\ balances \in [User -> Nat]
      /\ \A e \in Epoch : LedgerTotal(e) \in Nat
      /\ \A e \in Epoch, u \in User : LedgerUnits(e, u) \in Nat
  BY LedgerTotalType, UserWithinTotal DEF LInv, TInv, TotalsTyped, UsersTyped
<1> DEFINE units == [e \in Epoch |-> [u \in User |-> LedgerUnits(e, u)]]
<1> DEFINE totals == [e \in Epoch |-> LedgerTotal(e)]
<1>3. now' = now => units' = units /\ totals' = totals
  <2> SUFFICES ASSUME now' = now PROVE units' = units /\ totals' = totals
    OBVIOUS
  <2>1. \A e \in Epoch : LedgerTotal(e)' = LedgerTotal(e)
    BY <1>1, <1>2 DEF TotalsStep
  <2>2. \A e \in Epoch, u \in User : LedgerUnits(e, u)' = LedgerUnits(e, u)
    BY <1>1, <1>2 DEF UnitsStep
  <2> QED
    BY <2>1, <2>2
<1>4. ASSUME NEW u \in User, now' = now, numberOfEpochs' = numberOfEpochs,
             \A v \in User \ {u} : balances'[v] = balances[v],
             totalStake' - totalStake = balances'[u] - balances[u]
      PROVE  Ledger!Next
  BY <1>3, <1>4 DEF Ledger!Next, Ledger!Restake
<1>5. ASSUME UNCHANGED <<now, numberOfEpochs, balances, totalStake>>
      PROVE  UNCHANGED Ledger!vars
  BY <1>3, <1>5 DEF Ledger!vars
<1>6. ASSUME NEW u \in User, NEW amount \in 1..MaxStake, Stake(u, amount) \/ Withdraw(u, amount)
      PROVE  Ledger!Next
  <2>1. \A v \in User \ {u} : balances'[v] = balances[v]
    BY <1>2, <1>6 DEF Stake, Withdraw
  <2>2. totalStake' - totalStake = balances'[u] - balances[u]
    BY <1>2, <1>6 DEF Stake, Withdraw
  <2> QED
    BY <1>4, <1>6, <2>1, <2>2 DEF Stake, Withdraw, fundVars
<1>7. ASSUME NEW reward \in Reward, Fund(reward) PROVE Ledger!Next
  <2>1. EpochOf(now) <= numberOfEpochs /\ numberOfEpochs' > numberOfEpochs
        /\ UNCHANGED <<now, balances, totalStake>>
    BY <1>7 DEF Fund, stakeVars, CurEpoch, LInv, TInv, TotalsTyped
  <2> QED
    BY <1>3, <2>1 DEF Ledger!Next, Ledger!Extend, Ledger!EpochOf, EpochOf
<1>8. CASE Tick
  <2>1. now' = now + 1 /\ UNCHANGED <<numberOfEpochs, balances, totalStake>>
    BY <1>8 DEF Tick, fundVars, stakeVars
  <2>2. \A e : Ledger!Counts(e) <=> e = CurEpoch /\ e <= numberOfEpochs
    BY DEF Ledger!Counts, Ledger!EpochOf, EpochOf, CurEpoch
  <2>3. \A e \in Epoch, u \in User :
          LedgerUnits(e, u)' = units[e][u] + IF Ledger!Counts(e) THEN balances[u] ELSE 0
    BY <1>1, <1>2, <2>1, <2>2 DEF UnitsStep
  <2>4. \A e \in Epoch :
          LedgerTotal(e)' = totals[e] + IF Ledger!Counts(e) THEN totalStake ELSE 0
    BY <1>1, <1>2, <2>1, <2>2 DEF TotalsStep
  <2>5. /\ units' = [e \in Epoch |-> [u \in User |->
                       units[e][u] + (IF Ledger!Counts(e) THEN balances[u] ELSE 0)]]
        /\ totals' = [e \in Epoch |->
                       totals[e] + (IF Ledger!Counts(e) THEN totalStake ELSE 0)]
    BY <2>3, <2>4
  <2> QED
    BY <2>1, <2>5 DEF Ledger!Next, Ledger!Tick, Ledger!Epoch, Epoch
<1>9. CASE (\E u \in User : RedeemRewards(u) \/ UpdateAndReadEpochData(u)) \/ UNCHANGED vars
  BY <1>5, <1>9 DEF RedeemRewards, UpdateAndReadEpochData, vars, fundVars, stakeVars
<1>10. CASE \/ \E e \in Epoch, reward \in Reward : TopUpRewards(e, reward)
            \/ SetUpEmergencyMode \/ SpenderWithdraw \/ \E s \in Status : SetStatus(s)
  BY <1>5, <1>10 DEF TopUpRewards, SetUpEmergencyMode, SpenderWithdraw, SetStatus,
     fundVars, stakeVars
<1> QED
  BY <1>6, <1>7, <1>8, <1>9, <1>10 DEF Next

(* The lazy bookkeeping of _updateStakeData and _updatePendingRewards,     *)
(* with what is still to be added, is a ledger that counts the stake of    *)
(* every user every second (module StakeLedger).                           *)
THEOREM ImplementsLedger == Spec => LedgerSpec
<1>1. Init => Ledger!Init
  <2> SUFFICES ASSUME Init PROVE Ledger!Init
    OBVIOUS
  <2>1. now \in Nat
    BY DEF Init
  <2>2. \A e \in Epoch : LedgerTotal(e) = 0 /\ \A u \in User : LedgerUnits(e, u) = 0
    BY DEF Init, Epoch, LedgerTotal, LedgerUnits
  <2> QED
    BY <2>1, <2>2 DEF Init, Ledger!Init, Ledger!Epoch, Epoch
<1> QED
  BY <1>1, LedgerSteps, UnitsHold, PTL DEF Spec, LedgerSpec, Ledger!LedgerSpec

-----------------------------------------------------------------------------
(* Rewards.                                                                *)

(* A settled user has his units of the epochs until then, and no others;   *)
(* nobody is settled before the first epoch.                               *)
NoUnitsAhead ==
    \A e \in Epoch, u \in User :
        e > EpochOf(lastTimeUserStakeUpdated[u]) => stakeUnitsForUser[e][u] = 0

SettledOnceStarted ==
    \A u \in User : lastTimeUserStakeUpdated[u] # 0 => lastTimeUserStakeUpdated[u] >= StartTime

(* Epochs that were funded and over at t. *)
Done(e, t) == e <= numberOfEpochs /\ EndOf(e) <= t

(* What epoch k has for u from the epochs that were over at t. *)
Granted(u, t, k) == [e \in Epoch |-> IF Done(e, t) /\ VestsAt(e, k) THEN Share(u, e) ELSE 0]

(* How many parts of epoch e's reward have vested at c. *)
Vested(c, e) == SmallerOf(VestingEpochs, LargerOf(0, c - e))

VestedFor(u) ==
    [e \in Epoch |-> IF e <= numberOfEpochs THEN Share(u, e) * Vested(lastEpochClaimed[u], e) ELSE 0]

AvailableAsGranted ==
    \A u \in User, k \in VestEpoch :
        availableRewardsForUser[k][u] =
          IF k <= lastEpochClaimed[u] THEN 0
          ELSE SumIn(Granted(u, lastTimeUserStakeUpdated[u], k), Epoch)

PaidAsGranted == \A u \in User : paid[u] = SumIn(VestedFor(u), Epoch)

ClaimsWithinVesting ==
    \A u \in User : lastEpochClaimed[u] <= numberOfEpochs + VestingEpochs

(* The inductive invariant about rewards: each vesting epoch holds, for    *)
(* each user, his part of every epoch he is settled for, until he claims   *)
(* it; and he was paid those he claimed.                                   *)
RInv ==
    /\ TypeOK /\ LInv /\ CInv
    /\ NoUnitsAhead /\ SettledOnceStarted /\ ClaimsWithinVesting
    /\ AvailableAsGranted /\ PaidAsGranted

LEMMA EpochsFinite == IsFiniteSet(Epoch) /\ Epoch \subseteq Nat \ {0} /\ IsFiniteSet(VestEpoch)
BY FS_Interval DEF Epoch, VestEpoch

LEMMA ShareType ==
    ASSUME LInv, TypeOK, NEW u \in User, NEW e \in Epoch
    PROVE  Share(u, e) \in Nat
<1>1. PICK t \in Nat, n \in Nat, r \in Nat :
         t = LedgerTotal(e) /\ n = LedgerUnits(e, u) /\ r = totalRewards[e]
  BY LedgerTotalType, UserWithinTotal DEF LInv, TypeOK
<1>2. CASE t = 0
  BY <1>1, <1>2 DEF Share
<1>3. CASE t # 0
  <2>1. PICK p \in Nat : p = r * n
    BY NatTimes, Zenon
  <2>2. PICK q \in Nat : q = p \div t
    BY <1>3, DivisionDef
  <2>3. q \div VestingEpochs \in Nat
    BY DivisionDef
  <2> QED
    BY <1>1, <1>3, <2>1, <2>2, <2>3 DEF Share
<1> QED
  BY <1>2, <1>3

(* An epoch that was over by t is before the epoch of t. *)
LEMMA DoneOrNot ==
    ASSUME NEW t \in Nat, NEW e \in Epoch
    PROVE  Done(e, t) <=> e <= numberOfEpochs /\ e < EpochOf(t)
BY BegunOrNot DEF Done, Epoch

(* Settling a user, the epochs he gets rewards of are those that are over  *)
(* and were not when he was settled before; each gives him his share.      *)
LEMMA SettledEpochs ==
    ASSUME RInv, NEW u \in User, NEW e \in Epoch
    PROVE  LET T == lastTimeUserStakeUpdated[u]
           IN  /\ e \in Visited(u) /\ Ended(e) => /\ Done(e, now) /\ ~Done(e, T)
                                                  /\ RewardPerVestingEpoch(u, e) = Share(u, e)
               /\ Done(e, now) /\ ~Done(e, T) => \/ e \in Visited(u) /\ Ended(e)
                                                 \/ Share(u, e) = 0
               /\ Done(e, T) => Done(e, now)
<1>0. LInv /\ NoUnitsAhead /\ SettledOnceStarted /\ TypeOK
  BY DEF RInv
<1>1. PICK T \in 0..now : T = lastTimeUserStakeUpdated[u]
  BY <1>0, UserFacts
<1>2. /\ e \in Nat \ {0} /\ now \in Nat /\ T \in Nat /\ numberOfEpochs \in Nat
      /\ CurEpoch \in Nat /\ EpochOf(T) \in Nat /\ EpochOf(T) <= CurEpoch
  BY <1>0, <1>1, UserFacts, EpochBounds, EpochMonotone DEF CurEpoch
<1>3. /\ Done(e, T) <=> e <= numberOfEpochs /\ e < EpochOf(T)
      /\ Done(e, now) <=> e <= numberOfEpochs /\ e < CurEpoch
  BY <1>2, DoneOrNot DEF CurEpoch
<1>4. e <= LastLive /\ Ended(e) <=> e <= numberOfEpochs /\ e < CurEpoch
  BY <1>2 DEF Ended, LastLive, SmallerOf
<1>5. e \in Visited(u) => /\ T # 0 /\ EpochOf(T) <= e /\ e <= LastLive /\ TotalUnits(e) # 0
  BY <1>1, <1>2 DEF Visited
<1>6. e <= numberOfEpochs => LedgerTotal(e) = TotalUnits(e) /\ LedgerUnits(e, u) = UserUnits(u, e)
  BY <1>0, <1>2, UpdateStoresTotals, UpdateStoresUnits DEF LInv
<1>7. e \in Visited(u) /\ Ended(e) => RewardPerVestingEpoch(u, e) = Share(u, e)
  BY <1>4, <1>5, <1>6 DEF RewardPerVestingEpoch, Share
<1>8. LedgerTotal(e) = 0 => Share(u, e) = 0
  BY DEF Share
<1>9. LedgerUnits(e, u) = 0 => Share(u, e) = 0
  <2> SUFFICES ASSUME LedgerUnits(e, u) = 0, LedgerTotal(e) # 0 PROVE Share(u, e) = 0
    BY <1>8
  <2>1. PICK t \in Nat \ {0}, r \in Nat : t = LedgerTotal(e) /\ r = totalRewards[e]
    BY <1>0, LedgerTotalType DEF LInv, TypeOK
  <2>2. r * 0 = 0
    OBVIOUS
  <2>3. 0 \div t = 0 /\ 0 \div VestingEpochs = 0
    OBVIOUS
  <2> QED
    BY <2>1, <2>2, <2>3 DEF Share
<1>10. ASSUME Done(e, now), ~Done(e, T), ~(e \in Visited(u) /\ Ended(e)) PROVE Share(u, e) = 0
  <2>1. e <= numberOfEpochs /\ EpochOf(T) <= e /\ e <= LastLive /\ Ended(e) /\ e \notin Visited(u)
    BY <1>2, <1>3, <1>4, <1>10
  <2>2. CASE TotalUnits(e) = 0
    BY <1>6, <1>8, <2>1, <2>2
  <2>3. CASE T = 0 \/ (totalStake = 0 /\ e > EpochOf(T))
    <3>1. e > EpochOf(T)
      <4>1. T = 0 => EpochOf(T) = 0
        BY <1>2, EpochBounds
      <4> QED
        BY <1>2, <2>3, <4>1
    <3>2. stakeUnitsForUser[e][u] = 0
      BY <1>0, <1>1, <3>1 DEF NoUnitsAhead
    <3>3. balances[u] = 0
      <4>1. T = 0 => balances[u] = 0
        BY <1>0, <1>1 DEF LInv, NewcomersHaveNothing
      <4>2. balances[u] \in Nat /\ balances[u] <= totalStake
        BY <1>0, UserFacts, UserWithinTotal
      <4> QED
        BY <2>3, <4>1, <4>2
    <3>4. PICK l \in Nat : l = Length(now, T, e)
      BY <1>0, <1>1, UserFacts
    <3>5. Units(balances[u], T, e) = 0 * l /\ 0 * l = 0
      BY <3>3, <3>4, UnitsAre
    <3>6. LedgerUnits(e, u) = 0
      BY <1>1, <3>2, <3>5 DEF LedgerUnits
    <3> QED
      BY <1>9, <3>6
  <2>4. T # 0 /\ TotalUnits(e) # 0 => totalStake = 0 /\ \E i \in EpochOf(T)..e : TotalUnits(i) = 0
    <3>1. e \in EpochOf(T)..LastLive
      <4>1. LastLive \in Nat
        BY <1>0, UserFacts
      <4> QED
        BY <1>2, <2>1, <4>1
    <3> QED
      BY <1>1, <2>1, <3>1 DEF Visited
  <2>5. T # 0 /\ TotalUnits(e) # 0 => e > EpochOf(T)
    BY <1>2, <2>1, <2>4
  <2> QED
    BY <2>2, <2>3, <2>4, <2>5
<1>11. Done(e, T) => Done(e, now)
  BY <1>2, <1>3
<1>12. e \in Visited(u) /\ Ended(e) => Done(e, now) /\ ~Done(e, T)
  BY <1>2, <1>3, <1>4, <1>5
<1> QED
  BY <1>1, <1>7, <1>10, <1>11, <1>12

LEMMA GrantedType ==
    ASSUME LInv, TypeOK, NEW u \in User, NEW t, NEW k
    PROVE  /\ \A e \in Epoch : Granted(u, t, k)[e] \in Nat
           /\ SumIn(Granted(u, t, k), Epoch) \in Nat
<1>1. PICK f : f = Granted(u, t, k)
  OBVIOUS
<1>2. \A e \in Epoch : f[e] \in Nat
  BY <1>1, ShareType DEF Granted
<1>3. SumIn(f, Epoch) \in Nat
  BY <1>2, EpochsFinite, SumNat
<1> QED
  BY <1>1, <1>2, <1>3

(* Nothing vests in epoch 0, or comes to one that was claimed. *)
LEMMA NothingForClaimed ==
    ASSUME RInv, NEW u \in User, NEW k \in VestEpoch, k <= lastEpochClaimed[u]
    PROVE  Available(u, k) = 0
<1>1. lastEpochClaimed[u] \in Nat /\ k \in Nat
  BY DEF RInv, TypeOK, VestEpoch
<1>2. CASE lastEpochClaimed[u] > 0
  BY <1>2, ClaimedStaysEmpty DEF RInv
<1>3. CASE k = 0
  <2>1. ASSUME NEW e \in Visited(u) PROVE ~(Ended(e) /\ VestsAt(e, k))
    <3>1. PICK T \in Nat : T = lastTimeUserStakeUpdated[u]
      BY DEF RInv, TypeOK
    <3>2. EpochOf(T) \in Nat /\ LastLive \in Int
      BY <3>1, EpochBounds DEF LastLive, SmallerOf, CurEpoch, RInv, TypeOK
    <3>3. e \in Nat
      BY <3>1, <3>2 DEF Visited
    <3> QED
      BY <1>3, <3>3 DEF VestsAt
  <2>2. availableRewardsForUser[k][u] = 0
    BY <1>1, <1>3 DEF RInv, AvailableAsGranted
  <2> QED
    BY <2>1, <2>2, NoRewards
<1> QED
  BY <1>1, <1>2, <1>3

(* Settled, a vesting epoch has the user's part of all epochs that are     *)
(* over by now.                                                            *)
LEMMA AvailableSettled ==
    ASSUME RInv, NEW u \in User, NEW k \in VestEpoch
    PROVE  Available(u, k) = IF k <= lastEpochClaimed[u] THEN 0
                             ELSE SumIn(Granted(u, now, k), Epoch)
<1>1. CASE k <= lastEpochClaimed[u]
  BY <1>1, NothingForClaimed
<1>2. CASE ~(k <= lastEpochClaimed[u])
  <2>0. LInv /\ TypeOK
    BY DEF RInv
  <2>1. PICK T \in 0..now : T = lastTimeUserStakeUpdated[u]
    BY <2>0 DEF LInv, UsersTyped
  <2>2. PICK f, g, h :
           /\ f = Granted(u, T, k) /\ h = Granted(u, now, k)
           /\ g = [e \in Epoch |-> IF e \in Visited(u) /\ Ended(e) /\ VestsAt(e, k)
                                   THEN RewardPerVestingEpoch(u, e) ELSE 0]
    OBVIOUS
  <2>3. \A e \in Epoch : f[e] \in Int /\ g[e] \in Int /\ h[e] = f[e] + g[e]
    <3> TAKE e \in Epoch
    <3>1. PICK s \in Nat : s = Share(u, e)
      BY <2>0, ShareType
    <3>2. /\ e \in Visited(u) /\ Ended(e) => /\ Done(e, now) /\ ~Done(e, T)
                                             /\ RewardPerVestingEpoch(u, e) = s
          /\ Done(e, now) /\ ~Done(e, T) => (e \in Visited(u) /\ Ended(e)) \/ s = 0
          /\ Done(e, T) => Done(e, now)
      BY <2>1, <3>1, SettledEpochs
    <3>3. /\ f[e] = IF Done(e, T) /\ VestsAt(e, k) THEN s ELSE 0
          /\ h[e] = IF Done(e, now) /\ VestsAt(e, k) THEN s ELSE 0
          /\ g[e] = IF e \in Visited(u) /\ Ended(e) /\ VestsAt(e, k)
                    THEN RewardPerVestingEpoch(u, e) ELSE 0
      BY <2>2, <3>1 DEF Granted
    <3> QED
      BY <3>2, <3>3
  <2>4. SumIn(h, Epoch) = SumIn(f, Epoch) + SumIn(g, Epoch)
    BY <2>3, EpochsFinite, SumPlus
  <2>5. PICK W, w : /\ W = {e \in Visited(u) : Ended(e) /\ VestsAt(e, k)}
                    /\ w = [e \in W |-> RewardPerVestingEpoch(u, e)]
    OBVIOUS
  <2>6. W \in SUBSET Epoch
    <3> SUFFICES ASSUME NEW e \in Visited(u) PROVE e \in Epoch
      BY <2>5
    <3>1. T # 0 /\ T >= StartTime /\ T \in Nat /\ now \in Nat /\ numberOfEpochs \in 0..MaxEpochs
      BY <2>0, <2>1 DEF Visited, RInv, SettledOnceStarted, TypeOK
    <3>2. EpochOf(T) >= 1 /\ EpochOf(T) \in Nat /\ LastLive \in Nat /\ LastLive <= MaxEpochs
      BY <3>1, EpochBounds DEF LastLive, CurEpoch, SmallerOf
    <3>3. e \in EpochOf(T)..LastLive
      BY <2>1, <3>1, <3>2 DEF Visited
    <3> QED
      BY <3>2, <3>3 DEF Epoch
  <2>7. \A e \in W : w[e] \in Int /\ g[e] = w[e]
    BY <2>2, <2>3, <2>5, <2>6
  <2>8. \A e \in Epoch \ W : g[e] = 0
    BY <2>2, <2>5
  <2>9. IsFiniteSet(Epoch)
    BY EpochsFinite
  <2>10. SumIn(g, Epoch) = SumIn(w, W)
    BY ONLY <2>6, <2>7, <2>8, <2>9, SumWiden
  <2>11. Available(u, k) = availableRewardsForUser[k][u] + SumIn(w, W)
    <3>1. DOMAIN w = W
      BY <2>5
    <3>2. SumOver(w) = SumIn(w, W)
      BY <3>1, SumOverIs
    <3> QED
      BY <2>5, <3>2 DEF Available
  <2>12. availableRewardsForUser[k][u] = SumIn(f, Epoch)
    BY <1>2, <2>1, <2>2 DEF RInv, AvailableAsGranted
  <2>13. Available(u, k) = SumIn(h, Epoch)
    BY <2>4, <2>10, <2>11, <2>12, Zenon
  <2> QED
    BY <1>2, <2>2, <2>13
<1> QED
  BY <1>1, <1>2

(* A step does not touch the rewards of an epoch that is over. *)
LEMMA EndedStays ==
    ASSUME RInv, [Next]_vars, NEW e \in Epoch, EndOf(e) <= now
    PROVE  /\ e <= numberOfEpochs' <=> e <= numberOfEpochs
           /\ e <= numberOfEpochs => \A u \in User : Share(u, e)' = Share(u, e)
<1>1. /\ LInv /\ TypeOK /\ now \in Nat /\ numberOfEpochs \in Nat /\ e \in Nat \ {0}
      /\ totalRewards \in [Epoch -> Nat]
  BY EpochsFinite DEF RInv, TypeOK
<1>2. CurEpoch \in Nat /\ e < CurEpoch
  BY <1>1, BegunOrNot, EpochBounds DEF CurEpoch
<1>3. /\ e <= numberOfEpochs' <=> e <= numberOfEpochs
      /\ e <= numberOfEpochs => totalRewards'[e] = totalRewards[e]
  <2>1. ASSUME NEW reward \in Reward, Fund(reward)
        PROVE  /\ e <= numberOfEpochs' <=> e <= numberOfEpochs
               /\ totalRewards'[e] = totalRewards[e]
    BY <1>1, <1>2, <2>1 DEF Fund
  <2>2. ASSUME NEW i \in Epoch, NEW reward \in Reward, TopUpRewards(i, reward)
        PROVE  numberOfEpochs' = numberOfEpochs /\ totalRewards'[e] = totalRewards[e]
    BY <1>1, <1>2, <2>2, EpochsFinite DEF TopUpRewards
  <2>3. \/ \E reward \in Reward : Fund(reward)
        \/ \E i \in Epoch, reward \in Reward : TopUpRewards(i, reward)
        \/ UNCHANGED <<numberOfEpochs, totalRewards>>
    BY DEF Next, Stake, Withdraw, RedeemRewards, UpdateAndReadEpochData, SetUpEmergencyMode,
       SpenderWithdraw, SetStatus, Tick, fundVars, vars
  <2> QED
    BY <2>1, <2>2, <2>3
<1>4. LedgerTotal(e)' = LedgerTotal(e)
  <2>1. LedgerTotal(e) \in Nat
    BY <1>1, LedgerTotalType DEF LInv
  <2> QED
    BY <1>1, <1>2, <2>1, NextTotals DEF LInv, TotalsStep
<1>5. \A u \in User : LedgerUnits(e, u)' = LedgerUnits(e, u)
  <2> TAKE u \in User
  <2>1. LedgerUnits(e, u) \in Nat
    BY <1>1, UserWithinTotal
  <2> QED
    BY <1>1, <1>2, <2>1, NextUnits DEF UnitsStep
<1> QED
  BY <1>3, <1>4, <1>5 DEF Share

LEMMA GrantedStays ==
    ASSUME RInv, [Next]_vars, NEW u \in User, NEW k, NEW t \in 0..now
    PROVE  Granted(u, t, k)' = Granted(u, t, k)
<1>1. now \in Nat
  BY DEF RInv, TypeOK
<1>2. ASSUME NEW e \in Epoch
      PROVE  /\ Done(e, t)' <=> Done(e, t)
             /\ Done(e, t) => Share(u, e)' = Share(u, e)
  <2>1. EndOf(e) \in Int
    BY EpochsFinite, StartType
  <2>2. CASE EndOf(e) <= now
    BY <2>2, EndedStays DEF Done
  <2>3. CASE ~(EndOf(e) <= now)
    BY <1>1, <2>1, <2>3 DEF Done
  <2> QED
    BY <2>2, <2>3
<1> QED
  BY <1>2 DEF Granted

(* The parts of epoch e's reward that vest after c, until m. *)
PartsBetween(c, m, e, n, K) ==
    [k \in K |-> IF c < k /\ k <= m /\ VestsAt(e, k) THEN n ELSE 0]

LEMMA Window ==
    ASSUME NEW K, IsFiniteSet(K), NEW c \in Int, NEW m \in Int, NEW e \in Int, NEW n \in Int,
           c <= m, \A k \in K : k \in Int, \A k \in Int : c < k /\ k <= m => k \in K
    PROVE  SumIn(PartsBetween(c, m, e, n, K), K) = n * (Vested(m, e) - Vested(c, e))
<1>0. PICK f : f = PartsBetween(c, m, e, n, K)
  OBVIOUS
<1> DEFINE lo == LargerOf(c, e) + 1
<1> DEFINE hi == SmallerOf(m, e + VestingEpochs)
<1>1. lo \in Int /\ hi \in Int
  BY DEF LargerOf, SmallerOf
<1>2. \A k \in Int : k \in lo..hi <=> c < k /\ k <= m /\ VestsAt(e, k)
  BY DEF LargerOf, SmallerOf, VestsAt
<1>3. PICK W : W = lo..hi
  OBVIOUS
<1>4. /\ IsFiniteSet(W)
      /\ Cardinality(W) = IF lo > hi THEN 0 ELSE hi - lo + 1
  BY <1>1, <1>3, FS_Interval
<1>5. Cardinality(W) = Vested(m, e) - Vested(c, e)
  BY <1>4 DEF LargerOf, SmallerOf, Vested
<1> HIDE DEF lo, hi
<1>6. W \in SUBSET K
  BY <1>1, <1>2, <1>3
<1>7. \A k \in W : f[k] = n
  BY <1>0, <1>1, <1>2, <1>3, <1>6 DEF PartsBetween
<1>8. SumIn(f, W) = n * Cardinality(W)
  BY <1>4, <1>7, SumConstant
<1>9. \A k \in W : f[k] \in Int /\ f[k] = f[k]
  BY <1>7
<1>10. \A k \in K \ W : f[k] = 0
  BY <1>0, <1>1, <1>2, <1>3 DEF PartsBetween
<1>11. SumIn(f, K) = SumIn(f, W)
  BY ONLY IsFiniteSet(K), <1>6, <1>9, <1>10, SumWiden
<1> QED
  BY <1>0, <1>5, <1>8, <1>11

(* The parts of all epochs over at t that vest after c, until m. *)
Vesting(u, t, c, m) ==
    [e \in Epoch |-> IF Done(e, t) THEN Share(u, e) * (Vested(m, e) - Vested(c, e)) ELSE 0]

(* The vesting epochs after c, until m, taken together: from each epoch    *)
(* that was over at t, the parts that vest between c and m.                *)
LEMMA VestedBetween ==
    ASSUME LInv, TypeOK, NEW u \in User, NEW t \in Int, NEW c \in Int, NEW m \in Int, c <= m,
           NEW K, IsFiniteSet(K),
           \A k \in K : k \in Int, \A k \in Int : c < k /\ k <= m => k \in K,
           NEW g, \A k \in K : g[k] = IF c < k /\ k <= m THEN SumIn(Granted(u, t, k), Epoch) ELSE 0
    PROVE  SumIn(g, K) = SumIn(Vesting(u, t, c, m), Epoch)
<1>1. PICK table :
         table = [k \in K |-> [e \in Epoch |->
                   IF c < k /\ k <= m /\ Done(e, t) /\ VestsAt(e, k) THEN Share(u, e) ELSE 0]]
  OBVIOUS
<1>2. PICK h : h = Vesting(u, t, c, m)
  OBVIOUS
<1>3. IsTable(table, K, Epoch)
  BY <1>1, ShareType DEF IsTable
<1>4. \A k \in K : g[k] = SumIn(table[k], Epoch)
  <2> TAKE k \in K
  <2>1. CASE c < k /\ k <= m
    <3>1. table[k] = Granted(u, t, k)
      BY <1>1, <2>1 DEF Granted
    <3> QED
      BY <2>1, <3>1
  <2>2. CASE ~(c < k /\ k <= m)
    <3>1. \A e \in Epoch : table[k][e] = 0
      BY <1>1, <2>2
    <3>2. SumIn(table[k], Epoch) = 0
      BY <3>1, EpochsFinite, SumZero
    <3> QED
      BY <2>2, <3>2
  <2> QED
    BY <2>1, <2>2
<1>5. \A e \in Epoch : h[e] = SumIn(Column(table, K, e), K)
  <2> TAKE e \in Epoch
  <2>1. PICK n \in Int : n = IF Done(e, t) THEN Share(u, e) ELSE 0
    BY ShareType
  <2>2. Column(table, K, e) = PartsBetween(c, m, e, n, K)
    BY <1>1, <2>1 DEF Column, PartsBetween
  <2>3. e \in Int
    BY EpochsFinite
  <2>4. SumIn(PartsBetween(c, m, e, n, K), K) = n * (Vested(m, e) - Vested(c, e))
    BY <2>3, Window
  <2>5. PICK d \in Int : d = Vested(m, e) - Vested(c, e)
    <3>1. Vested(m, e) \in Int /\ Vested(c, e) \in Int
      BY <2>3 DEF Vested, LargerOf, SmallerOf
    <3> QED
      BY <3>1
  <2>6. 0 * d = 0
    OBVIOUS
  <2> QED
    BY <1>2, <2>1, <2>2, <2>4, <2>5, <2>6 DEF Vesting
<1>6. IsFiniteSet(Epoch)
  BY EpochsFinite
<1>7. SumIn(RowSums(table, K, Epoch), K) = SumIn(ColumnSums(table, K, Epoch), Epoch)
  BY <1>3, <1>6, SumSwap
<1>8. SumIn(g, K) = SumIn(RowSums(table, K, Epoch), K)
  <2>1. PICK r : r = RowSums(table, K, Epoch)
    OBVIOUS
  <2>2. \A k \in K : g[k] \in Int /\ g[k] = r[k]
    BY <1>4, <2>1, GrantedType DEF RowSums
  <2> QED
    BY <2>1, <2>2, SumSame
<1>9. h = ColumnSums(table, K, Epoch)
  BY <1>2, <1>5 DEF ColumnSums, Vesting
<1> QED
  BY <1>2, <1>7, <1>8, <1>9

(* What is paid to u when he claims. *)
AmountOut(u) == SumOver([k \in Claimable(u) |-> Available(u, k)])

(* A claim covers epochs up to one that rewards can have vested at, and    *)
(* pays the parts that have vested since the last one.                     *)
LEMMA AmountIs ==
    ASSUME RInv, NEW u \in User
    PROVE  LET c == lastEpochClaimed[u]
           IN  /\ c \in Nat /\ LastClaimable \in Nat /\ c <= LastClaimable
               /\ LastClaimable <= CurEpoch /\ LastClaimable <= numberOfEpochs + VestingEpochs
               /\ Claimable(u) \subseteq VestEpoch
               /\ AmountOut(u) \in Nat
               /\ AmountOut(u) = SumIn(Vesting(u, now, c, LastClaimable), Epoch)
<1>0. LInv /\ TypeOK /\ CInv
  BY DEF RInv
<1>1. PICK c \in Nat : c = lastEpochClaimed[u]
  BY <1>0 DEF TypeOK
<1>2. PICK T \in Nat : T = lastTimeUserStakeUpdated[u]
  BY <1>0 DEF TypeOK
<1>3. /\ now \in Nat /\ numberOfEpochs \in 0..MaxEpochs /\ CurEpoch \in Nat /\ T <= now
      /\ EpochOf(T) \in Nat /\ EpochOf(T) <= CurEpoch
  <2>1. now \in Nat /\ numberOfEpochs \in 0..MaxEpochs /\ T <= now
    BY <1>0, <1>2 DEF TypeOK, CInv, SettledWhenClaimed
  <2> QED
    BY <1>2, <2>1, EpochBounds, EpochMonotone DEF CurEpoch
<1>4. c <= CurEpoch /\ c <= numberOfEpochs + VestingEpochs
  <2>1. c > 0 => c <= EpochOf(T)
    BY <1>0, <1>1, <1>2 DEF CInv, SettledWhenClaimed
  <2> QED
    BY <1>1, <1>3, <2>1 DEF RInv, ClaimsWithinVesting
<1>5. PICK m \in Nat : /\ m = LastClaimable /\ c <= m
                       /\ m <= CurEpoch /\ m <= numberOfEpochs + VestingEpochs
  BY <1>3, <1>4 DEF LastClaimable, SmallerOf
<1>6. PICK K : K = Claimable(u) /\ K = c..m
  BY <1>1, <1>5 DEF Claimable
<1>7. /\ IsFiniteSet(K) /\ K \subseteq VestEpoch
      /\ \A k \in K : k \in Int
      /\ \A k \in Int : c < k /\ k <= m => k \in K
  <2>1. IsFiniteSet(K)
    <3>1. c \in Int /\ m \in Int
      OBVIOUS
    <3> QED
      BY <1>6, <3>1, FS_Interval
  <2>2. K \subseteq VestEpoch
    BY <1>3, <1>5, <1>6 DEF VestEpoch
  <2> QED
    BY <1>6, <2>1, <2>2
<1>8. PICK g : g = [k \in K |-> Available(u, k)]
  OBVIOUS
<1>9. \A k \in K : g[k] = IF c < k /\ k <= m THEN SumIn(Granted(u, now, k), Epoch) ELSE 0
  BY <1>1, <1>5, <1>6, <1>7, <1>8, AvailableSettled
<1>10. now \in Int /\ c \in Int /\ m \in Int
  BY <1>3
<1>11. SumIn(g, K) = SumIn(Vesting(u, now, c, m), Epoch)
  BY <1>0, <1>5, <1>7, <1>9, <1>10, VestedBetween
<1>12. AmountOut(u) = SumIn(g, K)
  <2>1. DOMAIN g = K
    BY <1>8
  <2> QED
    BY <1>6, <1>8, <2>1, SumOverIs DEF AmountOut
<1>13. SumIn(g, K) \in Nat
  <2>1. \A k \in K : g[k] \in Nat
    BY <1>0, <1>9, GrantedType
  <2> QED
    BY <1>7, <2>1, SumNat
<1> QED
  BY <1>1, <1>5, <1>6, <1>7, <1>11, <1>12, <1>13

LEMMA RedeemIs ==
    ASSUME NEW u \in User, RedeemRewards(u)
    PROVE  /\ IsUserAllowedToUse
           /\ UpdatePendingRewards(u, Claimable(u))
           /\ lastEpochClaimed' = [lastEpochClaimed EXCEPT ![u] = LastClaimable]
           /\ AmountOut(u) <= pendleHeld
           /\ pendleHeld' = pendleHeld - AmountOut(u)
           /\ paid' = [paid EXCEPT ![u] = @ + AmountOut(u)]
           /\ UNCHANGED <<now, modeVars, fundVars, stakeVars>>
BY DEF RedeemRewards, AmountOut

(* What an update leaves available. *)
LEMMA UpdateTypes ==
    ASSUME RInv, NEW u \in User, NEW claimed, UpdatePendingRewards(u, claimed)
    PROVE  /\ availableRewardsForUser' \in [VestEpoch -> [User -> Nat]]
           /\ \A k \in VestEpoch, w \in User :
                availableRewardsForUser'[k][w] =
                  IF w # u THEN availableRewardsForUser[k][w]
                  ELSE IF k \in claimed THEN 0 ELSE Available(u, k)
<1>1. availableRewardsForUser' =
         [k \in VestEpoch |-> [availableRewardsForUser[k] EXCEPT
                                 ![u] = IF k \in claimed THEN 0 ELSE Available(u, k)]]
  BY DEF UpdatePendingRewards
<1>2. availableRewardsForUser \in [VestEpoch -> [User -> Nat]]
  BY DEF RInv, TypeOK
<1>3. \A k \in VestEpoch : Available(u, k) \in Nat
  BY AvailableSettled, GrantedType DEF RInv
<1> QED
  BY <1>1, <1>2, <1>3

LEMMA NextTypes == RInv /\ [Next]_vars => TypeOK'
<1> SUFFICES ASSUME RInv, [Next]_vars PROVE TypeOK'
  OBVIOUS
<1>0. TypeOK
  BY DEF RInv
<1>1. LInv'
  BY NextUnits DEF RInv
<1>2. /\ now' \in Nat /\ numberOfEpochs' \in 0..MaxEpochs /\ totalStake' \in Nat
      /\ totalStakeUnits' \in [Epoch -> Nat] /\ lastUpdated' \in [Epoch -> Nat]
      /\ stakeUnitsForUser' \in [Epoch -> [User -> Nat]]
      /\ balances' \in [User -> Nat]
      /\ lastTimeUserStakeUpdated' \in [User -> Nat]
  BY <1>1 DEF LInv, TInv, TotalsTyped, UsersTyped
<1>3. CInv' /\ lastEpochClaimed' \in [User -> Nat]
  BY NextClaims DEF RInv, CInv, ClaimTyped
<1>4. ASSUME NEW u \in User, NEW amount \in 1..MaxStake, Stake(u, amount) PROVE TypeOK'
  <2>1. stakeHeld' \in Nat /\ UNCHANGED <<status, spenderApproved, totalRewards, paid, pendleHeld>>
    BY <1>0, <1>4 DEF Stake, TypeOK, modeVars, fundVars, claimVars
  <2> QED
    BY <1>0, <1>2, <1>3, <1>4, <2>1, UpdateTypes DEF Stake, TypeOK
<1>5. ASSUME NEW u \in User, NEW amount \in 1..MaxStake, Withdraw(u, amount) PROVE TypeOK'
  <2>1. stakeHeld' \in Nat /\ UNCHANGED <<status, spenderApproved, totalRewards, paid, pendleHeld>>
    BY <1>0, <1>5 DEF Withdraw, TypeOK, modeVars, fundVars, claimVars
  <2> QED
    BY <1>0, <1>2, <1>3, <1>5, <2>1, UpdateTypes DEF Withdraw, TypeOK
<1>6. ASSUME NEW u \in User, RedeemRewards(u) PROVE TypeOK'
  <2>1. PICK n \in Nat : n = AmountOut(u)
    BY AmountIs
  <2>2. pendleHeld' \in Nat /\ paid' \in [User -> Nat]
        /\ UNCHANGED <<status, spenderApproved, totalRewards, stakeHeld>>
    BY <1>0, <1>6, <2>1, RedeemIs DEF TypeOK, modeVars, fundVars, stakeVars
  <2> QED
    BY <1>0, <1>2, <1>3, <1>6, <2>2, RedeemIs, UpdateTypes DEF TypeOK
<1>7. ASSUME NEW u \in User, UpdateAndReadEpochData(u) PROVE TypeOK'
  <2>1. UNCHANGED <<status, spenderApproved, totalRewards, paid, pendleHeld, stakeHeld>>
    BY <1>7 DEF UpdateAndReadEpochData, modeVars, fundVars, claimVars, stakeVars
  <2> QED
    BY <1>0, <1>2, <1>3, <1>7, <2>1, UpdateTypes DEF UpdateAndReadEpochData, TypeOK
<1>8. ASSUME NEW reward \in Reward, Fund(reward) PROVE TypeOK'
  <2>1. reward \in Nat
    BY <1>8, RewardAssumption
  <2>2. totalRewards' = [totalRewards EXCEPT ![numberOfEpochs + 1] = reward]
        /\ pendleHeld' = pendleHeld + reward
        /\ UNCHANGED <<status, spenderApproved, availableRewardsForUser, stakeHeld, paid>>
    BY <1>8 DEF Fund, modeVars, unitVars, stakeVars, claimVars
  <2>3. totalRewards \in [Epoch -> Nat] /\ pendleHeld \in Nat
    BY <1>0 DEF TypeOK
  <2>4. totalRewards' \in [Epoch -> Nat]
    <3>1. totalRewards' = [totalRewards EXCEPT ![numberOfEpochs + 1] = reward]
      BY <2>2
    <3> QED
      BY ONLY <2>1, <2>3, <3>1
  <2>5. pendleHeld' \in Nat
    BY <2>1, <2>2, <2>3
  <2> QED
    BY <1>0, <1>2, <1>3, <2>2, <2>4, <2>5 DEF TypeOK
<1>9. ASSUME NEW e \in Epoch, NEW reward \in Reward, TopUpRewards(e, reward) PROVE TypeOK'
  <2>1. reward \in Nat
    BY <1>9, RewardAssumption
  <2>2. totalRewards' = [totalRewards EXCEPT ![e] = totalRewards[e] + reward]
        /\ pendleHeld' = pendleHeld + reward
        /\ UNCHANGED <<status, spenderApproved, availableRewardsForUser, stakeHeld, paid>>
    BY <1>9 DEF TopUpRewards, modeVars, unitVars, stakeVars, claimVars
  <2>3. totalRewards \in [Epoch -> Nat] /\ pendleHeld \in Nat
    BY <1>0 DEF TypeOK
  <2>4. totalRewards' \in [Epoch -> Nat] /\ pendleHeld' \in Nat
    BY <2>1, <2>2, <2>3
  <2> QED
    BY <1>0, <1>2, <1>3, <2>2, <2>4 DEF TypeOK
<1>10. CASE SetUpEmergencyMode \/ (\E s \in Status : SetStatus(s)) \/ Tick \/ UNCHANGED vars
  BY <1>0, <1>2, <1>3, <1>10 DEF SetUpEmergencyMode, SetStatus, Tick, vars, TypeOK,
     modeVars, fundVars, unitVars, stakeVars, claimVars
<1>11. CASE SpenderWithdraw
  BY <1>0, <1>2, <1>3, <1>11 DEF SpenderWithdraw, TypeOK, modeVars, fundVars, unitVars, claimVars
<1> QED
  BY <1>4, <1>5, <1>6, <1>7, <1>8, <1>9, <1>10, <1>11 DEF Next

SharesAreNat == \A u \in User, e \in Epoch : Share(u, e) \in Nat

LEMMA SharesTyped == LInv /\ TypeOK => SharesAreNat
BY ShareType DEF SharesAreNat

(* What was paid stays what had vested, while the user claims no more.     *)
LEMMA VestedStays ==
    ASSUME RInv, [Next]_vars, NEW u \in User, NEW c \in Nat, c = lastEpochClaimed[u],
           NEW e \in Epoch
    PROVE  (IF e <= numberOfEpochs THEN Share(u, e) * Vested(c, e) ELSE 0)' =
           IF e <= numberOfEpochs THEN Share(u, e) * Vested(c, e) ELSE 0
<1>1. /\ LInv /\ TypeOK /\ CInv /\ LInv' /\ TypeOK'
  BY NextUnits, NextTypes DEF RInv
<1>2. PICK T \in 0..now : T = lastTimeUserStakeUpdated[u]
  BY <1>1 DEF LInv, UsersTyped
<1>3. now \in Nat /\ T \in Nat /\ EpochOf(T) \in Nat /\ e \in Nat \ {0}
  BY <1>1, <1>2, EpochBounds, EpochsFinite DEF TypeOK
<1>4. CASE c <= e
  <2>1. Vested(c, e) = 0
    BY <1>3, <1>4 DEF Vested, LargerOf, SmallerOf
  <2>2. Share(u, e) \in Nat
    BY <1>1, ShareType
  <2>3. Share(u, e)' \in Nat
    <3>1. SharesAreNat'
      BY <1>1, SharesTyped, PTL
    <3> QED
      BY <3>1 DEF SharesAreNat
  <2>4. PICK s \in Nat, z \in Nat : s = Share(u, e) /\ z = Share(u, e)'
    BY <2>2, <2>3
  <2>5. s * 0 = 0 /\ z * 0 = 0
    OBVIOUS
  <2> QED
    BY <2>1, <2>4, <2>5
<1>5. CASE e < c
  <2>1. e < EpochOf(T)
    BY <1>1, <1>2, <1>3, <1>5 DEF CInv, SettledWhenClaimed
  <2>2. EndOf(e) <= T
    BY <1>3, <2>1, BegunOrNot
  <2>3. EndOf(e) <= now
    BY <1>2, <1>3, <2>2, StartType
  <2> QED
    BY <2>3, EndedStays
<1> QED
  BY <1>3, <1>4, <1>5

(* What a step does to units and claims.                                   *)
LEMMA RewardSteps ==
    ASSUME [Next]_vars
    PROVE  \/ \E u \in User : /\ IsUserAllowedToUse /\ UpdatePendingRewards(u, {})
                              /\ UNCHANGED <<now, fundVars, claimVars, pendleHeld>>
           \/ \E u \in User : RedeemRewards(u)
           \/ UNCHANGED <<unitVars, claimVars>>
<1>1. ASSUME NEW u \in User, NEW amount \in 1..MaxStake,
             Stake(u, amount) \/ Withdraw(u, amount)
      PROVE  /\ IsUserAllowedToUse /\ UpdatePendingRewards(u, {})
             /\ UNCHANGED <<now, fundVars, claimVars, pendleHeld>>
  BY <1>1 DEF Stake, Withdraw
<1>2. ASSUME NEW u \in User, UpdateAndReadEpochData(u)
      PROVE  /\ IsUserAllowedToUse /\ UpdatePendingRewards(u, {})
             /\ UNCHANGED <<now, fundVars, claimVars, pendleHeld>>
  BY <1>2 DEF UpdateAndReadEpochData
<1>3. \/ \E u \in User, amount \in 1..MaxStake : Stake(u, amount) \/ Withdraw(u, amount)
      \/ \E u \in User : UpdateAndReadEpochData(u) \/ RedeemRewards(u)
      \/ UNCHANGED <<unitVars, claimVars>>
  BY DEF Next, Fund, TopUpRewards, SetUpEmergencyMode, SpenderWithdraw, SetStatus, Tick, vars
<1> QED
  BY <1>1, <1>2, <1>3

LEMMA EpochsGrow == ASSUME RInv, [Next]_vars PROVE numberOfEpochs' >= numberOfEpochs
<1>1. numberOfEpochs \in Nat
  BY DEF RInv, TypeOK
<1>2. (\E reward \in Reward : Fund(reward)) \/ numberOfEpochs' = numberOfEpochs
  BY DEF Next, Stake, Withdraw, RedeemRewards, UpdateAndReadEpochData, SetUpEmergencyMode,
     SpenderWithdraw, SetStatus, Tick, TopUpRewards, fundVars, vars
<1> QED
  BY <1>1, <1>2 DEF Fund

(* Units follow the last settlement. *)
LEMMA UpdateKeepsAhead ==
    ASSUME RInv, NEW u \in User, NEW claimed, UpdatePendingRewards(u, claimed),
           IsUserAllowedToUse
    PROVE  NoUnitsAhead' /\ SettledOnceStarted'
<1>0. LInv /\ NoUnitsAhead /\ SettledOnceStarted /\ TypeOK
  BY DEF RInv
<1>1. now \in Nat /\ lastTimeUserStakeUpdated \in [User -> Nat]
      /\ stakeUnitsForUser \in [Epoch -> [User -> Nat]]
  BY <1>0 DEF TypeOK
<1>2. now >= StartTime
  BY <1>1 DEF IsUserAllowedToUse, CurEpoch, EpochOf
<1>3. lastTimeUserStakeUpdated' = [lastTimeUserStakeUpdated EXCEPT ![u] = now]
      /\ \A e \in Epoch : stakeUnitsForUser'[e] = [stakeUnitsForUser[e] EXCEPT ![u] = UserUnits(u, e)]
  BY DEF UpdatePendingRewards
<1>4. SettledOnceStarted'
  BY <1>0, <1>1, <1>2, <1>3 DEF SettledOnceStarted
<1>5. ASSUME NEW e \in Epoch, e > EpochOf(now) PROVE UserUnits(u, e) = 0
  <2>1. PICK T \in 0..now : T = lastTimeUserStakeUpdated[u]
    BY <1>0, UserFacts
  <2>2. /\ e \in Nat \ {0} /\ LastLive \in Nat /\ CurEpoch \in Nat /\ EpochOf(T) \in Nat
        /\ EpochOf(T) <= CurEpoch
    BY <1>0, <1>1, <2>1, UserFacts, EpochBounds, EpochMonotone DEF CurEpoch
  <2>3. stakeUnitsForUser[e][u] = 0
    BY <1>0, <1>5, <2>1, <2>2 DEF NoUnitsAhead, CurEpoch
  <2>4. e \notin Visited(u)
    <3>1. ~(e <= LastLive)
      BY <1>0, <1>5, <2>2, UserFacts DEF CurEpoch
    <3>2. PICK n \in Nat, l \in Nat : n = EpochOf(T) /\ l = LastLive
      BY <2>2
    <3>3. e \notin n..l
      BY <2>2, <3>1, <3>2
    <3> QED
      BY <2>1, <3>2, <3>3, Zenon DEF Visited
  <2> QED
    BY <2>3, <2>4 DEF UserUnits
<1>6. ASSUME NEW e \in Epoch, NEW w \in User, e > EpochOf(lastTimeUserStakeUpdated'[w])
      PROVE  stakeUnitsForUser'[e][w] = 0
  <2>1. CASE w = u
    BY <1>1, <1>3, <1>5, <1>6, <2>1
  <2>2. CASE w # u
    <3>1. lastTimeUserStakeUpdated'[w] = lastTimeUserStakeUpdated[w]
          /\ stakeUnitsForUser'[e][w] = stakeUnitsForUser[e][w]
      BY <1>1, <1>3, <2>2, ZenonT(60)
    <3> QED
      BY <1>0, <1>6, <3>1 DEF NoUnitsAhead
  <2> QED
    BY <2>1, <2>2
<1>7. NoUnitsAhead'
  BY <1>6 DEF NoUnitsAhead, EpochOf
<1> QED
  BY <1>4, <1>7

LEMMA NextAhead == ASSUME RInv, [Next]_vars PROVE NoUnitsAhead' /\ SettledOnceStarted'
<1>1. NoUnitsAhead /\ SettledOnceStarted
  BY DEF RInv
<1>2. CASE UNCHANGED unitVars
  BY <1>1, <1>2 DEF NoUnitsAhead, SettledOnceStarted, EpochOf, unitVars
<1>3. ASSUME NEW u \in User, RedeemRewards(u) PROVE NoUnitsAhead' /\ SettledOnceStarted'
  BY <1>3, RedeemIs, UpdateKeepsAhead
<1> QED
  BY <1>2, <1>3, RewardSteps, UpdateKeepsAhead

LEMMA NextWithin == ASSUME RInv, [Next]_vars PROVE ClaimsWithinVesting'
<1>1. /\ numberOfEpochs \in Nat /\ numberOfEpochs' \in Nat /\ numberOfEpochs <= numberOfEpochs'
      /\ lastEpochClaimed \in [User -> Nat] /\ ClaimsWithinVesting
  BY EpochsGrow, NextTypes DEF RInv, TypeOK
<1>2. CASE UNCHANGED claimVars
  BY <1>1, <1>2 DEF ClaimsWithinVesting, claimVars
<1>3. ASSUME NEW u \in User, RedeemRewards(u) PROVE ClaimsWithinVesting'
  <2>1. PICK m \in Nat : m = LastClaimable /\ m <= numberOfEpochs + VestingEpochs
    BY AmountIs
  <2>2. lastEpochClaimed' = [lastEpochClaimed EXCEPT ![u] = m]
    BY <1>3, <2>1, RedeemIs
  <2> QED
    BY <1>1, <2>1, <2>2 DEF ClaimsWithinVesting
<1> QED
  BY <1>2, <1>3, RewardSteps

(* Where a step leaves the available rewards as granted at a time t until  *)
(* now, so they are afterwards.                                            *)
LEMMA GrantedNext ==
    ASSUME RInv, [Next]_vars, NEW w \in User, NEW k \in VestEpoch, NEW t \in 0..now, NEW c,
           lastTimeUserStakeUpdated'[w] = t, lastEpochClaimed'[w] = c,
           availableRewardsForUser'[k][w] = IF k <= c THEN 0 ELSE SumIn(Granted(w, t, k), Epoch)
    PROVE  (availableRewardsForUser[k][w] =
              IF k <= lastEpochClaimed[w] THEN 0
              ELSE SumIn(Granted(w, lastTimeUserStakeUpdated[w], k), Epoch))'
<1>1. PICK f : f = Granted(w, t, k)
  OBVIOUS
<1>2. Granted(w, t, k)' = f
  BY <1>1, GrantedStays
<1>3. Granted(w, lastTimeUserStakeUpdated[w], k)' = Granted(w, t, k)'
  BY DEF Granted, Done
<1> QED
  BY <1>1, <1>2, <1>3

LEMMA NextAvailable == ASSUME RInv, [Next]_vars PROVE AvailableAsGranted'
<1>0. /\ AvailableAsGranted /\ TypeOK /\ now \in Nat
      /\ lastTimeUserStakeUpdated \in [User -> Nat] /\ lastEpochClaimed \in [User -> Nat]
      /\ \A w \in User : lastTimeUserStakeUpdated[w] \in 0..now
  BY DEF RInv, TypeOK, LInv, UsersTyped
<1>1. ASSUME NEW w \in User, NEW k \in VestEpoch,
             /\ lastTimeUserStakeUpdated'[w] = lastTimeUserStakeUpdated[w]
             /\ lastEpochClaimed'[w] = lastEpochClaimed[w]
             /\ availableRewardsForUser'[k][w] = availableRewardsForUser[k][w]
      PROVE  (availableRewardsForUser[k][w] =
                IF k <= lastEpochClaimed[w] THEN 0
                ELSE SumIn(Granted(w, lastTimeUserStakeUpdated[w], k), Epoch))'
  <2>1. PICK t \in 0..now, c \in Nat :
           t = lastTimeUserStakeUpdated[w] /\ c = lastEpochClaimed[w]
    BY <1>0
  <2>2. availableRewardsForUser[k][w] = IF k <= c THEN 0 ELSE SumIn(Granted(w, t, k), Epoch)
    BY <1>0, <2>1 DEF AvailableAsGranted
  <2> QED
    BY <1>1, <2>1, <2>2, GrantedNext
<1>2. CASE UNCHANGED <<unitVars, claimVars>>
  BY <1>1, <1>2 DEF AvailableAsGranted, unitVars, claimVars
<1>3. ASSUME NEW u \in User, UpdatePendingRewards(u, {}),
             UNCHANGED <<now, fundVars, claimVars, pendleHeld>>
      PROVE  AvailableAsGranted'
  <2>1. lastTimeUserStakeUpdated' = [lastTimeUserStakeUpdated EXCEPT ![u] = now]
        /\ lastEpochClaimed' = lastEpochClaimed
    BY <1>3 DEF UpdatePendingRewards, claimVars
  <2>2. ASSUME NEW w \in User, NEW k \in VestEpoch
        PROVE  (availableRewardsForUser[k][w] =
                  IF k <= lastEpochClaimed[w] THEN 0
                  ELSE SumIn(Granted(w, lastTimeUserStakeUpdated[w], k), Epoch))'
    <3>1. CASE w # u
      <4>1. availableRewardsForUser'[k][w] = availableRewardsForUser[k][w]
        BY <1>3, <3>1, UpdateTypes
      <4> QED
        BY <1>0, <1>1, <2>1, <3>1, <4>1
    <3>2. CASE w = u
      <4>1. PICK t \in 0..now, c \in Nat : t = now /\ c = lastEpochClaimed[u]
        BY <1>0
      <4>2. availableRewardsForUser'[k][u] = Available(u, k)
        BY <1>3, UpdateTypes
      <4>3. Available(u, k) = IF k <= c THEN 0 ELSE SumIn(Granted(u, t, k), Epoch)
        BY <4>1, AvailableSettled
      <4>4. lastTimeUserStakeUpdated'[u] = t /\ lastEpochClaimed'[u] = c
        BY <1>0, <2>1, <4>1
      <4> QED
        BY <3>2, <4>2, <4>3, <4>4, GrantedNext
    <3> QED
      BY <3>1, <3>2
  <2> QED
    BY <2>2 DEF AvailableAsGranted
<1>4. ASSUME NEW u \in User, RedeemRewards(u) PROVE AvailableAsGranted'
  <2>1. PICK m \in Nat : m = LastClaimable /\ lastEpochClaimed[u] <= m
    BY AmountIs
  <2>2. /\ lastTimeUserStakeUpdated' = [lastTimeUserStakeUpdated EXCEPT ![u] = now]
        /\ lastEpochClaimed' = [lastEpochClaimed EXCEPT ![u] = m]
        /\ UpdatePendingRewards(u, Claimable(u))
    BY <1>4, <2>1, RedeemIs DEF UpdatePendingRewards
  <2>3. ASSUME NEW w \in User, NEW k \in VestEpoch
        PROVE  (availableRewardsForUser[k][w] =
                  IF k <= lastEpochClaimed[w] THEN 0
                  ELSE SumIn(Granted(w, lastTimeUserStakeUpdated[w], k), Epoch))'
    <3>1. CASE w # u
      <4>1. availableRewardsForUser'[k][w] = availableRewardsForUser[k][w]
        BY <2>2, <3>1, UpdateTypes
      <4> QED
        BY <1>0, <1>1, <2>2, <3>1, <4>1
    <3>2. CASE w = u
      <4>1. PICK t \in 0..now, c \in Nat : t = now /\ c = lastEpochClaimed[u]
        BY <1>0
      <4>2. availableRewardsForUser'[k][u] = IF k \in c..m THEN 0 ELSE Available(u, k)
        BY <2>1, <2>2, <4>1, UpdateTypes DEF Claimable
      <4>3. Available(u, k) = IF k <= c THEN 0 ELSE SumIn(Granted(u, t, k), Epoch)
        BY <4>1, AvailableSettled
      <4>4. lastTimeUserStakeUpdated'[u] = t /\ lastEpochClaimed'[u] = m
        BY <1>0, <2>2, <4>1
      <4>5. k \in Nat /\ c <= m
        BY <2>1, <4>1 DEF VestEpoch
      <4>6. availableRewardsForUser'[k][u] = IF k <= m THEN 0 ELSE SumIn(Granted(u, t, k), Epoch)
        BY <4>2, <4>3, <4>5
      <4> QED
        BY <3>2, <4>4, <4>6, GrantedNext
    <3> QED
      BY <3>1, <3>2
  <2> QED
    BY <2>3 DEF AvailableAsGranted
<1> QED
  BY <1>2, <1>3, <1>4, RewardSteps

LEMMA VestedForStays ==
    ASSUME RInv, [Next]_vars, NEW u \in User, lastEpochClaimed'[u] = lastEpochClaimed[u]
    PROVE  VestedFor(u)' = VestedFor(u)
<1>1. PICK c \in Nat : c = lastEpochClaimed[u]
  BY DEF RInv, TypeOK
<1>2. VestedFor(u) = [e \in Epoch |-> IF e <= numberOfEpochs THEN Share(u, e) * Vested(c, e) ELSE 0]
  BY <1>1 DEF VestedFor
<1>3. VestedFor(u)' =
        [e \in Epoch |-> (IF e <= numberOfEpochs THEN Share(u, e) * Vested(c, e) ELSE 0)']
  BY <1>1 DEF VestedFor, Vested
<1> QED
  BY <1>1, <1>2, <1>3, VestedStays

LEMMA VestedType == \A c, e \in Int : Vested(c, e) \in Nat /\ Vested(c, e) <= VestingEpochs
BY DEF Vested, LargerOf, SmallerOf

(* What had vested at an earlier claim, and the parts this one pays.       *)
LEMMA PaysTheRest ==
    ASSUME RInv, [Next]_vars, NEW u \in User, UNCHANGED numberOfEpochs, NEW c \in Nat, NEW m \in Nat,
           c <= m, m <= CurEpoch, NEW e \in Epoch
    PROVE  (IF e <= numberOfEpochs THEN Share(u, e) * Vested(m, e) ELSE 0)' =
             (IF e <= numberOfEpochs THEN Share(u, e) * Vested(c, e) ELSE 0)
             + (IF Done(e, now) THEN Share(u, e) * (Vested(m, e) - Vested(c, e)) ELSE 0)
<1>1. /\ LInv /\ TypeOK /\ LInv' /\ TypeOK' /\ now \in Nat /\ numberOfEpochs \in Nat
      /\ e \in Nat \ {0}
  BY NextUnits, NextTypes, EpochsFinite DEF RInv, TypeOK
<1>2. PICK a \in Nat, b \in Nat : a = Vested(c, e) /\ b = Vested(m, e)
  <2>1. Vested(c, e) \in Nat /\ Vested(m, e) \in Nat
    <3>1. e \in Int /\ c \in Int /\ m \in Int
      BY EpochsFinite
    <3> QED
      BY <3>1, VestedType
  <2> QED
    BY <2>1
<1>3. Vested(m, e)' = b
  BY <1>2 DEF Vested
<1>4. CASE e > numberOfEpochs
  BY <1>1, <1>4 DEF Done
<1>5. CASE Done(e, now)
  <2>1. PICK s \in Nat : s = Share(u, e)
    BY <1>1, ShareType
  <2>2. Share(u, e)' = s /\ e <= numberOfEpochs /\ e <= numberOfEpochs'
    BY <1>5, <2>1, EndedStays DEF Done
  <2>3. s * b = s * a + s * (b - a)
    OBVIOUS
  <2> QED
    BY <1>2, <1>3, <1>5, <2>1, <2>2, <2>3
<1>6. CASE e <= numberOfEpochs /\ ~Done(e, now)
  <2>1. CurEpoch \in Nat /\ CurEpoch <= e
    BY <1>1, <1>6, DoneOrNot, EpochBounds DEF CurEpoch
  <2>2. a = 0 /\ b = 0
    BY <1>1, <1>2, <2>1 DEF Vested, LargerOf, SmallerOf
  <2>3. SharesAreNat /\ SharesAreNat'
    BY <1>1, SharesTyped, PTL
  <2>4. PICK s \in Nat, z \in Nat : s = Share(u, e) /\ z = Share(u, e)'
    BY <2>3 DEF SharesAreNat
  <2>5. s * 0 = 0 /\ z * 0 = 0
    OBVIOUS
  <2> QED
    BY <1>2, <1>3, <1>6, <2>2, <2>4, <2>5
<1> QED
  BY <1>1, <1>4, <1>5, <1>6

LEMMA NextPaid == ASSUME RInv, [Next]_vars PROVE PaidAsGranted'
<1>0. /\ PaidAsGranted /\ TypeOK /\ LInv /\ IsFiniteSet(Epoch)
      /\ lastEpochClaimed \in [User -> Nat] /\ paid \in [User -> Nat]
  BY EpochsFinite DEF RInv, TypeOK
<1>1. ASSUME NEW w \in User, lastEpochClaimed'[w] = lastEpochClaimed[w], paid'[w] = paid[w]
      PROVE  paid'[w] = SumIn(VestedFor(w)', Epoch)
  BY <1>0, <1>1, VestedForStays DEF PaidAsGranted
<1>2. CASE UNCHANGED claimVars
  BY <1>1, <1>2 DEF PaidAsGranted, claimVars
<1>3. ASSUME NEW u \in User, RedeemRewards(u) PROVE PaidAsGranted'
  <2>1. PICK c \in Nat, m \in Nat :
           /\ c = lastEpochClaimed[u] /\ m = LastClaimable /\ c <= m /\ m <= CurEpoch
           /\ AmountOut(u) = SumIn(Vesting(u, now, c, m), Epoch)
    BY AmountIs
  <2>2. /\ lastEpochClaimed' = [lastEpochClaimed EXCEPT ![u] = m]
        /\ paid' = [paid EXCEPT ![u] = @ + AmountOut(u)]
        /\ UNCHANGED numberOfEpochs
    BY <1>3, <2>1, RedeemIs DEF fundVars
  <2>3. PICK f, g, h :
           /\ f = [e \in Epoch |-> IF e <= numberOfEpochs THEN Share(u, e) * Vested(c, e) ELSE 0]
           /\ g = Vesting(u, now, c, m)
           /\ h = [e \in Epoch |-> (IF e <= numberOfEpochs THEN Share(u, e) * Vested(m, e) ELSE 0)']
    OBVIOUS
  <2>4. VestedFor(u) = f
    BY <2>1, <2>3 DEF VestedFor
  <2>5. VestedFor(u)' = h
    <3>1. lastEpochClaimed'[u] = m
      BY <1>0, <2>2
    <3> QED
      BY <2>3, <3>1 DEF VestedFor, Vested
  <2>6. \A e \in Epoch : f[e] \in Int /\ g[e] \in Int /\ h[e] = f[e] + g[e]
    <3> TAKE e \in Epoch
    <3>1. h[e] = f[e] + g[e]
      BY <2>1, <2>2, <2>3, PaysTheRest DEF Vesting
    <3>2. PICK s \in Nat, a \in Nat, b \in Nat :
             s = Share(u, e) /\ a = Vested(c, e) /\ b = Vested(m, e)
      <4>1. e \in Int /\ c \in Int /\ m \in Int
        BY EpochsFinite
      <4>2. Share(u, e) \in Nat /\ Vested(c, e) \in Nat /\ Vested(m, e) \in Nat
        BY <1>0, <4>1, ShareType, VestedType
      <4> QED
        BY <4>2
    <3>3. s * a \in Int /\ s * (b - a) \in Int
      OBVIOUS
    <3> QED
      BY <2>3, <3>1, <3>2, <3>3 DEF Vesting
  <2>7. SumIn(h, Epoch) = SumIn(f, Epoch) + SumIn(g, Epoch)
    BY ONLY <1>0, <2>6, SumPlus
  <2>8. paid'[u] = paid[u] + AmountOut(u) /\ paid[u] = SumIn(f, Epoch)
    BY <1>0, <2>2, <2>4 DEF PaidAsGranted
  <2>9. paid'[u] = SumIn(VestedFor(u)', Epoch)
    BY <2>1, <2>3, <2>5, <2>7, <2>8
  <2>10. ASSUME NEW w \in User PROVE paid'[w] = SumIn(VestedFor(w)', Epoch)
    BY <1>0, <1>1, <2>2, <2>9
  <2> QED
    BY <2>10 DEF PaidAsGranted
<1> QED
  BY <1>2, <1>3, RewardSteps

LEMMA NextRewards == RInv /\ [Next]_vars => RInv'
BY NextUnits, NextTypes, NextClaims, NextAhead, NextWithin, NextAvailable, NextPaid DEF RInv

LEMMA RewardsInit == Init => RInv
<1> SUFFICES ASSUME Init PROVE RInv
  OBVIOUS
<1>1. LInv /\ CInv
  BY UnitsInit, ClaimsInit
<1>2. TypeOK
  <2>1. now \in Nat /\ status \in Status /\ spenderApproved \in BOOLEAN
    <3>1. now = StartTime - 1 /\ status = "live" /\ spenderApproved = FALSE
      BY DEF Init
    <3>2. now \in Nat
      BY <3>1
    <3> QED
      BY <3>1, <3>2, StatusAssumption
  <2>2. numberOfEpochs \in 0..MaxEpochs
    BY DEF Init
  <2>3. availableRewardsForUser \in [VestEpoch -> [User -> Nat]]
        /\ stakeUnitsForUser \in [Epoch -> [User -> Nat]]
    BY DEF Init
  <2> QED
    BY <2>1, <2>2, <2>3 DEF Init, TypeOK
<1>3. NoUnitsAhead /\ SettledOnceStarted /\ ClaimsWithinVesting
  BY DEF Init, NoUnitsAhead, SettledOnceStarted, ClaimsWithinVesting
<1>4. \A e \in Epoch : ~(e <= numberOfEpochs)
  BY EpochsFinite DEF Init
<1>5. AvailableAsGranted
  <2>1. ASSUME NEW u \in User, NEW k \in VestEpoch, NEW t
        PROVE  SumIn(Granted(u, t, k), Epoch) = 0
    <3>1. \A e \in Epoch : Granted(u, t, k)[e] = 0
      BY <1>4 DEF Granted, Done
    <3> QED
      BY <3>1, EpochsFinite, SumZero
  <2> QED
    BY <2>1 DEF Init, AvailableAsGranted
<1>6. PaidAsGranted
  <2>1. ASSUME NEW u \in User PROVE SumIn(VestedFor(u), Epoch) = 0
    <3>1. \A e \in Epoch : VestedFor(u)[e] = 0
      BY <1>4 DEF VestedFor
    <3> QED
      BY <3>1, EpochsFinite, SumZero
  <2> QED
    BY <2>1 DEF Init, PaidAsGranted
<1> QED
  BY <1>1, <1>2, <1>3, <1>5, <1>6 DEF RInv

LEMMA RewardsHold == Spec => []RInv
BY RewardsInit, NextRewards, PTL DEF Spec

(* A sum over some of the epochs, written over all of them.                *)
LEMMA SumOverEpochs ==
    ASSUME NEW W \in SUBSET Epoch, NEW f, DOMAIN f = W, \A e \in W : f[e] \in Int,
           NEW g, \A e \in Epoch : g[e] = IF e \in W THEN f[e] ELSE 0
    PROVE  SumOver(f) = SumIn(g, Epoch)
<1>1. IsFiniteSet(Epoch)
  BY EpochsFinite
<1>2. \A e \in W : f[e] \in Int /\ g[e] = f[e]
  OBVIOUS
<1>3. \A e \in Epoch \ W : g[e] = 0
  OBVIOUS
<1>4. SumIn(g, Epoch) = SumIn(f, W)
  BY ONLY W \in SUBSET Epoch, <1>1, <1>2, <1>3, SumWiden
<1> QED
  BY <1>4, SumOverIs

(* What u was paid is what had vested when he last claimed (_doTransfer-   *)
(* Rewards), for any schedule, any users and any order of transactions.    *)
THEOREM PaidIsVested == Spec => []PaidAsVested
<1>1. ASSUME RInv PROVE PaidAsVested
  <2>1. /\ LInv /\ TypeOK /\ ClaimedEpochsStayEmpty /\ PaidAsGranted
        /\ numberOfEpochs \in 0..MaxEpochs
    BY <1>1 DEF RInv, CInv, TypeOK
  <2>2. ASSUME NEW u \in User
        PROVE  paid[u] = SumOver([e \in FundedEpochs |->
                                    Share(u, e) * SmallerOf(VestingEpochs,
                                                            LargerOf(0, lastEpochClaimed[u] - e))])
    <3>1. PICK f, g : /\ f = [e \in FundedEpochs |-> Share(u, e) * Vested(lastEpochClaimed[u], e)]
                      /\ g = VestedFor(u)
      OBVIOUS
    <3>2. FundedEpochs \in SUBSET Epoch /\ \A e \in Epoch : e \in FundedEpochs <=> e <= numberOfEpochs
      BY <2>1 DEF FundedEpochs, Epoch
    <3>3. \A e \in FundedEpochs : f[e] \in Int
      <4> TAKE e \in FundedEpochs
      <4>1. e \in Epoch /\ e \in Int /\ lastEpochClaimed[u] \in Int
        BY <2>1, <3>2, EpochsFinite DEF TypeOK
      <4>2. PICK s \in Nat, a \in Nat : s = Share(u, e) /\ a = Vested(lastEpochClaimed[u], e)
        <5>1. Share(u, e) \in Nat /\ Vested(lastEpochClaimed[u], e) \in Nat
          BY <2>1, <4>1, ShareType, VestedType
        <5> QED
          BY <5>1
      <4>3. s * a \in Int
        OBVIOUS
      <4> QED
        BY <3>1, <4>2, <4>3
    <3>4. \A e \in Epoch : g[e] = IF e \in FundedEpochs THEN f[e] ELSE 0
      BY <3>1, <3>2 DEF VestedFor
    <3>5. DOMAIN f = FundedEpochs
      BY <3>1
    <3>6. SumOver(f) = SumIn(g, Epoch)
      BY <3>2, <3>3, <3>4, <3>5, SumOverEpochs
    <3> QED
      BY <2>1, <3>1, <3>6 DEF PaidAsGranted, Vested
  <2> QED
    BY <2>1, <2>2 DEF PaidAsVested
<1> QED
  BY <1>1, RewardsHold, PTL

(* The share of u in the epochs that were over at t. *)
DueAt(u, t) == [e \in Epoch |-> IF Done(e, t) THEN VestingEpochs * Share(u, e) ELSE 0]

(* Everything that has vested or will: what is left after the last claim   *)
(* vests by the last vesting epoch there can be.                           *)
LEMMA PaidAndAvailable ==
    ASSUME RInv, NEW u \in User, NEW T, T = lastTimeUserStakeUpdated[u]
    PROVE  paid[u] + StillAvailable(u) = SumIn(DueAt(u, T), Epoch)
<1>0. LInv /\ TypeOK /\ CInv /\ AvailableAsGranted /\ PaidAsGranted /\ ClaimsWithinVesting
  BY DEF RInv
<1>1. PICK c \in Nat : c = lastEpochClaimed[u]
  BY <1>0 DEF TypeOK
<1>2. /\ T \in Nat /\ T <= now /\ numberOfEpochs \in 0..MaxEpochs /\ EpochOf(T) \in Nat
      /\ c <= EpochOf(T) /\ c <= numberOfEpochs + VestingEpochs
  <2>1. T \in Nat /\ T <= now /\ numberOfEpochs \in 0..MaxEpochs /\ c <= numberOfEpochs + VestingEpochs
    BY <1>0, <1>1 DEF TypeOK, CInv, SettledWhenClaimed, ClaimsWithinVesting
  <2>2. EpochOf(T) \in Nat
    BY <2>1, EpochBounds
  <2>3. c > 0 => c <= EpochOf(T)
    BY <1>0, <1>1 DEF CInv, SettledWhenClaimed
  <2> QED
    BY <2>1, <2>2, <2>3
<1>3. PICK m, K : m \in Int /\ m = MaxEpochs + VestingEpochs /\ c <= m /\ K = VestEpoch
  BY <1>2
<1>4. /\ IsFiniteSet(K) /\ \A k \in K : k \in Int /\ k <= m
      /\ \A k \in Int : c < k /\ k <= m => k \in K
  BY <1>3, EpochsFinite DEF VestEpoch
<1>5. PICK g : g = [k \in K |-> availableRewardsForUser[k][u]]
  OBVIOUS
<1>6. \A k \in K : g[k] = IF c < k /\ k <= m THEN SumIn(Granted(u, T, k), Epoch) ELSE 0
  BY <1>0, <1>1, <1>3, <1>4, <1>5 DEF AvailableAsGranted
<1>7. T \in Int /\ c \in Int /\ \A k \in K : k \in Int
  BY <1>2, <1>4
<1>8. PICK rest : rest = Vesting(u, T, c, m)
  OBVIOUS
<1>9. SumIn(g, K) = SumIn(rest, Epoch)
  <2>1. m \in Int /\ c <= m /\ IsFiniteSet(K)
    BY <1>3, <1>4
  <2>2. \A k \in Int : c < k /\ k <= m => k \in K
    BY <1>4
  <2> QED
    BY <1>0, <1>6, <1>7, <1>8, <2>1, <2>2, VestedBetween
<1>10. StillAvailable(u) = SumIn(g, K)
  <2>1. DOMAIN g = K
    BY <1>5
  <2> QED
    BY <1>3, <1>5, <2>1, SumOverIs DEF StillAvailable
<1>11. PICK f, h : f = VestedFor(u) /\ h = DueAt(u, T)
  OBVIOUS
<1>12. \A e \in Epoch : f[e] \in Int /\ rest[e] \in Int /\ h[e] = f[e] + rest[e]
  <2> TAKE e \in Epoch
  <2>1. e \in Int /\ e <= MaxEpochs
    BY DEF Epoch
  <2>2. PICK s \in Nat, a \in Nat : s = Share(u, e) /\ a = Vested(c, e)
    <3>1. Share(u, e) \in Nat /\ Vested(c, e) \in Nat
      BY <1>0, <1>7, <2>1, ShareType, VestedType
    <3> QED
      BY <3>1
  <2>3. Vested(m, e) = VestingEpochs
    BY <1>3, <2>1 DEF Vested, LargerOf, SmallerOf
  <2>4. /\ f[e] = IF e <= numberOfEpochs THEN s * a ELSE 0
        /\ rest[e] = IF Done(e, T) THEN s * (VestingEpochs - a) ELSE 0
        /\ h[e] = IF Done(e, T) THEN VestingEpochs * s ELSE 0
    BY <1>1, <1>8, <1>11, <2>2, <2>3 DEF VestedFor, DueAt, Vesting
  <2>5. /\ s * a \in Int /\ s * (VestingEpochs - a) \in Int
        /\ VestingEpochs * s = s * a + s * (VestingEpochs - a)
        /\ s * 0 = 0
    OBVIOUS
  <2>6. Done(e, T) <=> e <= numberOfEpochs /\ e < EpochOf(T)
    BY <1>2, DoneOrNot
  <2>7. e <= numberOfEpochs /\ ~Done(e, T) => a = 0
    BY <1>2, <2>1, <2>2, <2>6 DEF Vested, LargerOf, SmallerOf
  <2> QED
    BY <2>4, <2>5, <2>6, <2>7
<1>13. SumIn(h, Epoch) = SumIn(f, Epoch) + SumIn(rest, Epoch)
  <2>1. IsFiniteSet(Epoch)
    BY EpochsFinite
  <2> QED
    BY ONLY <1>12, <2>1, SumPlus
<1> QED
  BY <1>0, <1>9, <1>10, <1>11, <1>13 DEF PaidAsGranted

LEMMA DueType ==
    ASSUME LInv, TypeOK, NEW u \in User, NEW t, NEW e \in Epoch
    PROVE  VestingEpochs * Share(u, e) \in Nat /\ DueAt(u, t)[e] \in Nat
<1>1. PICK s \in Nat : s = Share(u, e)
  BY ShareType
<1>2. VestingEpochs * s \in Nat
  OBVIOUS
<1> QED
  BY <1>1, <1>2 DEF DueAt

(* Nothing is granted twice and nothing forgotten (_updatePendingRewards): *)
(* what u was paid and has available is exactly his share of the epochs    *)
(* that had ended when he was last settled, however often, for whatever    *)
(* epochs and in whatever order anybody was settled.                       *)
THEOREM GrantedExactly == Spec => []RewardsExact
<1>1. ASSUME RInv PROVE RewardsExact
  <2>1. LInv /\ TypeOK /\ numberOfEpochs \in 0..MaxEpochs
    BY <1>1 DEF RInv, TypeOK
  <2>2. ASSUME NEW u \in User
        PROVE  paid[u] + StillAvailable(u)
                 = SumOver([e \in {i \in FundedEpochs : EndOf(i) <= lastTimeUserStakeUpdated[u]} |->
                                VestingEpochs * Share(u, e)])
    <3>1. PICK T, W, f, g :
             /\ T = lastTimeUserStakeUpdated[u]
             /\ W = {i \in FundedEpochs : EndOf(i) <= T}
             /\ f = [e \in W |-> VestingEpochs * Share(u, e)]
             /\ g = DueAt(u, T)
      OBVIOUS
    <3>2. W \in SUBSET Epoch /\ \A e \in Epoch : e \in W <=> Done(e, T)
      BY <2>1, <3>1 DEF FundedEpochs, Epoch, Done
    <3>3. \A e \in W : f[e] \in Int
      BY <2>1, <3>1, <3>2, DueType
    <3>4. \A e \in Epoch : g[e] = IF e \in W THEN f[e] ELSE 0
      BY <3>1, <3>2 DEF DueAt
    <3>5. DOMAIN f = W
      BY <3>1
    <3>6. SumOver(f) = SumIn(g, Epoch)
      BY <3>2, <3>3, <3>4, <3>5, SumOverEpochs
    <3> QED
      BY <1>1, <3>1, <3>6, PaidAndAvailable
  <2> QED
    BY <2>2 DEF RewardsExact
<1> QED
  BY <1>1, RewardsHold, PTL

(* The shares of an epoch, each rounded down twice, are no more than its   *)
(* reward.                                                                 *)
LEMMA SharesWithinReward ==
    ASSUME LInv, TypeOK, NEW e \in Epoch,
           NEW f, \A u \in User : f[u] = VestingEpochs * Share(u, e)
    PROVE  SumIn(f, User) \in Nat /\ SumIn(f, User) <= totalRewards[e]
<1> USE UserAssumption
<1>1. PICK t \in Nat, r \in Nat : t = LedgerTotal(e) /\ r = totalRewards[e]
  BY LedgerTotalType DEF LInv, TypeOK
<1>2. \A u \in User : f[u] \in Nat
  BY DueType
<1>3. PICK n \in Nat : n = SumIn(f, User)
  BY <1>2, SumNat
<1>4. CASE t = 0
  <2>1. \A u \in User : f[u] = 0
    <3>1. \A u \in User : Share(u, e) = 0
      BY <1>1, <1>4 DEF Share
    <3> QED
      BY <3>1
  <2>2. SumIn(f, User) = 0
    BY <2>1, SumZero
  <2> QED
    BY <1>1, <2>2
<1>5. CASE t # 0
  <2>1. PICK units, g, h :
           /\ units = UnitsOf(e)
           /\ g = [u \in User |-> t * f[u]]
           /\ h = [u \in User |-> r * units[u]]
    OBVIOUS
  <2>2. \A u \in User : units[u] \in Nat /\ units[u] = LedgerUnits(e, u)
    BY <2>1, UserWithinTotal DEF UnitsOf
  <2>3. \A u \in User : g[u] \in Int /\ h[u] \in Int /\ g[u] <= h[u]
    <3> TAKE u \in User
    <3>1. PICK i \in Nat, s \in Nat, x \in Nat : i = units[u] /\ s = Share(u, e) /\ x = f[u]
      BY <1>2, <2>2, ShareType
    <3>2. PICK p \in Nat : p = r * i
      BY NatTimes, Zenon
    <3>3. PICK q \in Nat : q = p \div t /\ t * q <= p
      BY <1>5, DivisionDef
    <3>4. s = q \div VestingEpochs
      BY <1>1, <1>5, <2>2, <3>1, <3>2, <3>3 DEF Share
    <3>5. VestingEpochs * s <= q
      BY <3>4, DivisionDef
    <3>6. x = VestingEpochs * s
      BY <3>1
    <3>7. t * x <= t * q /\ t * x \in Nat
      <4>1. t \in Nat \ {0} /\ x \in Int /\ q \in Int /\ x <= q
        BY <1>5, <3>5, <3>6
      <4>2. t * x <= t * q
        BY <4>1, CancelFactor
      <4> QED
        BY <4>2, NatTimes
    <3>8. PICK y \in Nat, z \in Nat : y = t * x /\ z = t * q
      BY NatTimes, Zenon
    <3>9. g[u] = y /\ h[u] = p /\ y <= z /\ z <= p
      BY <2>1, <3>1, <3>2, <3>3, <3>7, <3>8
    <3> QED
      BY <3>9
  <2>4. SumIn(g, User) <= SumIn(h, User)
    BY ONLY UserAssumption, <2>3, SumMonotone
  <2>5. SumIn(g, User) = t * n
    <3>1. \A u \in User : f[u] \in Int /\ g[u] = t * f[u]
      BY <1>2, <2>1
    <3>2. t \in Int
      OBVIOUS
    <3>3. SumIn(g, User) = t * SumIn(f, User)
      BY ONLY UserAssumption, <3>1, <3>2, SumTimes
    <3> QED
      BY <1>3, <3>3
  <2>6. SumIn(h, User) = t * r
    <3>1. \A u \in User : units[u] \in Int /\ h[u] = r * units[u]
      BY <2>1, <2>2
    <3>2. r \in Int
      OBVIOUS
    <3>3. SumIn(h, User) = r * SumIn(units, User)
      BY ONLY UserAssumption, <3>1, <3>2, SumTimes
    <3>4. SumIn(units, User) = t
      BY <1>1, <2>1 DEF LInv, StakeAddsUp
    <3>5. r * t = t * r
      OBVIOUS
    <3> QED
      BY <3>3, <3>4, <3>5
  <2>7. n <= r
    BY <1>5, <2>4, <2>5, <2>6, CancelFactor
  <2> QED
    BY <1>1, <1>3, <2>7
<1> QED
  BY <1>4, <1>5

(* What the contract holds, unless the emergency spender took it: the      *)
(* stake, and the rewards it was funded with less those it paid.           *)
FundedRewards == [e \in Epoch |-> IF e <= numberOfEpochs THEN totalRewards[e] ELSE 0]

HoldsRewards ==
    ~spenderApproved => /\ stakeHeld = totalStake
                        /\ pendleHeld + SumIn(paid, User) = SumIn(FundedRewards, Epoch)

LEMMA FundedType ==
    TypeOK => /\ \A e \in Epoch : FundedRewards[e] \in Nat
              /\ SumIn(FundedRewards, Epoch) \in Nat /\ SumIn(paid, User) \in Nat
<1> SUFFICES ASSUME TypeOK
             PROVE  /\ \A e \in Epoch : FundedRewards[e] \in Nat
                    /\ SumIn(FundedRewards, Epoch) \in Nat /\ SumIn(paid, User) \in Nat
  OBVIOUS
<1>1. \A e \in Epoch : FundedRewards[e] \in Nat
  BY DEF FundedRewards, TypeOK
<1>2. SumIn(FundedRewards, Epoch) \in Nat
  BY <1>1, EpochsFinite, SumNat
<1>3. SumIn(paid, User) \in Nat
  BY UserAssumption, SumNat DEF TypeOK
<1> QED
  BY <1>1, <1>2, <1>3

(* Rewards of one epoch are raised by n. *)
LEMMA FundingAdds ==
    ASSUME TypeOK, TypeOK', NEW e \in Epoch, NEW n \in Nat,
           FundedRewards'[e] = FundedRewards[e] + n,
           \A i \in Epoch \ {e} : FundedRewards'[i] = FundedRewards[i]
    PROVE  SumIn(FundedRewards, Epoch)' = SumIn(FundedRewards, Epoch) + n
<1>1. PICK f, g : f = FundedRewards /\ g = FundedRewards'
  OBVIOUS
<1>2. IsFiniteSet(Epoch) /\ e \in Epoch
  BY EpochsFinite
<1>3. \A i \in Epoch : f[i] \in Int
  BY <1>1, FundedType
<1>4. g[e] = f[e] + n
  BY <1>1
<1>5. g[e] \in Int
  BY <1>3, <1>4
<1>6. \A i \in Epoch \ {e} : g[i] = f[i]
  BY <1>1
<1>7. SumIn(g, Epoch) = SumIn(f, Epoch) + (g[e] - f[e])
  BY ONLY <1>2, <1>3, <1>5, <1>6, SumChange
<1>8. SumIn(f, Epoch) \in Int /\ f[e] \in Int
  BY <1>1, <1>3, FundedType
<1> QED
  BY <1>1, <1>4, <1>7, <1>8

LEMMA HoldsInit == Init => HoldsRewards
<1> SUFFICES ASSUME Init PROVE HoldsRewards
  OBVIOUS
<1>1. \A e \in Epoch : FundedRewards[e] = 0
  BY EpochsFinite DEF Init, FundedRewards
<1>2. SumIn(FundedRewards, Epoch) = 0
  BY <1>1, EpochsFinite, SumZero
<1>3. \A u \in User : paid[u] = 0
  BY DEF Init
<1>4. SumIn(paid, User) = 0
  BY <1>3, UserAssumption, SumZero
<1> QED
  BY <1>2, <1>4 DEF Init, HoldsRewards

LEMMA NextHolds == RInv /\ HoldsRewards /\ [Next]_vars => HoldsRewards'
<1> SUFFICES ASSUME RInv, HoldsRewards, [Next]_vars PROVE HoldsRewards'
  OBVIOUS
<1>0. TypeOK /\ TypeOK' /\ stakeHeld \in Nat /\ pendleHeld \in Nat /\ totalStake \in Nat
      /\ paid \in [User -> Nat] /\ totalRewards \in [Epoch -> Nat] /\ numberOfEpochs \in 0..MaxEpochs
  BY NextTypes DEF RInv, TypeOK
<1>1. ASSUME UNCHANGED fundVars PROVE FundedRewards' = FundedRewards
  BY <1>1 DEF FundedRewards, fundVars
<1>2. ASSUME NEW u \in User, NEW amount \in 1..MaxStake, Stake(u, amount) PROVE HoldsRewards'
  <2>1. /\ UNCHANGED <<spenderApproved, paid, pendleHeld, fundVars>>
        /\ stakeHeld' = stakeHeld + amount /\ totalStake' = totalStake + amount
    BY <1>2 DEF Stake, modeVars, claimVars
  <2> QED
    BY <1>1, <2>1 DEF HoldsRewards
<1>3. ASSUME NEW u \in User, NEW amount \in 1..MaxStake, Withdraw(u, amount) PROVE HoldsRewards'
  <2>1. /\ UNCHANGED <<spenderApproved, paid, pendleHeld, fundVars>>
        /\ stakeHeld' = stakeHeld - amount /\ totalStake' = totalStake - amount
    BY <1>3 DEF Withdraw, modeVars, claimVars
  <2> QED
    BY <1>1, <2>1 DEF HoldsRewards
<1>4. ASSUME NEW u \in User, RedeemRewards(u) PROVE HoldsRewards'
  <2>1. PICK n \in Nat : n = AmountOut(u)
    BY AmountIs
  <2>2. /\ UNCHANGED <<spenderApproved, stakeHeld, totalStake, fundVars>>
        /\ pendleHeld' = pendleHeld - n
        /\ paid' = [paid EXCEPT ![u] = @ + n]
    BY <1>4, <2>1, RedeemIs DEF modeVars, stakeVars
  <2>3. PICK p, q : p = paid /\ q = paid'
    OBVIOUS
  <2>4. p \in [User -> Int] /\ n \in Int /\ u \in User /\ q = [p EXCEPT ![u] = @ + n]
    BY <1>0, <2>2, <2>3
  <2>5. SumIn(q, User) = SumIn(p, User) + n
    BY ONLY UserAssumption, <2>4, SumAdded, ZenonT(60)
  <2>6. SumIn(p, User) \in Nat /\ SumIn(FundedRewards, Epoch) \in Nat
    BY <1>0, <2>3, FundedType
  <2> QED
    BY <1>0, <1>1, <2>1, <2>2, <2>3, <2>5, <2>6 DEF HoldsRewards
<1>5. ASSUME NEW reward \in Reward, Fund(reward) PROVE HoldsRewards'
  <2>1. /\ numberOfEpochs < MaxEpochs /\ reward \in Nat
        /\ totalRewards' = [totalRewards EXCEPT ![numberOfEpochs + 1] = reward]
        /\ numberOfEpochs' = numberOfEpochs + 1
        /\ pendleHeld' = pendleHeld + reward
        /\ UNCHANGED <<spenderApproved, stakeHeld, totalStake, paid>>
    BY <1>5, RewardAssumption DEF Fund, modeVars, stakeVars, claimVars
  <2>2. PICK e \in Epoch : e = numberOfEpochs + 1
    BY <1>0, <2>1 DEF Epoch
  <2>3. FundedRewards[e] = 0 /\ FundedRewards'[e] = 0 + reward
    BY <1>0, <2>1, <2>2 DEF FundedRewards
  <2>4. \A i \in Epoch \ {e} : FundedRewards'[i] = FundedRewards[i]
    <3> TAKE i \in Epoch \ {e}
    <3>1. i \in Nat /\ totalRewards'[i] = totalRewards[i] /\ (i <= numberOfEpochs' <=> i <= numberOfEpochs)
      BY <1>0, <2>1, <2>2, EpochsFinite
    <3> QED
      BY <3>1 DEF FundedRewards
  <2>5. SumIn(FundedRewards, Epoch)' = SumIn(FundedRewards, Epoch) + reward
    BY <1>0, <2>1, <2>3, <2>4, FundingAdds
  <2>6. SumIn(paid, User) \in Nat /\ SumIn(FundedRewards, Epoch) \in Nat
    BY <1>0, FundedType
  <2> QED
    BY <1>0, <2>1, <2>5, <2>6 DEF HoldsRewards
<1>6. ASSUME NEW e \in Epoch, NEW reward \in Reward, TopUpRewards(e, reward) PROVE HoldsRewards'
  <2>1. /\ e <= numberOfEpochs /\ reward \in Nat
        /\ totalRewards' = [totalRewards EXCEPT ![e] = @ + reward]
        /\ pendleHeld' = pendleHeld + reward
        /\ UNCHANGED <<spenderApproved, stakeHeld, totalStake, paid, numberOfEpochs>>
    BY <1>6, RewardAssumption DEF TopUpRewards, modeVars, stakeVars, claimVars
  <2>2. FundedRewards'[e] = FundedRewards[e] + reward
    BY <1>0, <2>1 DEF FundedRewards
  <2>3. \A i \in Epoch \ {e} : FundedRewards'[i] = FundedRewards[i]
    BY <1>0, <2>1 DEF FundedRewards
  <2>4. SumIn(FundedRewards, Epoch)' = SumIn(FundedRewards, Epoch) + reward
    BY <1>0, <2>1, <2>2, <2>3, FundingAdds
  <2>5. SumIn(paid, User) \in Nat /\ SumIn(FundedRewards, Epoch) \in Nat
    BY <1>0, FundedType
  <2> QED
    BY <1>0, <2>1, <2>4, <2>5 DEF HoldsRewards
<1>7. CASE SetUpEmergencyMode \/ SpenderWithdraw
  <2>1. spenderApproved'
    BY <1>7 DEF SetUpEmergencyMode, SpenderWithdraw, modeVars
  <2> QED
    BY <2>1 DEF HoldsRewards
<1>8. CASE (\E u \in User : UpdateAndReadEpochData(u)) \/ (\E s \in Status : SetStatus(s))
           \/ Tick \/ UNCHANGED vars
  <2>1. UNCHANGED <<spenderApproved, stakeHeld, totalStake, paid, pendleHeld, fundVars>>
    BY <1>8 DEF UpdateAndReadEpochData, SetStatus, Tick, vars, modeVars, stakeVars, claimVars
  <2> QED
    BY <1>1, <2>1 DEF HoldsRewards
<1> QED
  BY <1>2, <1>3, <1>4, <1>5, <1>6, <1>7, <1>8 DEF Next

LEMMA AllHolds == Spec => [](RInv /\ HoldsRewards)
BY RewardsInit, HoldsInit, NextRewards, NextHolds, PTL DEF Spec

(* What u was paid, has available and is still to get of ended epochs.     *)
LEMMA PaidAndOwed ==
    ASSUME RInv, NEW u \in User
    PROVE  /\ StillAvailable(u) + Unsettled(u) \in Int
           /\ paid[u] + (StillAvailable(u) + Unsettled(u)) = SumIn(DueAt(u, now), Epoch)
<1>0. LInv /\ TypeOK /\ IsFiniteSet(Epoch) /\ now \in Nat
  BY EpochsFinite DEF RInv, TypeOK
<1>1. PICK T \in 0..now : T = lastTimeUserStakeUpdated[u]
  BY <1>0 DEF LInv, UsersTyped
<1>2. PICK W, due, x, y, z :
         /\ W = {i \in FundedEpochs : EndOf(i) <= now /\ EndOf(i) > T}
         /\ due = [e \in W |-> VestingEpochs * Share(u, e)]
         /\ x = DueAt(u, T) /\ z = DueAt(u, now)
         /\ y = [e \in Epoch |-> IF e \in W THEN due[e] ELSE 0]
  OBVIOUS
<1>3. W \in SUBSET Epoch /\ \A e \in Epoch : e \in W <=> Done(e, now) /\ ~Done(e, T)
  <2>1. \A e \in Epoch : e \in Nat /\ EndOf(e) \in Int /\ (e \in FundedEpochs <=> e <= numberOfEpochs)
    BY <1>0, EpochsFinite, StartType DEF FundedEpochs, TypeOK
  <2>2. FundedEpochs \in SUBSET Epoch
    BY <1>0 DEF FundedEpochs, TypeOK, Epoch
  <2>3. T \in Int
    BY <1>0
  <2> QED
    BY <1>2, <2>1, <2>2, <2>3 DEF Done
<1>4. \A e \in W : due[e] \in Int
  BY <1>0, <1>2, <1>3, DueType
<1>5. \A e \in Epoch : y[e] = IF e \in W THEN due[e] ELSE 0
  BY <1>2
<1>6. Unsettled(u) = SumIn(y, Epoch)
  <2>1. DOMAIN due = W
    BY <1>2
  <2>2. SumOver(due) = SumIn(y, Epoch)
    BY <1>3, <1>4, <1>5, <2>1, SumOverEpochs
  <2> QED
    BY <1>1, <1>2, <2>2 DEF Unsettled
<1>7. \A e \in Epoch : x[e] \in Int /\ y[e] \in Int /\ z[e] = x[e] + y[e]
  <2> TAKE e \in Epoch
  <2>1. PICK v \in Nat : v = VestingEpochs * Share(u, e)
    BY <1>0, DueType
  <2>2. Done(e, T) => Done(e, now)
    BY <1>0, EpochsFinite, StartType DEF Done
  <2>3. /\ x[e] = IF Done(e, T) THEN v ELSE 0
        /\ y[e] = IF Done(e, now) /\ ~Done(e, T) THEN v ELSE 0
        /\ z[e] = IF Done(e, now) THEN v ELSE 0
    BY <1>2, <1>3, <2>1 DEF DueAt
  <2> QED
    BY <2>2, <2>3
<1>8. SumIn(z, Epoch) = SumIn(x, Epoch) + SumIn(y, Epoch)
  BY ONLY <1>0, <1>7, SumPlus
<1>9. SumIn(x, Epoch) \in Int /\ SumIn(y, Epoch) \in Int
  <2>1. \A e \in Epoch : x[e] \in Int
    BY <1>7
  <2>2. \A e \in Epoch : y[e] \in Int
    BY <1>7
  <2>3. Epoch \in SUBSET Epoch
    OBVIOUS
  <2> QED
    BY <1>0, <2>1, <2>2, <2>3, SumInt
<1>10. paid[u] + StillAvailable(u) = SumIn(x, Epoch)
  BY <1>1, <1>2, PaidAndAvailable
<1>11. StillAvailable(u) \in Int /\ paid[u] \in Int
  <2>1. PICK g : g = [k \in VestEpoch |-> availableRewardsForUser[k][u]]
    OBVIOUS
  <2>2. \A k \in VestEpoch : g[k] \in Int
    BY <1>0, <2>1 DEF TypeOK
  <2>3. VestEpoch \in SUBSET VestEpoch /\ IsFiniteSet(VestEpoch) /\ DOMAIN g = VestEpoch
    BY <2>1, EpochsFinite
  <2>4. SumIn(g, VestEpoch) \in Int
    BY <2>2, <2>3, SumInt
  <2> QED
    BY <1>0, <2>1, <2>3, <2>4, SumOverIs DEF StillAvailable, TypeOK
<1> QED
  BY <1>2, <1>6, <1>8, <1>9, <1>10, <1>11

LEMMA HeldCovers == RInv /\ HoldsRewards => RewardsCovered
<1> SUFFICES ASSUME RInv, HoldsRewards PROVE RewardsCovered
  OBVIOUS
<1> USE UserAssumption
<1>0. LInv /\ TypeOK /\ IsFiniteSet(Epoch) /\ now \in Nat /\ pendleHeld \in Nat
  BY EpochsFinite DEF RInv, TypeOK
<1>1. SumOver(balances) = totalStake
  <2>1. DOMAIN balances = User
    BY <1>0 DEF TypeOK
  <2> QED
    BY <1>0, <2>1, SumOverIs DEF LInv, StakeAddsUp
<1>2. PICK table, owed, p, W, left, d, rem, all :
         /\ table = [u \in User |-> DueAt(u, now)]
         /\ owed = [u \in User |-> StillAvailable(u) + Unsettled(u)]
         /\ p = paid
         /\ W = {i \in FundedEpochs : EndOf(i) > now}
         /\ left = [e \in W |-> totalRewards[e]]
         /\ d = [e \in Epoch |-> IF Done(e, now) THEN totalRewards[e] ELSE 0]
         /\ rem = [e \in Epoch |-> IF e \in W THEN left[e] ELSE 0]
         /\ all = FundedRewards
  OBVIOUS
<1>3. IsTable(table, User, Epoch)
  BY <1>0, <1>2, DueType DEF IsTable
<1>4. PICK rows, cols : rows = RowSums(table, User, Epoch) /\ cols = ColumnSums(table, User, Epoch)
  OBVIOUS
<1>5. SumIn(rows, User) = SumIn(cols, Epoch)
  BY ONLY UserAssumption, <1>0, <1>3, <1>4, SumSwap
<1>6. \A u \in User : p[u] \in Int /\ owed[u] \in Int /\ rows[u] = p[u] + owed[u]
  BY <1>0, <1>2, <1>4, PaidAndOwed DEF RowSums, TypeOK
<1>7. SumIn(rows, User) = SumIn(p, User) + SumIn(owed, User)
  BY ONLY UserAssumption, <1>6, SumPlus
<1>8. \A e \in Epoch : cols[e] \in Int /\ d[e] \in Int /\ cols[e] <= d[e]
  <2> TAKE e \in Epoch
  <2>1. PICK c : c = Column(table, User, e)
    OBVIOUS
  <2>2. cols[e] = SumIn(c, User)
    BY <1>4, <2>1 DEF ColumnSums
  <2>3. totalRewards[e] \in Nat
    BY <1>0 DEF TypeOK
  <2>4. CASE Done(e, now)
    <3>1. \A u \in User : c[u] = VestingEpochs * Share(u, e)
      BY <1>2, <2>1, <2>4 DEF Column, DueAt
    <3>2. SumIn(c, User) \in Nat /\ SumIn(c, User) <= totalRewards[e]
      BY <1>0, <3>1, SharesWithinReward
    <3> QED
      BY <1>2, <2>2, <2>3, <2>4, <3>2
  <2>5. CASE ~Done(e, now)
    <3>1. \A u \in User : c[u] = 0
      BY <1>2, <2>1, <2>5 DEF Column, DueAt
    <3>2. SumIn(c, User) = 0
      BY <3>1, SumZero
    <3> QED
      BY <1>2, <2>2, <2>5, <3>2
  <2> QED
    BY <2>4, <2>5
<1>9. SumIn(cols, Epoch) <= SumIn(d, Epoch)
  BY ONLY <1>0, <1>8, SumMonotone
<1>10. W \in SUBSET Epoch /\ \A e \in Epoch : e \in W <=> e <= numberOfEpochs /\ ~Done(e, now)
  <2>1. \A e \in Epoch : e \in Nat /\ EndOf(e) \in Int /\ (e \in FundedEpochs <=> e <= numberOfEpochs)
    BY <1>0, EpochsFinite, StartType DEF FundedEpochs, TypeOK
  <2>2. FundedEpochs \in SUBSET Epoch
    BY <1>0 DEF FundedEpochs, TypeOK, Epoch
  <2> QED
    BY <1>0, <1>2, <2>1, <2>2 DEF Done
<1>11. \A e \in Epoch : d[e] \in Int /\ rem[e] \in Int /\ all[e] = d[e] + rem[e]
  <2> TAKE e \in Epoch
  <2>1. PICK r \in Nat : r = totalRewards[e]
    BY <1>0 DEF TypeOK
  <2>2. /\ d[e] = IF Done(e, now) THEN r ELSE 0
        /\ rem[e] = IF e <= numberOfEpochs /\ ~Done(e, now) THEN r ELSE 0
        /\ all[e] = IF e <= numberOfEpochs THEN r ELSE 0
    BY <1>2, <1>10, <2>1 DEF FundedRewards
  <2>3. Done(e, now) => e <= numberOfEpochs
    BY DEF Done
  <2> QED
    BY <2>2, <2>3
<1>12. SumIn(all, Epoch) = SumIn(d, Epoch) + SumIn(rem, Epoch)
  BY ONLY <1>0, <1>11, SumPlus
<1>13. SumOver(left) = SumIn(rem, Epoch)
  <2>1. \A e \in W : left[e] \in Int
    BY <1>0, <1>2, <1>10 DEF TypeOK
  <2>2. DOMAIN left = W /\ \A e \in Epoch : rem[e] = IF e \in W THEN left[e] ELSE 0
    BY <1>2
  <2> QED
    BY <1>10, <2>1, <2>2, SumOverEpochs
<1>14. SumOver(owed) = SumIn(owed, User)
  <2>1. DOMAIN owed = User
    BY <1>2
  <2> QED
    BY <2>1, SumOverIs
<1>15. /\ SumIn(p, User) \in Int /\ SumIn(owed, User) \in Int
       /\ SumIn(d, Epoch) \in Int /\ SumIn(rem, Epoch) \in Int /\ SumIn(cols, Epoch) \in Int
  <2>1. User \in SUBSET User /\ Epoch \in SUBSET Epoch
    OBVIOUS
  <2>2. (\A u \in User : p[u] \in Int) /\ (\A u \in User : owed[u] \in Int)
    BY <1>6
  <2>3. SumIn(p, User) \in Int /\ SumIn(owed, User) \in Int
    BY <2>1, <2>2, SumInt
  <2>4. (\A e \in Epoch : d[e] \in Int) /\ (\A e \in Epoch : rem[e] \in Int)
        /\ (\A e \in Epoch : cols[e] \in Int)
    BY <1>8, <1>11
  <2>5. SumIn(d, Epoch) \in Int /\ SumIn(rem, Epoch) \in Int /\ SumIn(cols, Epoch) \in Int
    BY <1>0, <2>1, <2>4, SumInt
  <2> QED
    BY <2>3, <2>5
<1>16. ASSUME ~spenderApproved PROVE pendleHeld >= SumOver(owed) + SumOver(left)
  <2>1. pendleHeld + SumIn(p, User) = SumIn(all, Epoch)
    BY <1>2, <1>16 DEF HoldsRewards
  <2>2. SumIn(p, User) + SumIn(owed, User) <= SumIn(d, Epoch)
    BY <1>5, <1>7, <1>9
  <2>3. SumOver(owed) = SumIn(owed, User) /\ SumOver(left) = SumIn(rem, Epoch)
    BY <1>13, <1>14
  <2> QED
    BY <1>0, <1>12, <1>15, <2>1, <2>2, <2>3
<1> QED
  BY <1>0, <1>1, <1>2, <1>16 DEF RewardsCovered, HoldsRewards

(* Until the emergency spender takes them, the contract has the staked     *)
(* tokens and the PENDLE for every reward that was or will be granted, for *)
(* any number of users, epochs and rewards (stake, withdraw, fund,         *)
(* topUpRewards, redeemRewards).                                           *)
THEOREM RewardsAreThere == Spec => []RewardsCovered
BY AllHolds, HeldCovers, PTL
=============================================================================
