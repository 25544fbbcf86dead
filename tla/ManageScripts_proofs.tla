------------------------ MODULE ManageScripts_proofs ------------------------
(***************************************************************************)
(* Proofs about ManageScripts: whatever scripts run side by side, overtake *)
(* each other and die, and whatever reverts unnoticed, every entry of the  *)
(* file stands for a contract on the chain, or a call that was to provide  *)
(* it has reverted.  What makes it so is that the chain only grows (Grows) *)
(* and that what has reverted stays so, so that a copy of the file that    *)
(* was closed when it was read is closed when it is written back, and that *)
(* a script saves what it has asked the chain for (RunOK).  Then: a yield  *)
(* contract that has missed its entry in the file never gets one, and      *)
(* (FInv) while no two scripts have overlapped, what a script that ran to  *)
(* its end has recorded is still there.                                    *)
(***************************************************************************)
EXTENDS ManageScripts, SequenceTheorems, TLAPS

-----------------------------------------------------------------------------
(* The scripts, step by step. *)
LEMMA YieldBody ==
    /\ Len(Body("deploy_new_yield")) = 3
    /\ Body("deploy_new_yield")[1] = "newYieldContracts"
    /\ Body("deploy_new_yield")[2] = "read"
    /\ Body("deploy_new_yield")[3] = "save"
BY DEF Body, deploy_new_yield, createNewYieldContract

LEMMA MarketBody ==
    /\ Len(Body("deploy_new_market")) = 3
    /\ Body("deploy_new_market")[1] = "createMarket"
    /\ Body("deploy_new_market")[2] = "read"
    /\ Body("deploy_new_market")[3] = "save"
BY DEF Body, deploy_new_market, createNewMarket

LEMMA BootstrapBody ==
    /\ Len(Body("mint_xyt_bootstrap_market")) = 3
    /\ Body("mint_xyt_bootstrap_market")[1] = "tokenizeYield"
    /\ Body("mint_xyt_bootstrap_market")[2] = "poll"
    /\ Body("mint_xyt_bootstrap_market")[3] = "bootstrapMarket"
BY DEF Body, mint_xyt_bootstrap_market, mintXytAndBootstrapMarket

LEMMA MiningBody ==
    /\ Len(Body("deploy_liquitiy_mining")) = 3
    /\ Body("deploy_liquitiy_mining")[1] = "deployMining"
    /\ Body("deploy_liquitiy_mining")[2] = "setAllocationSetting"
    /\ Body("deploy_liquitiy_mining")[3] = "save"
BY DEF Body, deploy_liquitiy_mining, setupLiquidityMining

LEMMA MiningV2Body ==
    ASSUME NEW k \in V2Kinds
    PROVE  /\ Len(Body(k)) = 6
           /\ Body(k)[1] = "deployDirectory" /\ Body(k)[2] = "saveDirectory"
           /\ Body(k)[3] = "deployMiningV2" /\ Body(k)[4] = "save"
           /\ Body(k)[5] = "addAddress" /\ Body(k)[6] = "fund"
BY DEF Body, V2Kinds, deploy_liquitiy_mining_v2, deploy_liquitiy_mining_v2_slp

-----------------------------------------------------------------------------
(* The chain only grows. *)
ChainType ==
    [now : Nat, governs : BOOLEAN, shut : SUBSET Switches, yields : SUBSET Expiry, markets : SUBSET (Expiry \X Base),
     pools : SUBSET (Expiry \X Base \X Int), xyt : [Expiry -> Nat], yieldTokens : Nat,
     mining : Seq(BOOLEAN), miningV2 : Seq(Int), directories : Seq(SUBSET Int)]

Calls == {"newYieldContracts", "createMarket", "tokenizeYield", "bootstrapMarket",
          "deployMining", "setAllocationSetting", "deployDirectory", "deployMiningV2",
          "addAddress", "fund"}

TxType == [by : Proc \cup {Nobody}, run : Int, call : Calls, e : Expiry, b : Base,
           xyt : BOOLEAN, start : Int, amount : Int, at : Int, dir : Int]

WithinYieldTokens(c) ==
    /\ c.yieldTokens <= YieldTokens
    /\ \A e \in Expiry : c.xyt[e] + c.yieldTokens <= YieldTokens

Grows(c, d) ==
    /\ c.yields \subseteq d.yields /\ c.markets \subseteq d.markets
    /\ \A i \in DOMAIN c.mining : i \in DOMAIN d.mining /\ (c.mining[i] => d.mining[i])
    /\ DOMAIN c.miningV2 \subseteq DOMAIN d.miningV2
    /\ DOMAIN c.directories \subseteq DOMAIN d.directories

(* Changing one field, or two. *)
LEMMA ChainFields ==
    ASSUME NEW c \in ChainType
    PROVE  /\ c.now \in Nat /\ c.governs \in BOOLEAN /\ c.shut \in SUBSET Switches
           /\ c.yields \in SUBSET Expiry /\ c.markets \in SUBSET (Expiry \X Base)
           /\ c.pools \in SUBSET (Expiry \X Base \X Int) /\ c.xyt \in [Expiry -> Nat]
           /\ c.yieldTokens \in Nat /\ c.mining \in Seq(BOOLEAN)
           /\ c.miningV2 \in Seq(Int) /\ c.directories \in Seq(SUBSET Int)
BY DEF ChainType

LEMMA TxFields ==
    ASSUME NEW tx \in TxType
    PROVE  /\ tx.by \in Proc \cup {Nobody} /\ tx.call \in Calls /\ tx.e \in Expiry
           /\ tx.b \in Base /\ tx.run \in Int /\ tx.xyt \in BOOLEAN /\ tx.start \in Int
           /\ tx.amount \in Int /\ tx.at \in Int /\ tx.dir \in Int
BY DEF TxType

(* An element of a sequence is changed, if it has it. *)
LEMMA SeqExcept ==
    ASSUME NEW T, NEW s \in Seq(T), NEW i, NEW v, i \in DOMAIN s => v \in T
    PROVE  [s EXCEPT ![i] = v] \in Seq(T)
<1>1. CASE i \in 1..Len(s)
  BY <1>1, ExceptSeq
<1>2. CASE i \notin DOMAIN s
  <2>1. [s EXCEPT ![i] = v] = s
    BY <1>2
  <2> QED BY <2>1
<1> QED BY <1>1, <1>2

LEMMA YieldsGrow ==
    ASSUME NEW c \in ChainType, WithinYieldTokens(c), NEW d, NEW v \in SUBSET Expiry,
           c.yields \subseteq v,
           d = [c EXCEPT !.yields = v]
    PROVE  d \in ChainType /\ WithinYieldTokens(d) /\ Grows(c, d)
<1> USE ChainFields
<1>1. d \in ChainType
  BY DEF ChainType
<1>2. /\ d.yields = v /\ d.markets = c.markets /\ d.xyt = c.xyt
      /\ d.yieldTokens = c.yieldTokens /\ d.mining = c.mining /\ d.miningV2 = c.miningV2 /\ d.directories = c.directories
  BY DEF ChainType
<1>3. WithinYieldTokens(d)
  BY <1>2 DEF WithinYieldTokens
<1>4. Grows(c, d)
  BY <1>2 DEF Grows
<1> QED BY <1>1, <1>3, <1>4

LEMMA MarketsGrow ==
    ASSUME NEW c \in ChainType, WithinYieldTokens(c), NEW d, NEW v \in SUBSET (Expiry \X Base),
           c.markets \subseteq v,
           d = [c EXCEPT !.markets = v]
    PROVE  d \in ChainType /\ WithinYieldTokens(d) /\ Grows(c, d)
<1> USE ChainFields
<1>1. d \in ChainType
  BY DEF ChainType
<1>2. /\ d.yields = c.yields /\ d.markets = v /\ d.xyt = c.xyt
      /\ d.yieldTokens = c.yieldTokens /\ d.mining = c.mining /\ d.miningV2 = c.miningV2 /\ d.directories = c.directories
  BY DEF ChainType
<1>3. WithinYieldTokens(d)
  BY <1>2 DEF WithinYieldTokens
<1>4. Grows(c, d)
  BY <1>2 DEF Grows
<1> QED BY <1>1, <1>3, <1>4

LEMMA XytMinted ==
    ASSUME NEW c \in ChainType, WithinYieldTokens(c), NEW d, NEW e \in Expiry,
           c.yieldTokens > 0,
           d = [c EXCEPT !.yieldTokens = @ - 1, !.xyt[e] = @ + 1]
    PROVE  d \in ChainType /\ WithinYieldTokens(d) /\ Grows(c, d)
<1> USE ChainFields
<1> DEFINE x == [c.xyt EXCEPT ![e] = @ + 1]
           y == c.yieldTokens - 1
<1>1. x \in [Expiry -> Nat] /\ y \in Nat
  OBVIOUS
<1>2. y <= YieldTokens /\ \A f \in Expiry : x[f] + y <= YieldTokens
  BY ManageAssumption DEF WithinYieldTokens
<1>3. d = [c EXCEPT !.yieldTokens = y, !.xyt = x]
  BY DEF ChainType
<1> HIDE DEF x, y
<1>4. d \in ChainType
  BY <1>1, <1>3 DEF ChainType
<1>5. /\ d.yields = c.yields /\ d.markets = c.markets /\ d.xyt = x /\ d.yieldTokens = y
      /\ d.mining = c.mining /\ d.miningV2 = c.miningV2 /\ d.directories = c.directories
  BY <1>3 DEF ChainType
<1> QED BY <1>2, <1>4, <1>5 DEF WithinYieldTokens, Grows

LEMMA XytPooled ==
    ASSUME NEW c \in ChainType, WithinYieldTokens(c), NEW d, NEW e \in Expiry, NEW n \in Int,
           NEW v \in SUBSET (Expiry \X Base \X Int),
           n > 0, n <= c.xyt[e],
           d = [c EXCEPT !.xyt[e] = @ - n, !.pools = v]
    PROVE  d \in ChainType /\ WithinYieldTokens(d) /\ Grows(c, d)
<1> USE ChainFields
<1> DEFINE x == [c.xyt EXCEPT ![e] = @ - n]
<1>1. x \in [Expiry -> Nat]
  OBVIOUS
<1>2. c.yieldTokens <= YieldTokens /\ \A f \in Expiry : x[f] + c.yieldTokens <= YieldTokens
  BY ManageAssumption DEF WithinYieldTokens
<1>3. d = [c EXCEPT !.xyt = x, !.pools = v]
  BY DEF ChainType
<1> HIDE DEF x
<1>4. d \in ChainType
  BY <1>1, <1>3 DEF ChainType
<1>5. /\ d.yields = c.yields /\ d.markets = c.markets /\ d.xyt = x
      /\ d.yieldTokens = c.yieldTokens
      /\ d.mining = c.mining /\ d.miningV2 = c.miningV2 /\ d.directories = c.directories
  BY <1>3 DEF ChainType
<1> QED BY <1>2, <1>4, <1>5 DEF WithinYieldTokens, Grows

LEMMA MiningGrows ==
    ASSUME NEW c \in ChainType, WithinYieldTokens(c), NEW d, NEW v \in Seq(BOOLEAN),
           \A i \in DOMAIN c.mining : i \in DOMAIN v /\ (c.mining[i] => v[i]),
           d = [c EXCEPT !.mining = v]
    PROVE  d \in ChainType /\ WithinYieldTokens(d) /\ Grows(c, d)
<1> USE ChainFields
<1>1. d \in ChainType
  BY DEF ChainType
<1>2. /\ d.yields = c.yields /\ d.markets = c.markets /\ d.xyt = c.xyt
      /\ d.yieldTokens = c.yieldTokens /\ d.mining = v /\ d.miningV2 = c.miningV2 /\ d.directories = c.directories
  BY DEF ChainType
<1>3. WithinYieldTokens(d)
  BY <1>2 DEF WithinYieldTokens
<1>4. Grows(c, d)
  BY <1>2 DEF Grows
<1> QED BY <1>1, <1>3, <1>4

LEMMA MiningV2Grows ==
    ASSUME NEW c \in ChainType, WithinYieldTokens(c), NEW d, NEW v \in Seq(Int),
           DOMAIN c.miningV2 \subseteq DOMAIN v,
           d = [c EXCEPT !.miningV2 = v]
    PROVE  d \in ChainType /\ WithinYieldTokens(d) /\ Grows(c, d)
<1> USE ChainFields
<1>1. d \in ChainType
  BY DEF ChainType
<1>2. /\ d.yields = c.yields /\ d.markets = c.markets /\ d.xyt = c.xyt
      /\ d.yieldTokens = c.yieldTokens /\ d.mining = c.mining /\ d.miningV2 = v /\ d.directories = c.directories
  BY DEF ChainType
<1>3. WithinYieldTokens(d)
  BY <1>2 DEF WithinYieldTokens
<1>4. Grows(c, d)
  BY <1>2 DEF Grows
<1> QED BY <1>1, <1>3, <1>4

LEMMA DirectoriesGrow ==
    ASSUME NEW c \in ChainType, WithinYieldTokens(c), NEW d, NEW v \in Seq(SUBSET Int),
           DOMAIN c.directories \subseteq DOMAIN v,
           d = [c EXCEPT !.directories = v]
    PROVE  d \in ChainType /\ WithinYieldTokens(d) /\ Grows(c, d)
<1> USE ChainFields
<1>1. d \in ChainType
  BY DEF ChainType
<1>2. /\ d.yields = c.yields /\ d.markets = c.markets /\ d.xyt = c.xyt
      /\ d.yieldTokens = c.yieldTokens /\ d.mining = c.mining /\ d.miningV2 = c.miningV2 /\ d.directories = v
  BY DEF ChainType
<1>3. WithinYieldTokens(d)
  BY <1>2 DEF WithinYieldTokens
<1>4. Grows(c, d)
  BY <1>2 DEF Grows
<1> QED BY <1>1, <1>3, <1>4

(* Time passes, something is switched, the governance is handed over.      *)
LEMMA OthersChange ==
    ASSUME NEW c \in ChainType, WithinYieldTokens(c), NEW d,
           \/ \E v \in Nat : d = [c EXCEPT !.now = v]
           \/ \E v \in SUBSET Switches : d = [c EXCEPT !.shut = v]
           \/ \E v \in BOOLEAN : d = [c EXCEPT !.governs = v]
    PROVE  /\ d \in ChainType /\ WithinYieldTokens(d) /\ Grows(c, d)
           /\ d.yields = c.yields /\ d.xyt = c.xyt /\ d.pools = c.pools
           /\ d.mining = c.mining /\ d.directories = c.directories
<1> USE ChainFields
<1>1. d \in ChainType
  BY DEF ChainType
<1>2. /\ d.yields = c.yields /\ d.markets = c.markets /\ d.pools = c.pools /\ d.xyt = c.xyt
      /\ d.yieldTokens = c.yieldTokens /\ d.mining = c.mining /\ d.miningV2 = c.miningV2 /\ d.directories = c.directories
  BY DEF ChainType
<1>3. WithinYieldTokens(d)
  BY <1>2 DEF WithinYieldTokens
<1>4. Grows(c, d)
  BY <1>2 DEF Grows
<1> QED BY <1>1, <1>2, <1>3, <1>4

LEMMA EffectType ==
    ASSUME NEW c \in ChainType, NEW tx \in TxType, WithinYieldTokens(c), Succeeds(c, tx)
    PROVE  /\ Effect(c, tx) \in ChainType /\ WithinYieldTokens(Effect(c, tx))
           /\ Grows(c, Effect(c, tx))
<1> USE ChainFields, TxFields
<1>1. CASE tx.call = "newYieldContracts"
  <2>1. Effect(c, tx) = [c EXCEPT !.yields = @ \cup {tx.e}]
    BY <1>1 DEF Effect
  <2>2. c.yields \cup {tx.e} \in SUBSET Expiry
    OBVIOUS
  <2> QED BY <2>1, <2>2, YieldsGrow
<1>2. CASE tx.call = "createMarket"
  <2>1. Effect(c, tx) = [c EXCEPT !.markets = @ \cup {<<tx.e, tx.b>>}]
    BY <1>2 DEF Effect
  <2>2. c.markets \cup {<<tx.e, tx.b>>} \in SUBSET (Expiry \X Base)
    OBVIOUS
  <2> QED BY <2>1, <2>2, MarketsGrow
<1>3. CASE tx.call = "tokenizeYield"
  <2>1. Effect(c, tx) = [c EXCEPT !.yieldTokens = @ - 1, !.xyt[tx.e] = @ + 1]
    BY <1>3 DEF Effect
  <2>2. c.yieldTokens > 0
    BY <1>3 DEF Succeeds, CanTokenize
  <2> QED BY <2>1, <2>2, XytMinted
<1>4. CASE tx.call = "bootstrapMarket"
  <2>1. Effect(c, tx) = [c EXCEPT !.xyt[tx.e] = @ - tx.amount,
                                 !.pools = @ \cup {<<tx.e, tx.b, tx.amount>>}]
    BY <1>4 DEF Effect
  <2>2. tx.amount > 0 /\ tx.amount <= c.xyt[tx.e]
    BY <1>4 DEF Succeeds, CanBootstrap
  <2>3. c.pools \cup {<<tx.e, tx.b, tx.amount>>} \in SUBSET (Expiry \X Base \X Int)
    BY <1>4
  <2> QED BY <2>1, <2>2, <2>3, XytPooled
<1>5. CASE tx.call = "deployMining"
  <2>1. Effect(c, tx) = [c EXCEPT !.mining = Append(@, FALSE)]
    BY <1>5 DEF Effect
  <2>2. PICK v : v = Append(c.mining, FALSE)
    OBVIOUS
  <2>3. Effect(c, tx) = [c EXCEPT !.mining = v]
    BY <2>1, <2>2
  <2>4. v \in Seq(BOOLEAN)
    BY <2>2
  <2>5. \A i \in DOMAIN c.mining : i \in DOMAIN v /\ (c.mining[i] => v[i])
    BY <2>2
  <2> QED BY <2>3, <2>4, <2>5, MiningGrows, Zenon
<1>6. CASE tx.call = "setAllocationSetting"
  <2>1. Effect(c, tx) = [c EXCEPT !.mining[tx.at] = TRUE]
    BY <1>6 DEF Effect
  <2>2. PICK v : v = [c.mining EXCEPT ![tx.at] = TRUE]
    OBVIOUS
  <2>3. Effect(c, tx) = [c EXCEPT !.mining = v]
    BY <2>1, <2>2
  <2>4. v \in Seq(BOOLEAN)
    BY <2>2, SeqExcept
  <2>5. \A i \in DOMAIN c.mining : i \in DOMAIN v /\ (c.mining[i] => v[i])
    BY <2>2
  <2> QED BY <2>3, <2>4, <2>5, MiningGrows, Zenon
<1>7. CASE tx.call = "deployDirectory"
  <2>1. Effect(c, tx) = [c EXCEPT !.directories = Append(@, {})]
    BY <1>7 DEF Effect
  <2>2. Append(c.directories, {}) \in Seq(SUBSET Int)
    BY <1>7
  <2>3. DOMAIN c.directories \subseteq DOMAIN Append(c.directories, {})
    BY <1>7
  <2> QED BY <2>1, <2>2, <2>3, DirectoriesGrow
<1>8. CASE tx.call = "deployMiningV2"
  <2>1. Effect(c, tx) = [c EXCEPT !.miningV2 = Append(@, 0)]
    BY <1>8 DEF Effect
  <2>2. Append(c.miningV2, 0) \in Seq(Int)
    BY <1>8
  <2>3. DOMAIN c.miningV2 \subseteq DOMAIN Append(c.miningV2, 0)
    BY <1>8
  <2> QED BY <2>1, <2>2, <2>3, MiningV2Grows
<1>9. CASE tx.call = "addAddress"
  <2>1. Effect(c, tx) = [c EXCEPT !.directories[tx.dir] = @ \cup {tx.at}]
    BY <1>9 DEF Effect
  <2>2. tx.dir \in DOMAIN c.directories => c.directories[tx.dir] \cup {tx.at} \in SUBSET Int
    OBVIOUS
  <2>3. [c.directories EXCEPT ![tx.dir] = @ \cup {tx.at}] \in Seq(SUBSET Int)
    BY <2>2, SeqExcept
  <2> QED BY <2>1, <2>3, DirectoriesGrow
<1>10. CASE tx.call = "fund"
  <2>1. Effect(c, tx) = [c EXCEPT !.miningV2[tx.at] = @ + 4]
    BY <1>10 DEF Effect
  <2>2. PICK w : w = c.miningV2[tx.at] + 4
    OBVIOUS
  <2>4. tx.at \in DOMAIN c.miningV2 => w \in Int
    BY <2>2
  <2>5. [c.miningV2 EXCEPT ![tx.at] = w] \in Seq(Int)
    BY <2>4, SeqExcept
  <2>3. [c.miningV2 EXCEPT ![tx.at] = @ + 4] \in Seq(Int)
    BY <2>2, <2>5
  <2> QED BY <2>1, <2>3, MiningV2Grows
<1> QED BY <1>1, <1>2, <1>3, <1>4, <1>5, <1>6, <1>7, <1>8, <1>9, <1>10 DEF Calls

-----------------------------------------------------------------------------
(* A copy of the file. *)
MemType ==
    [yields : SUBSET Expiry, zeroYields : SUBSET Expiry,
     markets : SUBSET (Expiry \X Base), zeroMarkets : SUBSET (Expiry \X Base),
     mining : SUBSET (Base \X Int), miningV2 : SUBSET (Expiry \X Int), directory : Int]

(* What is known of the calls that reverted, the set R. *)
CreationFailed(R, e) == \E tx \in R : tx.call = "newYieldContracts" /\ tx.e = e

MarketFailed(R, x) == \E tx \in R : tx.call = "createMarket" /\ <<tx.e, tx.b>> = x

OwnMarketFailed(R, run, x) ==
    \E tx \in R : tx.call = "createMarket" /\ tx.run = run /\ <<tx.e, tx.b>> = x

AllocationFailed(R, i) == \E tx \in R : tx.call = "setAllocationSetting" /\ tx.at = i

LEMMA FailuresStay ==
    ASSUME NEW R, NEW S, R \subseteq S
    PROVE  /\ \A e : CreationFailed(R, e) => CreationFailed(S, e)
           /\ \A x : MarketFailed(R, x) => MarketFailed(S, x)
           /\ \A n, x : OwnMarketFailed(R, n, x) => OwnMarketFailed(S, n, x)
           /\ \A i : AllocationFailed(R, i) => AllocationFailed(S, i)
BY DEF CreationFailed, MarketFailed, OwnMarketFailed, AllocationFailed

LEMMA OwnIsFailed ==
    ASSUME NEW R, NEW n, NEW x, OwnMarketFailed(R, n, x) PROVE MarketFailed(R, x)
BY DEF OwnMarketFailed, MarketFailed

EntriesClosed(m, c) ==
    /\ m.yields \subseteq c.yields /\ m.markets \subseteq c.markets
    /\ m.yields \cap m.zeroYields = {} /\ m.markets \cap m.zeroMarkets = {}
    /\ \A x \in m.markets \cup m.zeroMarkets : x[1] \in m.yields
    /\ \A x \in m.miningV2 : x[1] \in YieldEntries(m) /\ x[2] \in DOMAIN c.miningV2
    /\ m.directory \in {0} \cup DOMAIN c.directories

Allocated(i, c, R) == i \in DOMAIN c.mining /\ (c.mining[i] \/ AllocationFailed(R, i))

MiningClosed(m, c, R) ==
    \A x \in m.mining : YieldEntries(m) # {} /\ Allocated(x[2], c, R)

ZerosExplained(m, R) ==
    /\ \A e \in m.zeroYields : CreationFailed(R, e)
    /\ \A x \in m.zeroMarkets : MarketFailed(R, x)

Closed(m, c, R) == EntriesClosed(m, c) /\ MiningClosed(m, c, R) /\ ZerosExplained(m, R)

(* A script: what it has seen confirmed exists, or its call has reverted.  *)
RunType ==
    [kind : Kinds, e : Expiry, b : Base, run : Int, pc : 1..7, waiting : BOOLEAN, mem : MemType,
     start : Int, initial : Int, minted : Int, made : Int, real : BOOLEAN]

YieldRunOK(r, c, R) ==
    /\ r.pc > 1 => r.e \in c.yields \/ CreationFailed(R, r.e)
    /\ r.pc > 2 => IF r.real THEN r.e \in c.yields ELSE CreationFailed(R, r.e)

MarketRunOK(r, c, R) ==
    /\ r.pc > 1 \/ r.waiting => r.e \in r.mem.yields
    /\ r.pc > 1 => <<r.e, r.b>> \in c.markets \/ OwnMarketFailed(R, r.run, <<r.e, r.b>>)
    /\ r.pc > 2 => IF r.real THEN <<r.e, r.b>> \in c.markets
                   ELSE OwnMarketFailed(R, r.run, <<r.e, r.b>>)
    /\ r.pc = 3 /\ ~r.real => <<r.e, r.b>> \notin r.mem.markets

MiningRunOK(r, c, R) ==
    /\ r.pc > 1 => r.made \in DOMAIN c.mining
    /\ r.pc > 2 \/ (r.pc = 2 /\ r.waiting) => YieldEntries(r.mem) # {}
    /\ r.pc > 2 => Allocated(r.made, c, R)

MiningV2RunOK(r, c) ==
    /\ r.pc = 2 => r.made \in DOMAIN c.directories
    /\ r.pc = 4 => r.made \in DOMAIN c.miningV2

WaitsForCall(r) ==
    r.waiting => r.pc <= Len(Body(r.kind)) /\ Body(r.kind)[r.pc] \notin Writes \cup {"poll", "read"}

RunOK(r, c, R) ==
    /\ Closed(r.mem, c, R) /\ WaitsForCall(r)
    /\ r.kind = "deploy_new_yield" => YieldRunOK(r, c, R)
    /\ r.kind = "deploy_new_market" => MarketRunOK(r, c, R)
    /\ r.kind = "deploy_liquitiy_mining" => MiningRunOK(r, c, R)
    /\ r.kind \in V2Kinds => MiningV2RunOK(r, c)

MemFields(m) ==
    /\ m.yields \in SUBSET Expiry /\ m.zeroYields \in SUBSET Expiry
    /\ m.markets \in SUBSET (Expiry \X Base) /\ m.zeroMarkets \in SUBSET (Expiry \X Base)
    /\ m.mining \in SUBSET (Base \X Int) /\ m.miningV2 \in SUBSET (Expiry \X Int)
    /\ m.directory \in Int

LEMMA MemHasFields == ASSUME NEW m \in MemType PROVE MemFields(m)
BY DEF MemType, MemFields

RunFields(r) ==
    /\ r.kind \in Kinds /\ r.e \in Expiry /\ r.b \in Base /\ r.run \in Int /\ r.pc \in 1..7
    /\ r.waiting \in BOOLEAN /\ r.mem \in MemType /\ r.start \in Int
    /\ r.initial \in Int /\ r.minted \in Int /\ r.made \in Int /\ r.real \in BOOLEAN

LEMMA RunHasFields == ASSUME NEW r \in RunType PROVE RunFields(r)
BY DEF RunType, RunFields

LEMMA AllocatedStays ==
    ASSUME NEW c, NEW d, NEW R, NEW S, NEW i, Allocated(i, c, R), Grows(c, d), R \subseteq S
    PROVE  Allocated(i, d, S)
BY FailuresStay, Zenon DEF Allocated, Grows

LEMMA ClosedGrows ==
    ASSUME NEW m, NEW c, NEW d, NEW R, NEW S, Closed(m, c, R), Grows(c, d), R \subseteq S
    PROVE  Closed(m, d, S)
<1>1. EntriesClosed(m, d)
  <2>1. /\ c.yields \subseteq d.yields /\ c.markets \subseteq d.markets
        /\ DOMAIN c.miningV2 \subseteq DOMAIN d.miningV2
        /\ DOMAIN c.directories \subseteq DOMAIN d.directories
    BY Zenon DEF Grows
  <2> QED BY <2>1, Zenon DEF Closed, EntriesClosed
<1>2. MiningClosed(m, d, S)
  BY AllocatedStays, Zenon DEF Closed, MiningClosed
<1>3. ZerosExplained(m, S)
  BY FailuresStay, Zenon DEF Closed, ZerosExplained
<1> QED BY <1>1, <1>2, <1>3, Zenon DEF Closed

LEMMA RunGrows ==
    ASSUME NEW r, NEW c, NEW d, NEW R, NEW S, RunOK(r, c, R), Grows(c, d), R \subseteq S
    PROVE  RunOK(r, d, S)
<1>0. /\ c.yields \subseteq d.yields /\ c.markets \subseteq d.markets
      /\ DOMAIN c.mining \subseteq DOMAIN d.mining
      /\ DOMAIN c.miningV2 \subseteq DOMAIN d.miningV2
      /\ DOMAIN c.directories \subseteq DOMAIN d.directories
  BY Zenon DEF Grows
<1>1. Closed(r.mem, d, S) /\ WaitsForCall(r)
  BY ClosedGrows, Zenon DEF RunOK
<1>2. ASSUME r.kind = "deploy_new_yield" PROVE YieldRunOK(r, d, S)
  <2>1. YieldRunOK(r, c, R)
    BY <1>2, Zenon DEF RunOK
  <2> QED BY <1>0, <2>1, FailuresStay, Zenon DEF YieldRunOK
<1>3. ASSUME r.kind = "deploy_new_market" PROVE MarketRunOK(r, d, S)
  <2>1. MarketRunOK(r, c, R)
    BY <1>3, Zenon DEF RunOK
  <2>2. \A x : OwnMarketFailed(R, r.run, x) => OwnMarketFailed(S, r.run, x)
    BY FailuresStay
  <2> QED BY <1>0, <2>1, <2>2 DEF MarketRunOK
<1>4. ASSUME r.kind = "deploy_liquitiy_mining" PROVE MiningRunOK(r, d, S)
  <2>1. MiningRunOK(r, c, R)
    BY <1>4, Zenon DEF RunOK
  <2> QED BY <1>0, <2>1, AllocatedStays, Zenon DEF MiningRunOK
<1>5. ASSUME r.kind \in V2Kinds PROVE MiningV2RunOK(r, d)
  <2>1. MiningV2RunOK(r, c)
    BY <1>5, Zenon DEF RunOK
  <2> QED BY <1>0, <2>1, Zenon DEF MiningV2RunOK
<1> QED BY <1>1, <1>2, <1>3, <1>4, <1>5, Zenon DEF RunOK

(* Which script is at which step. *)
LEMMA Bodies ==
    ASSUME NEW k \in Kinds
    PROVE  /\ Len(Body(k)) \in 1..6
           /\ \A n \in 1..Len(Body(k)) : Body(k)[n] \in Calls \cup Writes \cup {"poll", "read"}
<1>1. CASE k = "deploy_new_yield"
  BY <1>1, YieldBody DEF Calls, Writes
<1>2. CASE k = "deploy_new_market"
  BY <1>2, MarketBody DEF Calls, Writes
<1>3. CASE k = "mint_xyt_bootstrap_market"
  BY <1>3, BootstrapBody DEF Calls, Writes
<1>4. CASE k = "deploy_liquitiy_mining"
  BY <1>4, MiningBody DEF Calls, Writes
<1>5. CASE k \in V2Kinds
  BY <1>5, MiningV2Body DEF Calls, Writes
<1> QED BY <1>1, <1>2, <1>3, <1>4, <1>5 DEF Kinds, V2Kinds

LEMMA WhereSteps ==
    ASSUME NEW k \in Kinds, NEW n \in 1..Len(Body(k))
    PROVE  /\ Body(k)[n] = "newYieldContracts" => k = "deploy_new_yield" /\ n = 1
           /\ Body(k)[n] = "createMarket" => k = "deploy_new_market" /\ n = 1
           /\ Body(k)[n] = "poll" => k = "mint_xyt_bootstrap_market" /\ n = 2
           /\ Body(k)[n] = "setAllocationSetting" => k = "deploy_liquitiy_mining" /\ n = 2
           /\ Body(k)[n] = "deployDirectory" => k \in V2Kinds /\ n = 1
           /\ Body(k)[n] = "saveDirectory" => k \in V2Kinds /\ n = 2
           /\ Body(k)[n] = "read" => k \in {"deploy_new_yield", "deploy_new_market"} /\ n = 2
           /\ Body(k)[n] = "save" => \/ k = "deploy_new_yield" /\ n = 3
                                     \/ k = "deploy_new_market" /\ n = 3
                                     \/ k = "deploy_liquitiy_mining" /\ n = 3
                                     \/ k \in V2Kinds /\ n = 4
<1>1. CASE k = "deploy_new_yield"
  BY <1>1, YieldBody
<1>2. CASE k = "deploy_new_market"
  BY <1>2, MarketBody
<1>3. CASE k = "mint_xyt_bootstrap_market"
  BY <1>3, BootstrapBody
<1>4. CASE k = "deploy_liquitiy_mining"
  BY <1>4, MiningBody
<1>5. CASE k \in V2Kinds
  BY <1>5, MiningV2Body
<1> QED BY <1>1, <1>2, <1>3, <1>4, <1>5 DEF Kinds, V2Kinds

-----------------------------------------------------------------------------
(* A transaction in the mempool is that of the script that waits for it,   *)
(* or of nobody.                                                           *)
SendersOK ==
    /\ \A i \in DOMAIN mempool : mempool[i].by # Nobody =>
         /\ mempool[i].by \in Proc /\ Running(mempool[i].by)
         /\ proc[mempool[i].by].waiting
         /\ mempool[i] = Transaction(mempool[i].by)
    /\ \A i, j \in DOMAIN mempool :
         mempool[i].by = mempool[j].by /\ mempool[i].by # Nobody => i = j
    /\ \A p \in Proc : Running(p) /\ proc[p].waiting =>
         \E i \in DOMAIN mempool : mempool[i].by = p

RunsOK == \A p \in Proc : Running(p) => RunOK(proc[p], chain, reverted)

IInv ==
    /\ chain \in ChainType /\ WithinYieldTokens(chain)
    /\ mempool \in Seq(TxType)
    /\ file \in MemType /\ Closed(file, chain, reverted)
    /\ world \in Worlds /\ runs \in Nat
    /\ proc \in [Proc -> RunType \cup {Idle}]
    /\ RunsOK /\ SendersOK

LEMMA RunsAreRunning == ASSUME NEW r \in RunType PROVE r # Idle
BY DEF RunType, Idle, Kinds

LEMMA InvImplies == IInv => FileIsClosed
<1> SUFFICES ASSUME IInv PROVE FileIsClosed
  OBVIOUS
<1> USE DEF IInv
<1>1. /\ YieldEntries(file) \subseteq Expiry
      /\ file.markets \cup file.zeroMarkets \subseteq Expiry \X Base
      /\ chain.yields \subseteq Expiry /\ chain.markets \subseteq Expiry \X Base
  BY MemHasFields, ChainFields DEF MemFields, YieldEntries
<1>2. chain.yieldTokens \in 0 .. YieldTokens
  BY ChainFields, ManageAssumption DEF WithinYieldTokens
<1>3. \A e \in Expiry : chain.xyt[e] \in 0 .. YieldTokens
  BY ChainFields, ManageAssumption DEF WithinYieldTokens
<1>4. \A p \in Proc : Running(p) =>
        /\ proc[p].kind \in Kinds /\ proc[p].pc \in 1 .. 7
        /\ proc[p].waiting => \E i \in DOMAIN mempool : mempool[i].by = p
  <2> SUFFICES ASSUME NEW p \in Proc, Running(p)
               PROVE  /\ proc[p].kind \in Kinds /\ proc[p].pc \in 1 .. 7
                      /\ proc[p].waiting => \E i \in DOMAIN mempool : mempool[i].by = p
    OBVIOUS
  <2>1. proc[p] \in RunType
    BY DEF Running
  <2> QED BY <2>1, RunHasFields, Zenon DEF RunFields, SendersOK
<1>5. TypeOK
  BY <1>1, <1>2, <1>3, <1>4, Zenon DEF TypeOK
<1>6. EntriesClosed(file, chain) /\ MiningClosed(file, chain, reverted) /\ ZerosExplained(file, reverted)
  BY Zenon DEF Closed
<1>7. RevertsExplain
  BY <1>6, Zenon DEF RevertsExplain, MiningClosed, ZerosExplained, Allocated,
                     CreationFailed, MarketFailed, AllocationFailed
<1>8. \A m \in file.mining : YieldEntries(file) # {} /\ m[2] \in DOMAIN chain.mining
  BY <1>6, Zenon DEF MiningClosed, Allocated
<1> QED BY <1>5, <1>6, <1>7, <1>8, Zenon DEF FileIsClosed, EntriesClosed

LEMMA InitImplies == Init => IInv
<1> SUFFICES ASSUME Init PROVE IInv
  OBVIOUS
<1> USE DEF Init
<1>1. chain \in ChainType
  <2>1. /\ << >> \in Seq(BOOLEAN) /\ << >> \in Seq(Int) /\ << >> \in Seq(SUBSET Int)
        /\ [e \in Expiry |-> 0] \in [Expiry -> Nat] /\ world.governs \in BOOLEAN
    BY ManageAssumption
  <2> QED BY <2>1, ManageAssumption DEF ChainType
<1>2. WithinYieldTokens(chain)
  <2>1. chain.yieldTokens = YieldTokens /\ chain.xyt = [e \in Expiry |-> 0]
    OBVIOUS
  <2> QED BY <2>1, ManageAssumption DEF WithinYieldTokens
<1>3. mempool \in Seq(TxType)
  OBVIOUS
<1>4. file \in MemType
  <2>1. OldYields \in SUBSET Expiry /\ OldMarkets \in SUBSET (Expiry \X Base)
    BY ManageAssumption
  <2> QED BY <2>1 DEF InitialFile, MemType
<1>5. Closed(file, chain, reverted)
  <2>1. /\ chain.yields = OldYields /\ file.yields = OldYields /\ file.zeroYields = {}
        /\ chain.markets = OldMarkets /\ file.markets = OldMarkets /\ file.zeroMarkets = {}
        /\ file.mining = {} /\ file.miningV2 = {} /\ file.directory = 0
    BY DEF InitialFile
  <2>2. \A x \in OldMarkets : x[1] \in OldYields
    BY ManageAssumption
  <2>3. EntriesClosed(file, chain)
    BY <2>1, <2>2 DEF EntriesClosed
  <2>4. MiningClosed(file, chain, reverted) /\ ZerosExplained(file, reverted)
    BY <2>1 DEF MiningClosed, ZerosExplained
  <2> QED BY <2>3, <2>4 DEF Closed
<1>6. proc \in [Proc -> RunType \cup {Idle}] /\ \A p \in Proc : ~Running(p)
  BY DEF Running
<1>7. DOMAIN mempool = {}
  OBVIOUS
<1>8. RunsOK
  BY <1>6 DEF RunsOK
<1>9. SendersOK
  BY <1>6, <1>7 DEF SendersOK
<1>10. world \in Worlds /\ runs \in Nat
  OBVIOUS
<1> QED BY <1>1, <1>2, <1>3, <1>4, <1>5, <1>6, <1>8, <1>9, <1>10, Zenon DEF IInv

-----------------------------------------------------------------------------
(* Steps that touch neither the chain nor the mempool: one script moves,   *)
(* and may write the file.                                                 *)
LEMMA RunningFields ==
    ASSUME IInv, NEW p \in Proc, Running(p)
    PROVE  /\ proc[p] \in RunType /\ RunFields(proc[p]) /\ MemFields(proc[p].mem)
           /\ RunOK(proc[p], chain, reverted)
<1>1. proc[p] \in RunType
  BY DEF IInv, Running
<1>2. RunFields(proc[p])
  BY <1>1, RunHasFields
<1> QED BY <1>1, <1>2, MemHasFields DEF IInv, RunsOK, RunFields

LEMMA ScriptMoves ==
    ASSUME IInv, NEW p \in Proc, NEW r \in RunType \cup {Idle},
           r # Idle => RunOK(r, chain, reverted) /\ ~r.waiting,
           Running(p) => ~proc[p].waiting,
           proc' = [proc EXCEPT ![p] = r],
           file' \in MemType, Closed(file', chain, reverted),
           UNCHANGED <<chain, mempool, world, reverted>>, runs' \in Nat
    PROVE  IInv'
<1>1. proc' \in [Proc -> RunType \cup {Idle}]
  BY DEF IInv
<1>2. proc'[p] = r /\ \A q \in Proc : q # p => proc'[q] = proc[q]
  BY DEF IInv
<1>3. RunsOK'
  BY <1>2 DEF IInv, RunsOK, Running
<1>4. SendersOK'
  <2>1. ASSUME NEW i \in DOMAIN mempool, mempool[i].by # Nobody
        PROVE  /\ mempool[i].by \in Proc /\ Running(mempool[i].by)'
               /\ proc'[mempool[i].by].waiting
               /\ mempool[i] = Transaction(mempool[i].by)'
    <3> DEFINE q == mempool[i].by
    <3>1. q \in Proc /\ Running(q) /\ proc[q].waiting /\ mempool[i] = Transaction(q)
      BY <2>1 DEF IInv, SendersOK
    <3>2. q # p
      BY <3>1
    <3>3. proc'[q] = proc[q]
      BY <1>2, <3>1, <3>2
    <3>4. Running(q)' /\ Transaction(q)' = Transaction(q)
      BY <3>1, <3>3 DEF Running, Transaction, Step
    <3> QED BY <3>1, <3>3, <3>4
  <2>2. ASSUME NEW q \in Proc, Running(q)', proc'[q].waiting
        PROVE  \E i \in DOMAIN mempool : mempool[i].by = q
    <3>1. q # p
      BY <1>2, <2>2 DEF Running
    <3>2. proc'[q] = proc[q]
      BY <1>2, <3>1
    <3> QED BY <2>2, <3>2 DEF IInv, SendersOK, Running
  <2>3. \A i, j \in DOMAIN mempool :
          mempool[i].by = mempool[j].by /\ mempool[i].by # Nobody => i = j
    BY DEF IInv, SendersOK
  <2>4. mempool' = mempool
    OBVIOUS
  <2> QED BY <2>1, <2>2, <2>3, <2>4 DEF SendersOK
<1> QED BY <1>1, <1>3, <1>4 DEF IInv

LEMMA StartKeeps ==
    ASSUME IInv, NEW p \in Proc, NEW job \in world.jobs, Start(p, job) PROVE IInv'
<1>1. job.kind \in Kinds /\ job.e \in Expiry /\ job.b \in Base
  <2>1. world.jobs \in SUBSET [kind : Kinds, e : Expiry, b : Base]
    BY ManageAssumption DEF IInv
  <2> QED BY <2>1
<1>2. PICK r : r = [kind |-> job.kind, e |-> job.e, b |-> job.b, run |-> runs', pc |-> 1,
                    waiting |-> FALSE, mem |-> file, start |-> chain.now + 1,
                    initial |-> chain.xyt[job.e], minted |-> 0, made |-> 0, real |-> FALSE]
  OBVIOUS
<1>3. r \in RunType
  <2>1. chain.xyt[job.e] \in Int /\ chain.now + 1 \in Int /\ runs' \in Int
    BY <1>1, ChainFields DEF IInv, Start
  <2> QED BY <1>1, <1>2, <2>1 DEF RunType, IInv
<1>4. RunOK(r, chain, reverted) /\ ~r.waiting
  <2>1. r.pc = 1 /\ ~r.waiting /\ r.mem = file
    BY <1>2
  <2>2. YieldRunOK(r, chain, reverted) /\ MarketRunOK(r, chain, reverted)
    BY <2>1 DEF YieldRunOK, MarketRunOK
  <2>3. MiningRunOK(r, chain, reverted) /\ MiningV2RunOK(r, chain) /\ WaitsForCall(r)
    BY <2>1 DEF MiningRunOK, MiningV2RunOK, WaitsForCall
  <2> QED BY <2>1, <2>2, <2>3, Zenon DEF RunOK, IInv
<1>5. proc' = [proc EXCEPT ![p] = r]
  BY <1>2 DEF Start
<1>6. UNCHANGED <<chain, mempool, world, file, reverted>> /\ ~Running(p) /\ runs' \in Nat
  BY DEF Start, IInv
<1> QED BY <1>3, <1>4, <1>5, <1>6, ScriptMoves DEF IInv

LEMMA EndKeeps ==
    ASSUME IInv, NEW p \in Proc, Fail(p) \/ Finish(p) PROVE IInv'
<1>1. /\ proc' = [proc EXCEPT ![p] = Idle] /\ Running(p)
      /\ UNCHANGED <<chain, mempool, world, file, reverted, runs>>
  BY DEF Fail, Finish, Ready, Quiet
<1>2. ~proc[p].waiting
  <2>1. CASE Fail(p)
    BY <2>1 DEF Fail, Ready
  <2>2. CASE Finish(p)
    <3>1. proc[p].pc > Len(Body(proc[p].kind))
      BY <2>2 DEF Finish, AtEnd
    <3>2. proc[p].pc \in 1..7 /\ Len(Body(proc[p].kind)) \in 1..6
      BY <1>1, RunningFields, Bodies DEF RunFields
    <3>3. proc[p].waiting => proc[p].pc <= Len(Body(proc[p].kind))
      BY <1>1, RunningFields DEF RunOK, WaitsForCall
    <3> QED BY <3>1, <3>2, <3>3
  <2> QED BY <2>1, <2>2
<1> QED BY <1>1, <1>2, ScriptMoves DEF IInv

LEMMA SkipKeeps ==
    ASSUME IInv, NEW p \in Proc, SkipDirectory(p) PROVE IInv'
<1> USE DEF SkipDirectory, Ready, Quiet
<1>0. Running(p)
  OBVIOUS
<1>1. PICK r : r = proc[p]
  OBVIOUS
<1>2. RunFields(r) /\ r \in RunType /\ RunOK(r, chain, reverted) /\ ~r.waiting
  BY <1>0, <1>1, RunningFields
<1>3. r.kind \in V2Kinds /\ r.pc = 1
  <2>1. r.pc \in 1..Len(Body(r.kind)) /\ Body(r.kind)[r.pc] = "deployDirectory"
    BY <1>1, <1>2, Bodies DEF Step, AtEnd, RunFields
  <2> QED BY <2>1, <1>2, WhereSteps DEF RunFields
<1>4. PICK s : s = [r EXCEPT !.pc = 3]
  OBVIOUS
<1>5. s \in RunType
  BY <1>2, <1>4 DEF RunType
<1>6. RunOK(s, chain, reverted) /\ ~s.waiting
  <2>1. /\ s.kind = r.kind /\ s.pc = 3 /\ ~s.waiting /\ s.mem = r.mem
    BY <1>2, <1>4 DEF RunType
  <2>2. MiningV2RunOK(s, chain) /\ WaitsForCall(s)
    BY <2>1 DEF MiningV2RunOK, WaitsForCall
  <2> QED BY <2>1, <2>2, <1>2, <1>3 DEF RunOK, V2Kinds
<1>7. proc' = [proc EXCEPT ![p] = s]
  BY <1>1, <1>3, <1>4 DEF IInv
<1>8. UNCHANGED <<chain, mempool, world, file, reverted, runs>>
  OBVIOUS
<1> QED BY <1>1, <1>2, <1>5, <1>6, <1>7, <1>8, ScriptMoves DEF IInv

(* What a script reads on the chain is there, or its call has reverted.    *)
LEMMA ReadKeeps ==
    ASSUME IInv, NEW p \in Proc, Read(p) PROVE IInv'
<1>0. /\ Running(p) /\ ~proc[p].waiting /\ ~AtEnd(p) /\ Step(p) = "read"
      /\ proc' = [proc EXCEPT ![p].pc = @ + 1,
           ![p].real = IF proc[p].kind = "deploy_new_yield" THEN proc[p].e \in chain.yields
                       ELSE <<proc[p].e, proc[p].b>> \in chain.markets]
      /\ UNCHANGED <<chain, mempool, world, file, reverted, runs>>
  BY DEF Read, Ready, Quiet
<1>1. PICK r : r = proc[p]
  OBVIOUS
<1>2. RunFields(r) /\ r \in RunType /\ RunOK(r, chain, reverted) /\ ~r.waiting
  BY <1>0, <1>1, RunningFields
<1>3. r.kind \in {"deploy_new_yield", "deploy_new_market"} /\ r.pc = 2
  <2>1. r.pc \in 1..Len(Body(r.kind)) /\ Body(r.kind)[r.pc] = "read"
    BY <1>0, <1>1, <1>2, Bodies DEF Step, AtEnd, RunFields
  <2> QED BY <2>1, <1>2, WhereSteps DEF RunFields
<1>4. PICK y \in BOOLEAN : y = IF r.kind = "deploy_new_yield" THEN r.e \in chain.yields
                               ELSE <<r.e, r.b>> \in chain.markets
  <2>1. CASE r.kind = "deploy_new_yield"
    <3>1. (r.e \in chain.yields) \in BOOLEAN
      OBVIOUS
    <3> QED BY <2>1, <3>1
  <2>2. CASE r.kind # "deploy_new_yield"
    <3>1. (<<r.e, r.b>> \in chain.markets) \in BOOLEAN
      OBVIOUS
    <3> QED BY <2>2, <3>1
  <2> QED BY <2>1, <2>2
<1>5. PICK k \in 1..7 : k = 3
  OBVIOUS
<1>6. PICK s : s = [r EXCEPT !.pc = k, !.real = y]
  OBVIOUS
<1>7. s \in RunType
  BY <1>2, <1>4, <1>5, <1>6 DEF RunType
<1>8. /\ s.kind = r.kind /\ s.e = r.e /\ s.b = r.b /\ s.run = r.run /\ ~s.waiting
      /\ s.mem = r.mem /\ s.pc = 3 /\ s.real = y
  BY <1>2, <1>4, <1>5, <1>6 DEF RunType
<1>9. RunOK(s, chain, reverted)
  <2>1. WaitsForCall(s) /\ Closed(s.mem, chain, reverted)
    BY <1>2, <1>8 DEF WaitsForCall, RunOK
  <2>2. ASSUME s.kind = "deploy_new_yield" PROVE YieldRunOK(s, chain, reverted)
    <3>1. r.e \in chain.yields \/ CreationFailed(reverted, r.e)
      BY <1>2, <1>3, <1>8, <2>2 DEF RunOK, YieldRunOK
    <3>2. s.real <=> r.e \in chain.yields
      BY <1>4, <1>8, <2>2
    <3> QED BY <1>8, <3>1, <3>2, Zenon DEF YieldRunOK
  <2>3. ASSUME s.kind = "deploy_new_market" PROVE MarketRunOK(s, chain, reverted)
    <3>1. /\ r.e \in r.mem.yields
          /\ <<r.e, r.b>> \in chain.markets \/ OwnMarketFailed(reverted, r.run, <<r.e, r.b>>)
      BY <1>2, <1>3, <1>8, <2>3 DEF RunOK, MarketRunOK
    <3>2. s.real <=> <<r.e, r.b>> \in chain.markets
      BY <1>4, <1>8, <2>3
    <3>3. r.mem.markets \subseteq chain.markets
      BY <1>2 DEF RunOK, Closed, EntriesClosed
    <3>4. ~s.real => <<s.e, s.b>> \notin s.mem.markets
      BY <1>8, <3>2, <3>3
    <3> QED BY <1>8, <3>1, <3>2, <3>4, Zenon DEF MarketRunOK
  <2>4. s.kind \notin V2Kinds /\ s.kind # "deploy_liquitiy_mining"
    BY <1>3, <1>8 DEF V2Kinds
  <2> QED BY <2>1, <2>2, <2>3, <2>4, Zenon DEF RunOK
<1>10. proc' = [proc EXCEPT ![p] = s]
  <2>1. proc' = [proc EXCEPT ![p].pc = @ + 1, ![p].real = y]
    BY <1>0, <1>1, <1>4
  <2>2. proc' = [proc EXCEPT ![p] = [[r EXCEPT !.pc = @ + 1] EXCEPT !.real = y]]
    BY <1>1, <2>1 DEF IInv
  <2>3. [r EXCEPT !.pc = @ + 1] = [r EXCEPT !.pc = k]
    BY <1>3, <1>5
  <2> QED BY <1>6, <2>2, <2>3
<1> QED BY <1>0, <1>1, <1>2, <1>7, <1>8, <1>10, <1>9, ScriptMoves DEF IInv

LEMMA PollKeeps ==
    ASSUME IInv, NEW p \in Proc, Poll(p) PROVE IInv'
<1>0. /\ Running(p) /\ ~proc[p].waiting /\ ~AtEnd(p) /\ Step(p) = "poll"
      /\ proc' = [proc EXCEPT ![p].minted = chain.xyt[proc[p].e] - proc[p].initial, ![p].pc = @ + 1]
      /\ UNCHANGED <<chain, mempool, world, file, reverted, runs>>
  BY DEF Poll, Ready, Quiet
<1>1. PICK r : r = proc[p]
  OBVIOUS
<1>2. RunFields(r) /\ r \in RunType /\ RunOK(r, chain, reverted) /\ ~r.waiting
  BY <1>0, <1>1, RunningFields
<1>3. r.kind = "mint_xyt_bootstrap_market" /\ r.pc = 2
  <2>1. r.pc \in 1..Len(Body(r.kind)) /\ Body(r.kind)[r.pc] = "poll"
    BY <1>0, <1>1, <1>2, Bodies DEF Step, AtEnd, RunFields
  <2> QED BY <2>1, <1>2, WhereSteps DEF RunFields
<1>4. PICK n \in Int : n = chain.xyt[r.e] - r.initial
  BY <1>2, ChainFields DEF IInv, RunFields
<1>9. PICK k \in 1..7 : k = 3
  OBVIOUS
<1>5. PICK s : s = [r EXCEPT !.minted = n, !.pc = k]
  OBVIOUS
<1>6. s \in RunType
  BY <1>2, <1>4, <1>5, <1>9 DEF RunType
<1>7. RunOK(s, chain, reverted) /\ ~s.waiting
  <2>1. /\ s.kind = r.kind /\ ~s.waiting /\ s.mem = r.mem
    BY <1>2, <1>5 DEF RunType
  <2>2. WaitsForCall(s)
    BY <2>1 DEF WaitsForCall
  <2> QED BY <2>1, <2>2, <1>2, <1>3 DEF RunOK, V2Kinds
<1>8. proc' = [proc EXCEPT ![p] = s]
  <2>1. proc' = [proc EXCEPT ![p].minted = n, ![p].pc = @ + 1]
    BY <1>0, <1>1, <1>4
  <2>2. proc' = [proc EXCEPT ![p] = [[r EXCEPT !.minted = n] EXCEPT !.pc = @ + 1]]
    BY <1>1, <2>1 DEF IInv
  <2>3. [r EXCEPT !.minted = n].pc = r.pc
    BY <1>2, <1>4 DEF RunType
  <2>4. [r EXCEPT !.minted = n].pc + 1 = k
    BY <1>3, <1>9, <2>3
  <2>5. [[r EXCEPT !.minted = n] EXCEPT !.pc = @ + 1] = [[r EXCEPT !.minted = n] EXCEPT !.pc = k]
    BY <2>4
  <2>6. [[r EXCEPT !.minted = n] EXCEPT !.pc = @ + 1] = s
    BY <1>5, <2>5
  <2> QED BY <2>2, <2>6
<1> QED BY <1>0, <1>1, <1>2, <1>6, <1>7, <1>8, ScriptMoves DEF IInv

-----------------------------------------------------------------------------
(* Save. *)
LEMMA WrittenIsClosed ==
    ASSUME NEW m \in MemType, NEW c, NEW R, Closed(m, c, R)
    PROVE  Written(m) \in MemType /\ Closed(Written(m), c, R)
<1>1. CASE world.arrayFile
  <2>1. PICK n : n = [m EXCEPT !.directory = 0]
    OBVIOUS
  <2>2. n \in MemType
    BY <2>1 DEF MemType
  <2>3. /\ n.yields = m.yields /\ n.zeroYields = m.zeroYields /\ n.markets = m.markets
        /\ n.zeroMarkets = m.zeroMarkets /\ n.mining = m.mining
        /\ n.miningV2 = m.miningV2 /\ n.directory = 0
    BY <2>1 DEF MemType
  <2>6. YieldEntries(n) = YieldEntries(m)
    BY <2>3 DEF YieldEntries
  <2>7. 0 \in {0} \cup DOMAIN c.directories
    OBVIOUS
  <2>4. Closed(n, c, R)
    <3>1. EntriesClosed(n, c)
      BY <2>3, <2>6, <2>7, Zenon DEF Closed, EntriesClosed
    <3>2. MiningClosed(n, c, R) /\ ZerosExplained(n, R)
      BY <2>3, <2>6, Zenon DEF Closed, MiningClosed, ZerosExplained
    <3> QED BY <3>1, <3>2, Zenon DEF Closed
  <2>5. Written(m) = n
    BY <1>1, <2>1 DEF Written
  <2> QED BY <2>2, <2>4, <2>5
<1>2. CASE ~world.arrayFile
  BY <1>2 DEF Written
<1> QED BY <1>1, <1>2

LEMMA WithYieldClosed ==
    ASSUME NEW m \in MemType, NEW c, NEW R, Closed(m, c, R), NEW e \in Expiry, NEW real \in BOOLEAN,
           IF real THEN e \in c.yields ELSE CreationFailed(R, e),
           NEW n, n = WithYield(m, e, real)
    PROVE  /\ n \in MemType /\ Closed(n, c, R)
           /\ m.yields \subseteq n.yields /\ m.zeroYields \subseteq n.zeroYields
           /\ \A y \in n.yields : y \in m.yields \/ (y = e /\ y \notin m.zeroYields)
           /\ e \in YieldEntries(n)
           /\ n.markets = m.markets /\ n.zeroMarkets = m.zeroMarkets /\ n.mining = m.mining
           /\ n.miningV2 = m.miningV2 /\ n.directory = m.directory
<1>0. MemFields(m)
  BY MemHasFields
<1>1. CASE e \in YieldEntries(m)
  <2>1. n = m
    BY <1>1 DEF WithYield
  <2> QED BY <1>1, <2>1
<1>2. CASE e \notin YieldEntries(m)
  <2>1. PICK v, z : v = (IF real THEN m.yields \cup {e} ELSE m.yields)
                    /\ z = (IF real THEN m.zeroYields ELSE m.zeroYields \cup {e})
    OBVIOUS
  <2>2. v \in SUBSET Expiry /\ z \in SUBSET Expiry
    BY <1>0, <2>1 DEF MemFields
  <2>3. n \in MemType
    BY <1>2, <2>1, <2>2 DEF WithYield, MemType
  <2>4. /\ n.yields = v /\ n.zeroYields = z
        /\ n.markets = m.markets /\ n.zeroMarkets = m.zeroMarkets /\ n.mining = m.mining
        /\ n.miningV2 = m.miningV2 /\ n.directory = m.directory
    BY <1>2, <2>1 DEF WithYield, MemType
  <2>5. e \notin m.yields /\ e \notin m.zeroYields
    BY <1>2 DEF YieldEntries
  <2>6. /\ m.yields \subseteq v /\ m.zeroYields \subseteq z /\ v \cup z = YieldEntries(m) \cup {e}
        /\ \A y \in v : y \in m.yields \/ (y = e /\ real)
        /\ \A y \in z : y \in m.zeroYields \/ (y = e /\ ~real)
        /\ m.yields \cap m.zeroYields = {} => v \cap z = {}
    BY <2>1, <2>5 DEF YieldEntries
  <2>7. YieldEntries(n) = YieldEntries(m) \cup {e}
    BY <2>4, <2>6 DEF YieldEntries
  <2>8. EntriesClosed(n, c)
    <3>1. EntriesClosed(m, c)
      BY DEF Closed
    <3>2. n.yields \subseteq c.yields /\ n.yields \cap n.zeroYields = {}
      BY <2>4, <2>6, <3>1 DEF EntriesClosed
    <3>3. \A x \in n.markets \cup n.zeroMarkets : x[1] \in n.yields
      BY <2>4, <2>6, <3>1 DEF EntriesClosed
    <3>4. \A x \in n.miningV2 : x[1] \in YieldEntries(n) /\ x[2] \in DOMAIN c.miningV2
      BY <2>4, <2>7, <3>1 DEF EntriesClosed
    <3>5. /\ n.markets \subseteq c.markets /\ n.markets \cap n.zeroMarkets = {}
          /\ n.directory \in {0} \cup DOMAIN c.directories
      BY <2>4, <3>1 DEF EntriesClosed
    <3> QED BY <3>2, <3>3, <3>4, <3>5, Zenon DEF EntriesClosed
  <2>9. MiningClosed(n, c, R)
    <3>1. MiningClosed(m, c, R)
      BY DEF Closed
    <3>2. YieldEntries(n) # {}
      BY <2>7
    <3> QED BY <2>4, <3>1, <3>2, Zenon DEF MiningClosed
  <2>10. ZerosExplained(n, R)
    BY <2>4, <2>6, Zenon DEF Closed, ZerosExplained
  <2> QED BY <2>3, <2>4, <2>5, <2>6, <2>7, <2>8, <2>9, <2>10 DEF Closed
<1> QED BY <1>1, <1>2

LEMMA WithMarketClosed ==
    ASSUME NEW m \in MemType, NEW c, NEW R, Closed(m, c, R), NEW e \in Expiry, NEW b \in Base,
           NEW x, x = <<e, b>>, NEW real \in BOOLEAN, e \in m.yields,
           IF real THEN x \in c.markets ELSE MarketFailed(R, x),
           NEW n, n = WithMarket(m, x, real)
    PROVE  /\ n \in MemType /\ Closed(n, c, R)
           /\ n.yields = m.yields /\ n.zeroYields = m.zeroYields
<1>0. MemFields(m)
  BY MemHasFields
<1>1. PICK v, z : v = (IF real THEN m.markets \cup {x} ELSE m.markets \ {x})
                  /\ z = (IF real THEN m.zeroMarkets \ {x} ELSE m.zeroMarkets \cup {x})
  OBVIOUS
<1>2. v \in SUBSET (Expiry \X Base) /\ z \in SUBSET (Expiry \X Base)
  BY <1>0, <1>1 DEF MemFields
<1>3. n = [m EXCEPT !.markets = v, !.zeroMarkets = z]
  <2>1. [m EXCEPT !.markets = v].zeroMarkets = m.zeroMarkets
    BY DEF MemType
  <2> QED BY <1>1, <2>1 DEF WithMarket
<1>4. n \in MemType
  BY <1>2, <1>3 DEF MemType
<1>5. /\ n.yields = m.yields /\ n.zeroYields = m.zeroYields /\ n.markets = v /\ n.zeroMarkets = z
      /\ n.mining = m.mining /\ n.miningV2 = m.miningV2 /\ n.directory = m.directory
  BY <1>3 DEF MemType
<1>6. YieldEntries(n) = YieldEntries(m)
  BY <1>5 DEF YieldEntries
<1>7. EntriesClosed(n, c)
  <2>1. EntriesClosed(m, c)
    BY DEF Closed
  <2>2. n.markets \subseteq c.markets /\ n.markets \cap n.zeroMarkets = {}
    BY <1>1, <1>5, <2>1 DEF EntriesClosed
  <2>3. \A y \in n.markets \cup n.zeroMarkets : y[1] \in n.yields
    BY <1>1, <1>5, <2>1 DEF EntriesClosed
  <2> QED BY <1>5, <1>6, <2>1, <2>2, <2>3, Zenon DEF EntriesClosed
<1>8. MiningClosed(n, c, R)
  BY <1>5, <1>6, Zenon DEF Closed, MiningClosed
<1>9. ZerosExplained(n, R)
  <2>1. \A y \in n.zeroMarkets : y \in m.zeroMarkets \/ (y = x /\ ~real)
    BY <1>1, <1>5
  <2> QED BY <1>5, <2>1, Zenon DEF Closed, ZerosExplained
<1> QED BY <1>1, <1>4, <1>5, <1>7, <1>8, <1>9 DEF Closed

LEMMA NotedIsClosed ==
    ASSUME IInv, NEW p \in Proc, Running(p), ~AtEnd(p), Step(p) \in Writes, Needs(p)
    PROVE  /\ Noted(p) \in MemType /\ Closed(Noted(p), chain, reverted)
           /\ proc[p].mem.yields \subseteq Noted(p).yields
           /\ proc[p].mem.zeroYields \subseteq Noted(p).zeroYields
           /\ \A y \in Noted(p).yields :
                \/ y \in proc[p].mem.yields
                \/ proc[p].kind = "deploy_new_yield" /\ y = proc[p].e
                   /\ y \notin proc[p].mem.zeroYields
           /\ proc[p].pc \in 1..6
           /\ proc[p].kind \in {"deploy_new_yield", "deploy_new_market"} => proc[p].pc = 3
           /\ proc[p].kind = "deploy_liquitiy_mining" => proc[p].pc = 3
           /\ proc[p].kind \in V2Kinds => proc[p].pc \in {2, 4}
<1>1. PICK r : r = proc[p]
  OBVIOUS
<1>2. PICK m : m = r.mem
  OBVIOUS
<1>3. /\ RunFields(r) /\ RunOK(r, chain, reverted)
      /\ m \in MemType /\ MemFields(m) /\ Closed(m, chain, reverted)
  BY <1>1, <1>2, RunningFields DEF RunFields, RunOK
<1>4. r.pc \in 1..Len(Body(r.kind)) /\ r.pc \in 1..6 /\ Step(p) = Body(r.kind)[r.pc]
  BY <1>1, <1>3, Bodies DEF Step, AtEnd, RunFields
<1>5. r.kind \in Kinds /\ r.e \in Expiry /\ r.b \in Base /\ r.made \in Int /\ r.real \in BOOLEAN
  BY <1>3 DEF RunFields
<1>30. EntriesClosed(m, chain) /\ MiningClosed(m, chain, reverted) /\ ZerosExplained(m, reverted)
  BY <1>3 DEF Closed
<1>6. CASE r.kind = "deploy_new_yield" /\ r.pc = 3
  <2>1. Step(p) = "save"
    BY <1>4, <1>6, YieldBody
  <2>2. PICK n : n = WithYield(m, r.e, r.real)
    OBVIOUS
  <2>3. Noted(p) = n
    BY <1>1, <1>2, <1>6, <2>1, <2>2 DEF Noted, V2Kinds
  <2>4. YieldRunOK(r, chain, reverted)
    BY <1>3, <1>6 DEF RunOK
  <2>5. IF r.real THEN r.e \in chain.yields ELSE CreationFailed(reverted, r.e)
    BY <1>6, <2>4 DEF YieldRunOK
  <2>6. /\ n \in MemType /\ Closed(n, chain, reverted)
        /\ m.yields \subseteq n.yields /\ m.zeroYields \subseteq n.zeroYields
        /\ \A y \in n.yields : y \in m.yields \/ (y = r.e /\ y \notin m.zeroYields)
    BY ONLY <1>3, <1>5, <2>2, <2>5, WithYieldClosed
  <2> QED BY <1>1, <1>2, <1>4, <1>6, <2>3, <2>6 DEF V2Kinds
<1>7. CASE r.kind = "deploy_new_market" /\ r.pc = 3
  <2>1. Step(p) = "save"
    BY <1>4, <1>7, MarketBody
  <2>2. PICK x : x = <<r.e, r.b>>
    OBVIOUS
  <2>9. PICK n : n = WithMarket(m, x, r.real)
    OBVIOUS
  <2>3. Noted(p) = n
    BY <1>1, <1>2, <1>7, <2>1, <2>2, <2>9 DEF Noted, V2Kinds
  <2>4. MarketRunOK(r, chain, reverted)
    BY <1>3, <1>7 DEF RunOK
  <2>5. /\ IF r.real THEN x \in chain.markets ELSE MarketFailed(reverted, x)
        /\ r.e \in m.yields
    BY <1>2, <1>5, <1>7, <2>2, <2>4, OwnIsFailed DEF MarketRunOK
  <2>6. /\ n \in MemType /\ Closed(n, chain, reverted)
        /\ n.yields = m.yields /\ n.zeroYields = m.zeroYields
    BY ONLY <1>3, <1>5, <2>2, <2>9, <2>5, WithMarketClosed
  <2> QED BY <1>1, <1>2, <1>4, <1>7, <2>3, <2>6 DEF V2Kinds
<1>8. CASE r.kind = "deploy_liquitiy_mining" /\ r.pc = 3
  <2>1. PICK v : v = {x \in m.mining : x[1] # r.b} \cup {<<r.b, r.made>>}
    OBVIOUS
  <2>2. PICK n : n = [m EXCEPT !.mining = v]
    OBVIOUS
  <2>9. Step(p) = "save"
    BY <1>4, <1>8, MiningBody
  <2>10. Noted(p) = n
    BY <1>1, <1>2, <1>8, <2>1, <2>2, <2>9 DEF Noted, V2Kinds
  <2>4. v \in SUBSET (Base \X Int)
    BY <1>3, <1>5, <2>1 DEF MemFields
  <2>5. n \in MemType
    BY <1>3, <2>2, <2>4 DEF MemType
  <2>6. /\ n.yields = m.yields /\ n.zeroYields = m.zeroYields /\ n.markets = m.markets
        /\ n.zeroMarkets = m.zeroMarkets /\ n.mining = v
        /\ n.miningV2 = m.miningV2 /\ n.directory = m.directory
    BY <1>3, <2>2 DEF MemType
  <2>7. Allocated(r.made, chain, reverted) /\ YieldEntries(m) # {}
    BY <1>2, <1>3, <1>8 DEF RunOK, MiningRunOK
  <2>11. YieldEntries(n) = YieldEntries(m)
    BY <2>6 DEF YieldEntries
  <2>8. Closed(n, chain, reverted)
    <3>1. EntriesClosed(n, chain) /\ ZerosExplained(n, reverted)
      BY <1>30, <2>6, <2>11, Zenon DEF EntriesClosed, ZerosExplained
    <3>2. \A x \in v : x \in m.mining \/ x[2] = r.made
      BY <2>1
    <3>3. MiningClosed(n, chain, reverted)
      BY <1>30, <2>6, <2>7, <2>11, <3>2, Zenon DEF MiningClosed
    <3> QED BY <3>1, <3>3, Zenon DEF Closed
  <2> QED BY <1>1, <1>2, <1>4, <1>8, <2>10, <2>5, <2>6, <2>8 DEF V2Kinds
<1>9. CASE r.kind \in V2Kinds /\ r.pc = 2
  <2>1. PICK n : n = [m EXCEPT !.directory = r.made]
    OBVIOUS
  <2>7. Step(p) = "saveDirectory"
    BY <1>4, <1>9, MiningV2Body
  <2>2. Noted(p) = n
    BY <1>1, <1>2, <1>9, <2>1, <2>7 DEF Noted, V2Kinds
  <2>3. n \in MemType
    BY <1>3, <1>5, <2>1 DEF MemType
  <2>4. /\ n.yields = m.yields /\ n.zeroYields = m.zeroYields /\ n.markets = m.markets
        /\ n.zeroMarkets = m.zeroMarkets /\ n.mining = m.mining
        /\ n.miningV2 = m.miningV2 /\ n.directory = r.made
    BY <1>3, <2>1 DEF MemType
  <2>5. r.made \in DOMAIN chain.directories
    BY <1>3, <1>9 DEF RunOK, MiningV2RunOK
  <2>8. YieldEntries(n) = YieldEntries(m)
    BY <2>4 DEF YieldEntries
  <2>6. Closed(n, chain, reverted)
    <3>1. EntriesClosed(n, chain)
      BY <1>30, <2>4, <2>5, <2>8, Zenon DEF EntriesClosed
    <3>2. MiningClosed(n, chain, reverted) /\ ZerosExplained(n, reverted)
      BY <1>30, <2>4, <2>8, Zenon DEF MiningClosed, ZerosExplained
    <3> QED BY <3>1, <3>2, Zenon DEF Closed
  <2> QED BY <1>1, <1>2, <1>4, <1>9, <2>2, <2>3, <2>4, <2>6 DEF V2Kinds
<1>10. CASE r.kind \in V2Kinds /\ r.pc = 4
  <2>1. PICK v : v = m.miningV2 \cup {<<r.e, r.made>>}
    OBVIOUS
  <2>2. PICK n : n = [m EXCEPT !.miningV2 = v]
    OBVIOUS
  <2>9. Step(p) = "save"
    BY <1>4, <1>10, MiningV2Body
  <2>10. Noted(p) = n
    <3>1. /\ r.kind # "deploy_new_yield" /\ r.kind # "deploy_new_market"
          /\ r.kind # "deploy_liquitiy_mining" /\ Step(p) # "saveDirectory"
      BY <1>10, <2>9 DEF V2Kinds
    <3>2. Noted(p) = [m EXCEPT !.miningV2 = @ \cup {<<r.e, r.made>>}]
      BY <1>1, <1>2, <1>10, <2>9, <3>1 DEF Noted
    <3> QED BY <2>1, <2>2, <3>2
  <2>4. v \in SUBSET (Expiry \X Int)
    BY <1>3, <1>5, <2>1 DEF MemFields
  <2>5. n \in MemType
    BY <1>3, <2>2, <2>4 DEF MemType
  <2>6. /\ n.yields = m.yields /\ n.zeroYields = m.zeroYields /\ n.markets = m.markets
        /\ n.zeroMarkets = m.zeroMarkets /\ n.mining = m.mining
        /\ n.miningV2 = v /\ n.directory = m.directory
    BY <1>3, <2>2 DEF MemType
  <2>7. r.made \in DOMAIN chain.miningV2 /\ r.e \in YieldEntries(m)
    BY <1>1, <1>2, <1>3, <1>10, <2>9 DEF RunOK, MiningV2RunOK, Needs
  <2>11. YieldEntries(n) = YieldEntries(m)
    BY <2>6 DEF YieldEntries
  <2>8. Closed(n, chain, reverted)
    <3>1. \A x \in n.miningV2 : x[1] \in YieldEntries(n) /\ x[2] \in DOMAIN chain.miningV2
      BY <1>30, <2>1, <2>6, <2>7, <2>11 DEF EntriesClosed
    <3>2. EntriesClosed(n, chain)
      BY <1>30, <2>6, <3>1, Zenon DEF EntriesClosed
    <3>3. MiningClosed(n, chain, reverted) /\ ZerosExplained(n, reverted)
      BY <1>30, <2>6, <2>11, Zenon DEF MiningClosed, ZerosExplained
    <3> QED BY <3>2, <3>3, Zenon DEF Closed
  <2> QED BY <1>1, <1>2, <1>4, <1>10, <2>10, <2>5, <2>6, <2>8 DEF V2Kinds
<1> QED BY <1>4, <1>5, <1>6, <1>7, <1>8, <1>9, <1>10, WhereSteps DEF Writes

LEMMA SaveKeeps ==
    ASSUME IInv, NEW p \in Proc, Save(p) PROVE IInv'
<1>0. /\ Running(p) /\ ~proc[p].waiting /\ ~AtEnd(p) /\ Step(p) \in Writes /\ Needs(p)
      /\ file' = Written(Noted(p))
      /\ proc' = [proc EXCEPT ![p].mem = Noted(p), ![p].pc = @ + 1]
      /\ UNCHANGED <<chain, mempool, world, reverted, runs>>
  BY DEF Save, Ready, Quiet
<1>1. PICK r : r = proc[p]
  OBVIOUS
<1>2. PICK m : m = Noted(p)
  OBVIOUS
<1>3. RunFields(r) /\ r \in RunType /\ RunOK(r, chain, reverted) /\ ~r.waiting
  BY <1>0, <1>1, RunningFields
<1>4. /\ m \in MemType /\ Closed(m, chain, reverted)
      /\ r.mem.yields \subseteq m.yields /\ r.mem.zeroYields \subseteq m.zeroYields
      /\ r.pc \in 1..6
      /\ r.kind \in {"deploy_new_yield", "deploy_new_market"} => r.pc = 3
      /\ r.kind = "deploy_liquitiy_mining" => r.pc = 3
      /\ r.kind \in V2Kinds => r.pc \in {2, 4}
  BY <1>0, <1>1, <1>2, NotedIsClosed
<1>5. PICK k \in 1..7 : k = r.pc + 1
  BY <1>4
<1>6. PICK s : s = [r EXCEPT !.mem = m, !.pc = k]
  OBVIOUS
<1>7. s \in RunType
  BY <1>3, <1>4, <1>5, <1>6 DEF RunType
<1>8. /\ s.kind = r.kind /\ s.e = r.e /\ s.b = r.b /\ s.run = r.run /\ s.made = r.made
      /\ ~s.waiting /\ s.mem = m /\ s.pc = k /\ s.real = r.real
  BY <1>3, <1>6 DEF RunType
<1>9. RunOK(s, chain, reverted)
  <2>1. ASSUME s.kind = "deploy_new_yield" PROVE YieldRunOK(s, chain, reverted)
    <3>1. YieldRunOK(r, chain, reverted) /\ r.pc = 3
      BY <1>3, <1>4, <1>8, <2>1 DEF RunOK
    <3> QED BY <1>8, <3>1 DEF YieldRunOK
  <2>2. ASSUME s.kind = "deploy_new_market" PROVE MarketRunOK(s, chain, reverted)
    <3>1. MarketRunOK(r, chain, reverted) /\ r.pc = 3 /\ s.pc = 4
      BY <1>3, <1>4, <1>5, <1>8, <2>2 DEF RunOK
    <3> QED BY <1>4, <1>8, <3>1 DEF MarketRunOK
  <2>3. ASSUME s.kind = "deploy_liquitiy_mining" PROVE MiningRunOK(s, chain, reverted)
    <3>1. MiningRunOK(r, chain, reverted) /\ r.pc = 3 /\ s.pc = 4
      BY <1>3, <1>4, <1>5, <1>8, <2>3 DEF RunOK
    <3>2. YieldEntries(s.mem) # {}
      BY <1>4, <1>8, <3>1 DEF MiningRunOK, YieldEntries
    <3> QED BY <1>8, <3>1, <3>2 DEF MiningRunOK
  <2>4. s.kind \in V2Kinds => s.pc # 2 /\ s.pc # 4
    BY <1>4, <1>5, <1>8
  <2>5. Closed(s.mem, chain, reverted) /\ ~s.waiting
    BY <1>4, <1>8
  <2> QED BY <2>1, <2>2, <2>3, <2>4, <2>5, Zenon DEF RunOK, MiningV2RunOK, WaitsForCall
<1>10. proc' = [proc EXCEPT ![p] = s]
  <2>1. proc' = [proc EXCEPT ![p].mem = m, ![p].pc = @ + 1]
    BY <1>0, <1>2
  <2>2. proc' = [proc EXCEPT ![p] = [[r EXCEPT !.mem = m] EXCEPT !.pc = @ + 1]]
    BY <1>1, <2>1 DEF IInv
  <2>3. [r EXCEPT !.mem = m].pc = r.pc
    BY <1>3 DEF RunType
  <2>4. [r EXCEPT !.mem = m].pc + 1 = k
    BY <1>5, <2>3
  <2>5. [[r EXCEPT !.mem = m] EXCEPT !.pc = @ + 1] = [[r EXCEPT !.mem = m] EXCEPT !.pc = k]
    BY <2>4
  <2>6. [[r EXCEPT !.mem = m] EXCEPT !.pc = @ + 1] = s
    BY <1>6, <2>5
  <2> QED BY <2>2, <2>6
<1>11. file' \in MemType /\ Closed(file', chain, reverted)
  BY <1>0, <1>2, <1>4, WrittenIsClosed
<1> QED BY <1>0, <1>1, <1>3, <1>7, <1>8, <1>9, <1>10, <1>11, ScriptMoves DEF IInv

-----------------------------------------------------------------------------
(* Send: the script starts to wait for its transaction, the last one.      *)
LEMMA SendKeeps ==
    ASSUME IInv, NEW p \in Proc, Send(p) PROVE IInv'
<1>0. /\ Running(p) /\ ~proc[p].waiting /\ ~AtEnd(p) /\ Step(p) \notin Writes \cup {"poll", "read"}
      /\ Needs(p) /\ Succeeds(chain, Transaction(p))
      /\ mempool' = Append(mempool, Transaction(p))
      /\ proc' = [proc EXCEPT ![p].waiting = TRUE]
      /\ UNCHANGED <<chain, file, world, reverted, runs>>
  BY DEF Send, Ready, Quiet
<1>1. PICK r : r = proc[p]
  OBVIOUS
<1>2. RunFields(r) /\ r \in RunType /\ RunOK(r, chain, reverted) /\ MemFields(r.mem)
  BY <1>0, <1>1, RunningFields
<1>3. /\ r.pc \in 1..Len(Body(r.kind)) /\ r.pc \in 1..6 /\ Step(p) = Body(r.kind)[r.pc]
      /\ r.kind \in Kinds
  <2>1. r.kind \in Kinds /\ r.pc \in 1..7
    BY <1>2 DEF RunFields
  <2>2. Len(Body(r.kind)) \in 1..6
    BY <2>1, Bodies
  <2>3. ~(r.pc > Len(Body(r.kind))) /\ Step(p) = Body(r.kind)[r.pc]
    BY <1>0, <1>1 DEF Step, AtEnd
  <2> QED BY <2>1, <2>2, <2>3
<1>4. PICK tx : tx = Transaction(p)
  OBVIOUS
<1>5. tx \in TxType /\ tx.by = p /\ p # Nobody
  <2>1. Step(p) \in Calls
    BY <1>0, <1>3, Bodies
  <2>2. /\ r.e \in Expiry /\ r.b \in Base /\ r.run \in Int /\ r.start \in Int
        /\ r.minted \in Int /\ r.made \in Int /\ r.mem.directory \in Int
    BY <1>2 DEF RunFields, MemFields
  <2>3. tx = [by |-> p, run |-> r.run, call |-> Step(p), e |-> r.e, b |-> r.b,
              xyt |-> r.e \in r.mem.yields, start |-> r.start,
              amount |-> r.minted, at |-> r.made, dir |-> r.mem.directory]
    BY <1>1, <1>4 DEF Transaction
  <2> QED BY <2>1, <2>2, <2>3, ManageAssumption DEF TxType, Nobody
<1>6. PICK s : s = [r EXCEPT !.waiting = TRUE]
  OBVIOUS
<1>7. s \in RunType
  BY <1>2, <1>6 DEF RunType
<1>8. /\ s.kind = r.kind /\ s.e = r.e /\ s.b = r.b /\ s.run = r.run /\ s.made = r.made
      /\ s.waiting /\ s.mem = r.mem /\ s.pc = r.pc /\ s.minted = r.minted
      /\ s.start = r.start /\ s.real = r.real
  BY <1>2, <1>6 DEF RunType
<1>9. RunOK(s, chain, reverted)
  <2>1. WaitsForCall(s) /\ Closed(s.mem, chain, reverted)
    BY <1>0, <1>2, <1>3, <1>8, Bodies DEF WaitsForCall, RunOK
  <2>2. ASSUME r.kind = "deploy_new_yield" PROVE YieldRunOK(s, chain, reverted)
    BY <1>2, <1>8, <2>2 DEF RunOK, YieldRunOK
  <2>3. ASSUME r.kind = "deploy_new_market" PROVE MarketRunOK(s, chain, reverted)
    <3>0. MarketRunOK(r, chain, reverted)
      BY <1>2, <2>3 DEF RunOK
    <3>1. CASE r.pc = 1
      <4>1. tx.call = "createMarket" /\ (tx.xyt <=> r.e \in r.mem.yields)
        BY <1>1, <1>3, <1>4, <2>3, <3>1, MarketBody DEF Transaction
      <4>2. CanCreateMarket(chain, tx)
        BY <1>0, <1>4, <4>1 DEF Succeeds
      <4>3. r.e \in r.mem.yields
        BY <4>1, <4>2 DEF CanCreateMarket
      <4> QED BY <1>8, <3>1, <4>3 DEF MarketRunOK
    <3>2. CASE r.pc # 1
      BY <1>3, <1>8, <3>0, <3>2 DEF MarketRunOK
    <3> QED BY <3>1, <3>2
  <2>4. ASSUME r.kind = "deploy_liquitiy_mining" PROVE MiningRunOK(s, chain, reverted)
    <3>0. MiningRunOK(r, chain, reverted)
      BY <1>2, <2>4 DEF RunOK
    <3>1. r.pc = 2 => YieldEntries(r.mem) # {}
      <4>1. r.pc = 2 => Step(p) = "setAllocationSetting"
        BY <1>3, <2>4, MiningBody
      <4> QED BY <1>0, <1>1, <4>1 DEF Needs
    <3> QED BY <1>8, <3>0, <3>1 DEF MiningRunOK
  <2>5. ASSUME r.kind \in V2Kinds PROVE MiningV2RunOK(s, chain)
    BY <1>2, <1>8, <2>5 DEF RunOK, MiningV2RunOK
  <2> QED BY <1>8, <2>1, <2>2, <2>3, <2>4, <2>5, Zenon DEF RunOK
<1>10. proc' = [proc EXCEPT ![p] = s]
  BY <1>0, <1>1, <1>6 DEF IInv
<1>11. /\ proc' \in [Proc -> RunType \cup {Idle}]
       /\ proc'[p] = s /\ \A q \in Proc : q # p => proc'[q] = proc[q]
  BY <1>7, <1>10 DEF IInv
<1>12. RunsOK'
  BY <1>0, <1>9, <1>11 DEF IInv, RunsOK, Running
<1>13. mempool' \in Seq(TxType)
  BY <1>0, <1>4, <1>5 DEF IInv
<1>14. /\ DOMAIN mempool' = DOMAIN mempool \cup {Len(mempool) + 1}
       /\ mempool'[Len(mempool) + 1] = tx
       /\ \A i \in DOMAIN mempool : mempool'[i] = mempool[i]
  BY <1>0, <1>4 DEF IInv
<1>15. Running(p)' /\ Transaction(p)' = tx
  <2>1. s # Idle
    BY <1>7, RunsAreRunning
  <2>2. Step(p)' = Step(p)
    BY <1>1, <1>8, <1>11 DEF Step
  <2> QED BY <1>1, <1>4, <1>8, <1>11, <2>1, <2>2 DEF Running, Transaction
<1>16. \A i \in DOMAIN mempool : mempool[i].by # p
  <2> SUFFICES ASSUME NEW i \in DOMAIN mempool, mempool[i].by = p PROVE FALSE
    OBVIOUS
  <2>1. mempool[i].by # Nobody => proc[mempool[i].by].waiting
    BY Zenon DEF IInv, SendersOK
  <2> QED BY <1>0, <1>5, <2>1
<1>17. ASSUME NEW i \in DOMAIN mempool, NEW q, mempool[i].by = q, q # Nobody
       PROVE  q \in Proc /\ Running(q)' /\ proc'[q].waiting /\ mempool[i] = Transaction(q)'
  <2>1. q \in Proc /\ Running(q) /\ proc[q].waiting /\ mempool[i] = Transaction(q)
    BY <1>17 DEF IInv, SendersOK
  <2>2. proc'[q] = proc[q]
    BY <1>11, <1>16, <1>17, <2>1
  <2>3. Running(q)' /\ Transaction(q)' = Transaction(q)
    BY <2>1, <2>2 DEF Running, Transaction, Step
  <2> QED BY <2>1, <2>2, <2>3
<1>18. SendersOK'
  <2>1. ASSUME NEW i \in DOMAIN mempool', NEW q, mempool'[i].by = q, q # Nobody
        PROVE  q \in Proc /\ Running(q)' /\ proc'[q].waiting /\ mempool'[i] = Transaction(q)'
    <3>1. CASE i \in DOMAIN mempool
      BY <1>14, <1>17, <2>1, <3>1
    <3>2. CASE i = Len(mempool) + 1
      <4>1. q = p /\ mempool'[i] = tx
        BY <1>5, <1>14, <2>1, <3>2
      <4> QED BY <1>8, <1>11, <1>15, <4>1 DEF Running, Transaction, Step
    <3> QED BY <1>14, <3>1, <3>2
  <2>2. \A i, j \in DOMAIN mempool' :
          mempool'[i].by = mempool'[j].by /\ mempool'[i].by # Nobody => i = j
    BY <1>5, <1>14, <1>16 DEF IInv, SendersOK
  <2>3. ASSUME NEW q \in Proc, Running(q)', proc'[q].waiting
        PROVE  \E i \in DOMAIN mempool' : mempool'[i].by = q
    <3>1. CASE q = p
      BY <1>5, <1>14, <3>1
    <3>2. CASE q # p
      <4>1. proc'[q] = proc[q]
        BY <1>11, <3>2
      <4>2. \E i \in DOMAIN mempool : mempool[i].by = q
        BY <2>3, <4>1 DEF IInv, SendersOK, Running
      <4> QED BY <1>14, <4>2
    <3> QED BY <3>1, <3>2
  <2>4. \A i \in DOMAIN mempool' : \A q : mempool'[i].by = q /\ q # Nobody =>
          q \in Proc /\ Running(q)' /\ proc'[q].waiting /\ mempool'[i] = Transaction(q)'
    BY <2>1
  <2>5. ASSUME NEW i \in DOMAIN mempool', mempool'[i].by # Nobody
        PROVE  (/\ mempool[i].by \in Proc /\ Running(mempool[i].by)
                /\ proc[mempool[i].by].waiting
                /\ mempool[i] = Transaction(mempool[i].by))'
    <3>1. PICK q : q = mempool'[i].by
      OBVIOUS
    <3>2. q \in Proc /\ Running(q)' /\ proc'[q].waiting /\ mempool'[i] = Transaction(q)'
      BY <2>5, <2>4, <3>1
    <3> QED BY <3>1, <3>2, Zenon DEF Running, Transaction, Step
  <2> QED BY <2>2, <2>3, <2>5, Zenon DEF SendersOK
<1> QED BY <1>0, <1>11, <1>12, <1>13, <1>18 DEF IInv

-----------------------------------------------------------------------------
(* Mine: the chain grows, and the script that waited has what it sent for, *)
(* or its call has reverted; if that was a deployment it ends.             *)
LEMMA MinedGrows ==
    ASSUME IInv, NEW tx \in TxType, NEW d,
           d = IF Succeeds(chain, tx) THEN Effect(chain, tx) ELSE chain
    PROVE  d \in ChainType /\ WithinYieldTokens(d) /\ Grows(chain, d)
<1>1. CASE Succeeds(chain, tx)
  BY <1>1, EffectType DEF IInv
<1>2. CASE ~Succeeds(chain, tx)
  <2>1. d = chain
    BY <1>2
  <2>2. Grows(chain, chain)
    BY Zenon DEF Grows
  <2> QED BY <2>1, <2>2 DEF IInv
<1> QED BY <1>1, <1>2

LEMMA HasWhatItSentFor ==
    ASSUME IInv, NEW tx, NEW d, NEW R,
           d = IF Succeeds(chain, tx) THEN Effect(chain, tx) ELSE chain,
           R = IF Succeeds(chain, tx) THEN reverted ELSE reverted \cup {tx}
    PROVE  /\ reverted \subseteq R
           /\ tx.call = "newYieldContracts" => tx.e \in d.yields \/ CreationFailed(R, tx.e)
           /\ tx.call = "createMarket" =>
                \/ <<tx.e, tx.b>> \in d.markets
                \/ OwnMarketFailed(R, tx.run, <<tx.e, tx.b>>)
           /\ tx.call = "setAllocationSetting" /\ tx.at \in DOMAIN chain.mining =>
                Allocated(tx.at, d, R)
           /\ Succeeds(chain, tx) =>
                /\ tx.call = "deployMining" => Len(d.mining) \in DOMAIN d.mining
                /\ tx.call = "deployDirectory" => Len(d.directories) \in DOMAIN d.directories
                /\ tx.call = "deployMiningV2" => Len(d.miningV2) \in DOMAIN d.miningV2
<1>1. CASE Succeeds(chain, tx)
  <2>0. d = Effect(chain, tx) /\ R = reverted
    BY <1>1
  <2>1. ASSUME tx.call = "newYieldContracts" PROVE tx.e \in d.yields
    <3>1. d = [chain EXCEPT !.yields = @ \cup {tx.e}]
      BY <2>0, <2>1 DEF Effect
    <3>2. d.yields = chain.yields \cup {tx.e}
      BY <3>1 DEF IInv, ChainType
    <3> QED BY <3>2
  <2>2. ASSUME tx.call = "createMarket" PROVE <<tx.e, tx.b>> \in d.markets
    <3>1. d = [chain EXCEPT !.markets = @ \cup {<<tx.e, tx.b>>}]
      BY <2>0, <2>2 DEF Effect
    <3>2. d.markets = chain.markets \cup {<<tx.e, tx.b>>}
      BY <3>1 DEF IInv, ChainType
    <3> QED BY <3>2
  <2>3. ASSUME tx.call = "setAllocationSetting", tx.at \in DOMAIN chain.mining
        PROVE  Allocated(tx.at, d, R)
    <3>1. d = [chain EXCEPT !.mining[tx.at] = TRUE]
      BY <2>0, <2>3 DEF Effect
    <3>2. d.mining = [chain.mining EXCEPT ![tx.at] = TRUE]
      BY <3>1 DEF IInv, ChainType
    <3>3. tx.at \in DOMAIN d.mining /\ d.mining[tx.at] = TRUE
      BY <2>3, <3>2
    <3> QED BY <3>3 DEF Allocated
  <2>4. ASSUME tx.call = "deployMining" PROVE Len(d.mining) \in DOMAIN d.mining
    <3>1. d = [chain EXCEPT !.mining = Append(@, FALSE)]
      BY <2>0, <2>4 DEF Effect
    <3>2. d.mining = Append(chain.mining, FALSE)
      BY <3>1 DEF IInv, ChainType
    <3> QED BY <3>2, ChainFields DEF IInv
  <2>5. ASSUME tx.call = "deployDirectory" PROVE Len(d.directories) \in DOMAIN d.directories
    <3>1. d = [chain EXCEPT !.directories = Append(@, {})]
      BY <2>0, <2>5 DEF Effect
    <3>2. d.directories = Append(chain.directories, {})
      BY <3>1 DEF IInv, ChainType
    <3> QED BY <3>2, ChainFields DEF IInv
  <2>6. ASSUME tx.call = "deployMiningV2" PROVE Len(d.miningV2) \in DOMAIN d.miningV2
    <3>1. d = [chain EXCEPT !.miningV2 = Append(@, 0)]
      BY <2>0, <2>6 DEF Effect
    <3>2. d.miningV2 = Append(chain.miningV2, 0)
      BY <3>1 DEF IInv, ChainType
    <3> QED BY <3>2, ChainFields DEF IInv
  <2> QED BY <2>0, <2>1, <2>2, <2>3, <2>4, <2>5, <2>6
<1>2. CASE ~Succeeds(chain, tx)
  <2>1. d = chain /\ R = reverted \cup {tx}
    BY <1>2
  <2>2. tx \in R /\ reverted \subseteq R
    BY <2>1
  <2>3. tx.call = "newYieldContracts" => CreationFailed(R, tx.e)
    BY <2>2 DEF CreationFailed
  <2>4. tx.call = "createMarket" => OwnMarketFailed(R, tx.run, <<tx.e, tx.b>>)
    BY <2>2 DEF OwnMarketFailed
  <2>5. tx.call = "setAllocationSetting" /\ tx.at \in DOMAIN chain.mining => Allocated(tx.at, d, R)
    BY <2>1, <2>2 DEF Allocated, AllocationFailed
  <2> QED BY <1>2, <2>2, <2>3, <2>4, <2>5
<1> QED BY <1>1, <1>2

(* What a script goes on with when its transaction has been mined.         *)
LEMMA ConfirmedIsOK ==
    ASSUME IInv, NEW p \in Proc, Running(p), proc[p].waiting, NEW tx, tx = Transaction(p),
           tx \in TxType, tx.call \in Deployments => Succeeds(chain, tx),
           chain' = IF Succeeds(chain, tx) THEN Effect(chain, tx) ELSE chain,
           reverted' = IF Succeeds(chain, tx) THEN reverted ELSE reverted \cup {tx}
    PROVE  /\ Confirmed(p, tx) \in RunType /\ ~Confirmed(p, tx).waiting
           /\ RunOK(Confirmed(p, tx), chain', reverted')
<1>1. PICK r : r = proc[p]
  OBVIOUS
<1>2. r \in RunType /\ RunFields(r) /\ RunOK(r, chain, reverted)
  BY <1>1, RunningFields
<1>3. /\ r.pc \in 1..Len(Body(r.kind)) /\ r.kind \in Kinds /\ Len(Body(r.kind)) \in 1..6
      /\ r.pc \in 1..6 /\ Body(r.kind)[r.pc] \notin Writes \cup {"poll", "read"}
  BY <1>1, <1>2, Bodies DEF RunOK, RunFields, WaitsForCall
<1>4. tx.call = Body(r.kind)[r.pc] /\ tx.e = r.e /\ tx.b = r.b /\ tx.run = r.run /\ tx.at = r.made
  BY <1>1 DEF Transaction, Step
<1>5. PICK d, R : d = chain' /\ R = reverted'
  OBVIOUS
<1>6. d \in ChainType /\ Grows(chain, d)
  BY <1>5, MinedGrows
<1>7. PICK k \in 1..7 : k = r.pc + 1
  BY <1>3
<1>8. PICK n : n = IF tx.call \in Deployments THEN Created(d, tx.call) ELSE r.made
  OBVIOUS
<1>9. n \in Int
  <2>1. /\ Len(d.mining) \in Int /\ Len(d.miningV2) \in Int /\ Len(d.directories) \in Int
        /\ r.made \in Int
    BY <1>2, <1>6, ChainFields DEF RunFields
  <2> QED BY <1>8, <2>1 DEF Created, Deployments
<1>10. PICK s : s = Confirmed(p, tx)
  OBVIOUS
<1>20. s = [r EXCEPT !.waiting = FALSE, !.pc = r.pc + 1, !.made = n]
  BY <1>1, <1>2, <1>5, <1>8, <1>10 DEF Confirmed
<1>11. s \in RunType
  <2>1. s = [[[r EXCEPT !.waiting = FALSE] EXCEPT !.pc = k] EXCEPT !.made = n]
    BY <1>7, <1>20
  <2> QED BY <1>2, <1>9, <2>1 DEF RunType
<1>12. /\ s.kind = r.kind /\ s.e = r.e /\ s.b = r.b /\ s.run = r.run /\ s.made = n /\ ~s.waiting
       /\ s.mem = r.mem /\ s.pc = k /\ s.real = r.real
  BY <1>2, <1>7, <1>20 DEF RunType
<1>13. /\ reverted \subseteq R
       /\ tx.call = "newYieldContracts" => r.e \in d.yields \/ CreationFailed(R, r.e)
       /\ tx.call = "createMarket" =>
            <<r.e, r.b>> \in d.markets \/ OwnMarketFailed(R, r.run, <<r.e, r.b>>)
       /\ tx.call = "setAllocationSetting" /\ r.made \in DOMAIN chain.mining => Allocated(r.made, d, R)
  BY <1>4, <1>5, HasWhatItSentFor
<1>14. /\ tx.call = "deployMining" => Len(d.mining) \in DOMAIN d.mining
       /\ tx.call = "deployDirectory" => Len(d.directories) \in DOMAIN d.directories
       /\ tx.call = "deployMiningV2" => Len(d.miningV2) \in DOMAIN d.miningV2
  BY <1>5, HasWhatItSentFor DEF Deployments
<1>15. RunOK(s, d, R)
  <2>1. Closed(s.mem, d, R) /\ WaitsForCall(s)
    BY <1>2, <1>6, <1>12, <1>13, ClosedGrows DEF RunOK, WaitsForCall
  <2>2. ASSUME s.kind = "deploy_new_yield" PROVE YieldRunOK(s, d, R)
    <3>1. r.pc = 1 /\ tx.call = "newYieldContracts"
      BY <1>3, <1>4, <1>12, <2>2, YieldBody DEF Writes
    <3>2. s.pc = 2
      BY <1>7, <1>12, <3>1
    <3> QED BY <1>12, <1>13, <3>1, <3>2 DEF YieldRunOK
  <2>3. ASSUME s.kind = "deploy_new_market" PROVE MarketRunOK(s, d, R)
    <3>1. r.pc = 1 /\ tx.call = "createMarket"
      BY <1>3, <1>4, <1>12, <2>3, MarketBody DEF Writes
    <3>2. s.pc = 2
      BY <1>7, <1>12, <3>1
    <3>3. r.e \in r.mem.yields
      BY <1>1, <1>2, <1>12, <2>3 DEF RunOK, MarketRunOK
    <3> QED BY <1>12, <1>13, <3>1, <3>2, <3>3 DEF MarketRunOK
  <2>4. ASSUME s.kind = "deploy_liquitiy_mining" PROVE MiningRunOK(s, d, R)
    <3>0. MiningRunOK(r, chain, reverted)
      BY <1>2, <1>12, <2>4 DEF RunOK
    <3>1. CASE r.pc = 1
      <4>1. tx.call = "deployMining"
        BY <1>4, <1>12, <2>4, <3>1, MiningBody
      <4>2. n = Len(d.mining)
        BY <1>8, <4>1 DEF Created, Deployments
      <4>3. s.pc = 2 /\ s.made \in DOMAIN d.mining
        BY <1>7, <1>12, <1>14, <3>1, <4>1, <4>2
      <4> QED BY <1>12, <4>3 DEF MiningRunOK
    <3>2. CASE r.pc = 2
      <4>1. tx.call = "setAllocationSetting"
        BY <1>4, <1>12, <2>4, <3>2, MiningBody
      <4>2. n = r.made
        BY <1>8, <4>1 DEF Deployments
      <4>3. r.made \in DOMAIN chain.mining /\ YieldEntries(r.mem) # {}
        BY <1>1, <3>0, <3>2 DEF MiningRunOK
      <4>4. Allocated(r.made, d, R)
        BY <1>13, <4>1, <4>3
      <4>5. r.made \in DOMAIN d.mining
        BY <4>4 DEF Allocated
      <4> QED BY <1>12, <4>2, <4>3, <4>4, <4>5 DEF MiningRunOK
    <3>3. r.pc = 1 \/ r.pc = 2
      BY <1>3, <1>12, <2>4, MiningBody DEF Writes
    <3> QED BY <3>1, <3>2, <3>3
  <2>5. ASSUME s.kind \in V2Kinds PROVE MiningV2RunOK(s, d)
    <3>1. CASE s.pc = 2
      <4>1. tx.call = "deployDirectory"
        BY <1>3, <1>4, <1>7, <1>12, <2>5, <3>1, MiningV2Body
      <4>2. n = Len(d.directories)
        BY <1>8, <4>1 DEF Created, Deployments
      <4> QED BY <1>12, <1>14, <3>1, <4>1, <4>2 DEF MiningV2RunOK
    <3>2. CASE s.pc = 4
      <4>1. tx.call = "deployMiningV2"
        BY <1>3, <1>4, <1>7, <1>12, <2>5, <3>2, MiningV2Body
      <4>2. n = Len(d.miningV2)
        BY <1>8, <4>1 DEF Created, Deployments
      <4> QED BY <1>12, <1>14, <3>2, <4>1, <4>2 DEF MiningV2RunOK
    <3>3. CASE s.pc # 2 /\ s.pc # 4
      BY <3>3 DEF MiningV2RunOK
    <3> QED BY <3>1, <3>2, <3>3
  <2> QED BY <2>1, <2>2, <2>3, <2>4, <2>5, Zenon DEF RunOK
<1> QED BY <1>5, <1>10, <1>11, <1>12, <1>15

LEMMA MineKeeps == ASSUME IInv, Mine PROVE IInv'
<1>1. PICK tx : tx = Head(mempool)
  OBVIOUS
<1>2. /\ mempool \in Seq(TxType) /\ mempool # << >>
      /\ chain' = (IF Succeeds(chain, tx) THEN Effect(chain, tx) ELSE chain)
      /\ reverted' = (IF Succeeds(chain, tx) THEN reverted ELSE reverted \cup {tx})
      /\ proc' = IF tx.by = Nobody THEN proc
                 ELSE [proc EXCEPT ![tx.by] =
                         IF tx.call \in Deployments /\ ~Succeeds(chain, tx) THEN Idle
                         ELSE Confirmed(tx.by, tx)]
      /\ mempool' = Tail(mempool) /\ UNCHANGED <<file, world, runs>>
  BY <1>1 DEF Mine, IInv
<1>3. tx = mempool[1] /\ 1 \in DOMAIN mempool /\ tx \in TxType
  BY <1>1, <1>2
<1>4. /\ mempool' \in Seq(TxType)
      /\ \A i \in DOMAIN mempool' : i + 1 \in DOMAIN mempool /\ mempool'[i] = mempool[i + 1]
      /\ \A i \in DOMAIN mempool' : i \in Int /\ i + 1 # 1
      /\ \A i \in DOMAIN mempool : i # 1 => i - 1 \in DOMAIN mempool' /\ mempool'[i - 1] = mempool[i]
  BY <1>2
<1>5. chain' \in ChainType /\ WithinYieldTokens(chain') /\ Grows(chain, chain')
  BY <1>2, <1>3, MinedGrows
<1>13. reverted \subseteq reverted'
  BY <1>2
<1>6. Closed(file, chain', reverted')
  BY <1>5, <1>13, ClosedGrows DEF IInv
<1>7. ASSUME NEW q \in Proc, Running(q)
      PROVE  RunOK(proc[q], chain', reverted')
  BY <1>5, <1>7, <1>13, RunningFields, RunGrows DEF IInv
(* Whose transactions are left. *)
<1>8. ASSUME NEW i \in DOMAIN mempool', NEW q, mempool'[i].by = q, q # Nobody
      PROVE  /\ q \in Proc /\ Running(q) /\ proc[q].waiting /\ mempool'[i] = Transaction(q)
             /\ q # tx.by
  <2>1. PICK j : j = i + 1
    OBVIOUS
  <2>2. j \in DOMAIN mempool /\ mempool[j].by = q /\ mempool'[i] = mempool[j] /\ j # 1
    BY <1>4, <1>8, <2>1
  <2>3. q \in Proc /\ Running(q) /\ proc[q].waiting /\ mempool[j] = Transaction(q)
    BY <1>8, <2>2 DEF IInv, SendersOK
  <2>4. q # tx.by
    BY <1>3, <1>8, <2>2 DEF IInv, SendersOK
  <2> QED BY <2>2, <2>3, <2>4
<1>9. \A i, j \in DOMAIN mempool' :
        mempool'[i].by = mempool'[j].by /\ mempool'[i].by # Nobody => i = j
  <2> SUFFICES ASSUME NEW i \in DOMAIN mempool', NEW j \in DOMAIN mempool',
                      mempool'[i].by = mempool'[j].by, mempool'[i].by # Nobody
               PROVE  i = j
    BY Zenon
  <2>1. PICK k, l : k = i + 1 /\ l = j + 1
    OBVIOUS
  <2>2. /\ k \in DOMAIN mempool /\ l \in DOMAIN mempool
        /\ mempool[k].by = mempool[l].by /\ mempool[k].by # Nobody
    BY <1>4, <2>1
  <2>3. k = l
    BY <2>2 DEF IInv, SendersOK
  <2> QED BY <1>4, <2>1, <2>3
<1>10. ASSUME NEW q \in Proc, Running(q), proc[q].waiting, q # tx.by
       PROVE  \E i \in DOMAIN mempool' : mempool'[i].by = q
  <2>1. PICK j \in DOMAIN mempool : mempool[j].by = q
    BY <1>10 DEF IInv, SendersOK
  <2>2. j # 1
    BY <1>3, <1>10, <2>1
  <2>3. j - 1 \in DOMAIN mempool' /\ mempool'[j - 1].by = q
    BY <1>4, <2>1, <2>2
  <2> QED BY <2>3
<1>11. CASE tx.by = Nobody
  <2>1. proc' = proc
    BY <1>2, <1>11
  <2>2. RunsOK'
    BY <1>2, <1>7, <2>1 DEF RunsOK, Running
  <2>3. \A i \in DOMAIN mempool' : \A q : mempool'[i].by = q /\ q # Nobody =>
          q \in Proc /\ Running(q)' /\ proc'[q].waiting /\ mempool'[i] = Transaction(q)'
    BY <1>8, <2>1 DEF Running, Transaction, Step
  <2>4. \A q \in Proc : q # tx.by
    BY <1>11, ManageAssumption DEF Nobody
  <2>5. \A q \in Proc : Running(q)' /\ proc'[q].waiting =>
          \E i \in DOMAIN mempool' : mempool'[i].by = q
    BY <1>10, <2>1, <2>4 DEF Running
  <2>6. SendersOK'
    <3>1. ASSUME NEW i \in DOMAIN mempool', mempool'[i].by # Nobody
          PROVE  (/\ mempool[i].by \in Proc /\ Running(mempool[i].by)
                  /\ proc[mempool[i].by].waiting
                  /\ mempool[i] = Transaction(mempool[i].by))'
      <4>1. PICK q : q = mempool'[i].by
        OBVIOUS
      <4>2. /\ q \in Proc /\ Running(q)' /\ proc'[q].waiting
            /\ mempool'[i] = Transaction(q)'
        BY <3>1, <4>1, <2>3
      <4> QED BY <4>1, <4>2, Zenon DEF Running, Transaction, Step
    <3> QED BY <1>9, <2>5, <3>1, Zenon DEF SendersOK
  <2> QED BY <1>2, <1>4, <1>5, <1>6, <2>1, <2>2, <2>6 DEF IInv
<1>12. CASE tx.by # Nobody
  <2>1. PICK p : p = tx.by
    OBVIOUS
  <2>2. p \in Proc /\ Running(p) /\ proc[p].waiting /\ tx = Transaction(p)
    BY <1>3, <1>12, <2>1 DEF IInv, SendersOK
  <2>3. PICK s : s = IF tx.call \in Deployments /\ ~Succeeds(chain, tx) THEN Idle
                     ELSE Confirmed(p, tx)
    OBVIOUS
  <2>4. s \in RunType \cup {Idle} /\ (s # Idle => ~s.waiting /\ RunOK(s, chain', reverted'))
    BY <1>2, <1>3, <2>2, <2>3, ConfirmedIsOK
  <2>5. proc' = [proc EXCEPT ![p] = s]
    BY <1>2, <1>12, <2>1, <2>3
  <2>6. /\ proc' \in [Proc -> RunType \cup {Idle}]
        /\ proc'[p] = s /\ \A q \in Proc : q # p => proc'[q] = proc[q]
    BY <2>2, <2>4, <2>5 DEF IInv
  <2>7. RunsOK'
    <3> SUFFICES ASSUME NEW q \in Proc, Running(q)'
                 PROVE  RunOK(proc'[q], chain', reverted')
      BY <1>2 DEF RunsOK
    <3>1. CASE q = p
      BY <2>4, <2>6, <3>1 DEF Running
    <3>2. CASE q # p
      BY <1>7, <2>6, <3>2 DEF Running
    <3> QED BY <3>1, <3>2
  <2>8. \A i \in DOMAIN mempool' : \A q : mempool'[i].by = q /\ q # Nobody =>
          q \in Proc /\ Running(q)' /\ proc'[q].waiting /\ mempool'[i] = Transaction(q)'
    BY <1>8, <2>1, <2>6 DEF Running, Transaction, Step
  <2>9. \A q \in Proc : Running(q)' /\ proc'[q].waiting =>
          \E i \in DOMAIN mempool' : mempool'[i].by = q
    BY <1>10, <2>1, <2>4, <2>6 DEF Running
  <2>10. SendersOK'
    <3>1. ASSUME NEW i \in DOMAIN mempool', mempool'[i].by # Nobody
          PROVE  (/\ mempool[i].by \in Proc /\ Running(mempool[i].by)
                  /\ proc[mempool[i].by].waiting
                  /\ mempool[i] = Transaction(mempool[i].by))'
      <4>1. PICK q : q = mempool'[i].by
        OBVIOUS
      <4>2. /\ q \in Proc /\ Running(q)' /\ proc'[q].waiting
            /\ mempool'[i] = Transaction(q)'
        BY <3>1, <4>1, <2>8
      <4> QED BY <4>1, <4>2, Zenon DEF Running, Transaction, Step
    <3> QED BY <1>9, <2>9, <3>1, Zenon DEF SendersOK
  <2> QED BY <1>2, <1>4, <1>5, <1>6, <2>6, <2>7, <2>10 DEF IInv
<1> QED BY <1>11, <1>12

-----------------------------------------------------------------------------
(* Crash: the script's transaction, if it has one, is nobody's now.        *)
LEMMA CrashKeeps == ASSUME IInv, NEW p \in Proc, Crash(p) PROVE IInv'
<1>1. /\ proc' = [proc EXCEPT ![p] = Idle] /\ UNCHANGED <<chain, file, world, reverted, runs>>
      /\ mempool' = [i \in DOMAIN mempool |->
           IF mempool[i].by = p THEN [mempool[i] EXCEPT !.by = Nobody] ELSE mempool[i]]
  BY DEF Crash
<1>2. mempool \in Seq(TxType)
  BY DEF IInv
<1>3. /\ DOMAIN mempool' = DOMAIN mempool
      /\ \A i \in DOMAIN mempool :
           /\ mempool'[i] \in TxType
           /\ mempool[i].by = p => mempool'[i].by = Nobody
           /\ mempool[i].by # p => mempool'[i] = mempool[i]
  <2> SUFFICES ASSUME NEW i \in DOMAIN mempool
               PROVE  /\ mempool'[i] \in TxType
                      /\ mempool[i].by = p => mempool'[i].by = Nobody
                      /\ mempool[i].by # p => mempool'[i] = mempool[i]
    BY <1>1, <1>2
  <2>1. mempool[i] \in TxType
    BY <1>2
  <2>2. CASE mempool[i].by = p
    <3>1. mempool'[i] = [mempool[i] EXCEPT !.by = Nobody]
      BY <1>1, <2>2
    <3>2. mempool'[i] \in TxType /\ mempool'[i].by = Nobody
      BY <2>1, <3>1 DEF TxType
    <3> QED BY <2>2, <3>2
  <2>3. CASE mempool[i].by # p
    BY <1>1, <2>1, <2>3
  <2> QED BY <2>2, <2>3
<1>4. mempool' \in Seq(TxType)
  BY <1>1, <1>2, <1>3
<1>5. /\ proc' \in [Proc -> RunType \cup {Idle}]
      /\ proc'[p] = Idle /\ \A q \in Proc : q # p => proc'[q] = proc[q]
  BY <1>1 DEF IInv
<1>6. RunsOK'
  BY <1>1, <1>5 DEF IInv, RunsOK, Running
<1>7. ASSUME NEW i \in DOMAIN mempool', NEW q, mempool'[i].by = q, q # Nobody
      PROVE  q \in Proc /\ Running(q)' /\ proc'[q].waiting /\ mempool'[i] = Transaction(q)'
  <2>1. mempool'[i] = mempool[i] /\ q # p
    BY <1>3, <1>7
  <2>2. q \in Proc /\ Running(q) /\ proc[q].waiting /\ mempool[i] = Transaction(q)
    BY <1>3, <1>7, <2>1 DEF IInv, SendersOK
  <2>3. proc'[q] = proc[q]
    BY <1>5, <2>1, <2>2
  <2> QED BY <2>1, <2>2, <2>3 DEF Running, Transaction, Step
<1>8. \A i, j \in DOMAIN mempool' :
        mempool'[i].by = mempool'[j].by /\ mempool'[i].by # Nobody => i = j
  <2> SUFFICES ASSUME NEW i \in DOMAIN mempool, NEW j \in DOMAIN mempool,
                      mempool'[i].by = mempool'[j].by, mempool'[i].by # Nobody
               PROVE  i = j
    BY <1>3, Zenon
  <2>1. mempool'[i] = mempool[i] /\ mempool'[j] = mempool[j]
    BY <1>3
  <2> QED BY <2>1 DEF IInv, SendersOK
<1>9. ASSUME NEW q \in Proc, Running(q)', proc'[q].waiting
      PROVE  \E i \in DOMAIN mempool' : mempool'[i].by = q
  <2>1. q # p /\ proc'[q] = proc[q]
    BY <1>5, <1>9 DEF Running
  <2>2. PICK i \in DOMAIN mempool : mempool[i].by = q
    BY <1>9, <2>1 DEF IInv, SendersOK, Running
  <2>3. i \in DOMAIN mempool' /\ mempool'[i].by = q
    BY <1>3, <2>1, <2>2
  <2> QED BY <2>3
<1>10. SendersOK'
  <2>1. \A i \in DOMAIN mempool' : \A q : mempool'[i].by = q /\ q # Nobody =>
          q \in Proc /\ Running(q)' /\ proc'[q].waiting /\ mempool'[i] = Transaction(q)'
    BY <1>7
  <2>2. ASSUME NEW i \in DOMAIN mempool', mempool'[i].by # Nobody
        PROVE  (/\ mempool[i].by \in Proc /\ Running(mempool[i].by)
                /\ proc[mempool[i].by].waiting
                /\ mempool[i] = Transaction(mempool[i].by))'
    <3>1. PICK q : q = mempool'[i].by
      OBVIOUS
    <3>2. q \in Proc /\ Running(q)' /\ proc'[q].waiting /\ mempool'[i] = Transaction(q)'
      BY <2>2, <2>1, <3>1
    <3> QED BY <3>1, <3>2, Zenon DEF Running, Transaction, Step
  <2> QED BY <1>8, <1>9, <2>2, Zenon DEF SendersOK
<1> QED BY <1>1, <1>4, <1>5, <1>6, <1>10 DEF IInv

LEMMA ChainGrowsKeeps ==
    ASSUME IInv, UNCHANGED <<mempool, file, world, proc, reverted, runs>>,
           chain' \in ChainType, WithinYieldTokens(chain'), Grows(chain, chain')
    PROVE  IInv'
<1>1. Closed(file, chain', reverted)
  BY ClosedGrows DEF IInv
<1>2. RunsOK'
  <2> SUFFICES ASSUME NEW q \in Proc, Running(q)
               PROVE  RunOK(proc[q], chain', reverted)
    BY DEF RunsOK, Running
  <2> QED BY RunningFields, RunGrows DEF IInv
<1>3. SendersOK'
  BY DEF IInv, SendersOK, Running, Transaction, Step
<1> QED BY <1>1, <1>2, <1>3 DEF IInv

LEMMA OtherKeeps == ASSUME IInv, NEW e \in Expiry, SomebodyCreatesYield(e) PROVE IInv'
<1>1. chain' = [chain EXCEPT !.yields = @ \cup {e}] /\ UNCHANGED <<mempool, file, world, proc, reverted, runs>>
  BY DEF SomebodyCreatesYield, Quiet
<1>2. PICK v : v = chain.yields \cup {e}
  OBVIOUS
<1>3. v \in SUBSET Expiry /\ chain.yields \subseteq v /\ chain' = [chain EXCEPT !.yields = v]
  BY <1>1, <1>2, ChainFields DEF IInv
<1>4. chain' \in ChainType /\ WithinYieldTokens(chain') /\ Grows(chain, chain')
  BY <1>3, YieldsGrow DEF IInv
<1> QED BY <1>1, <1>4, ChainGrowsKeeps

(* Time passes, a switch is used, the governance is handed over.           *)
LEMMA ChangeGrows ==
    ASSUME IInv, Changed
    PROVE  /\ chain' \in ChainType /\ WithinYieldTokens(chain') /\ Grows(chain, chain')
           /\ chain'.yields = chain.yields /\ chain'.xyt = chain.xyt /\ chain'.pools = chain.pools
           /\ chain'.mining = chain.mining /\ chain'.directories = chain.directories
<1>1. chain \in ChainType /\ WithinYieldTokens(chain)
  BY DEF IInv
<1>2. CASE \E t \in chain.now + 1 .. MaxTime : chain' = [chain EXCEPT !.now = t]
  <2>1. PICK t \in chain.now + 1 .. MaxTime : chain' = [chain EXCEPT !.now = t]
    BY <1>2
  <2>2. t \in Nat
    BY <1>1, ChainFields, ManageAssumption
  <2> QED BY <1>1, <2>1, <2>2, OthersChange
<1>3. CASE \E x \in world.switches :
             chain' = [chain EXCEPT !.shut = IF x \in @ THEN @ \ {x} ELSE @ \cup {x}]
  <2>1. PICK x \in world.switches :
               chain' = [chain EXCEPT !.shut = IF x \in @ THEN @ \ {x} ELSE @ \cup {x}]
    BY <1>3
  <2>2. PICK v : v = IF x \in chain.shut THEN chain.shut \ {x} ELSE chain.shut \cup {x}
    OBVIOUS
  <2>3. world.switches \in SUBSET Switches
    BY ManageAssumption DEF IInv
  <2>4. v \in SUBSET Switches /\ chain' = [chain EXCEPT !.shut = v]
    BY <1>1, <2>1, <2>2, <2>3, ChainFields
  <2> QED BY <1>1, <2>4, OthersChange
<1>4. CASE chain' = [chain EXCEPT !.governs = FALSE]
  <2>1. FALSE \in BOOLEAN
    OBVIOUS
  <2> QED BY <1>1, <1>4, <2>1, OthersChange
<1> QED BY <1>2, <1>3, <1>4 DEF Changed

LEMMA ChangeKeeps == ASSUME IInv, Change PROVE IInv'
<1>1. Changed /\ UNCHANGED <<mempool, file, world, proc, reverted, runs>>
  BY DEF Change
<1> QED BY <1>1, ChangeGrows, ChainGrowsKeeps

LEMMA StepKeeps == IInv /\ [Next]_vars => IInv'
<1> SUFFICES ASSUME IInv, [Next]_vars PROVE IInv'
  OBVIOUS
<1>1. ASSUME NEW p \in Proc, NEW job \in world.jobs, Start(p, job) PROVE IInv'
  BY <1>1, StartKeeps
<1>2. ASSUME NEW p \in Proc, Script(p) PROVE IInv'
  BY <1>2, SendKeeps, SkipKeeps, EndKeeps, ReadKeeps, PollKeeps, SaveKeeps DEF Script
<1>3. ASSUME NEW p \in Proc, Crash(p) PROVE IInv'
  BY <1>3, CrashKeeps
<1>4. CASE Mine
  BY <1>4, MineKeeps
<1>5. ASSUME NEW e \in Expiry, SomebodyCreatesYield(e) PROVE IInv'
  BY <1>5, OtherKeeps
<1>6. CASE UNCHANGED vars
  <2>1. UNCHANGED <<chain, mempool, file, world, proc, reverted, runs>>
    BY <1>6 DEF vars
  <2> QED BY <2>1 DEF IInv, RunsOK, SendersOK, Running, Transaction, Step
<1>7. CASE Change
  BY <1>7, ChangeKeeps
<1> QED BY <1>1, <1>2, <1>3, <1>4, <1>5, <1>6, <1>7 DEF Next

(* Every entry of the deployment file that is not 0x0 stands for a contract *)
(* on the chain, with the yield contract it belongs to beside it, and where *)
(* it says 0x0 or lists a mining contract without an allocation a call that *)
(* had been accepted has reverted - whatever scripts ran together,          *)
(* overwrote each other's file and died, whatever was paused, expired or    *)
(* handed over meanwhile.                                                   *)
THEOREM FileStaysClosed == Spec => []FileIsClosed
<1>1. Init => IInv
  BY InitImplies
<1>2. IInv /\ [Next]_vars => IInv'
  BY StepKeeps
<1>3. IInv => FileIsClosed
  BY InvImplies
<1> QED BY <1>1, <1>2, <1>3, PTL DEF Spec

-----------------------------------------------------------------------------
(* A yield contract that has missed its entry.                             *)
Attends(r, e) ==
    \/ e \in r.mem.yields
    \/ /\ r.kind = "deploy_new_yield" /\ r.e = e /\ e \notin r.mem.zeroYields
       /\ r.waiting \/ r.pc > 1

LEMMA UnattendedMoves ==
    ASSUME IInv, NEW e \in Expiry, Unattended(e), NEW p \in Proc, NEW r,
           proc' = [proc EXCEPT ![p] = r], r # Idle => ~Attends(r, e)
    PROVE  Unattended(e)'
<1>1. proc'[p] = r /\ \A q \in Proc : q # p => proc'[q] = proc[q]
  BY DEF IInv
<1> QED BY <1>1 DEF Unattended, Attends, Running

LEMMA StartLoses ==
    ASSUME IInv, NEW e \in Expiry, Lost(e), NEW p \in Proc, NEW job \in world.jobs, Start(p, job)
    PROVE  Unattended(e)'
<1>1. PICK r : r = [kind |-> job.kind, e |-> job.e, b |-> job.b, run |-> runs', pc |-> 1,
                    waiting |-> FALSE, mem |-> file, start |-> chain.now + 1,
                    initial |-> chain.xyt[job.e], minted |-> 0, made |-> 0, real |-> FALSE]
  OBVIOUS
<1>2. proc' = [proc EXCEPT ![p] = r]
  BY <1>1 DEF Start
<1>3. r.pc = 1 /\ ~r.waiting /\ r.mem = file
  BY <1>1
<1>4. ~Attends(r, e)
  BY <1>3 DEF Lost, Attends
<1> QED BY <1>2, <1>4, UnattendedMoves DEF Lost

LEMMA SendLoses ==
    ASSUME IInv, NEW e \in Expiry, Lost(e), NEW p \in Proc, Send(p)
    PROVE  Unattended(e)'
<1>1. /\ Running(p) /\ ~proc[p].waiting /\ ~AtEnd(p) /\ Succeeds(chain, Transaction(p))
      /\ proc' = [proc EXCEPT ![p].waiting = TRUE]
      /\ Step(p) \notin Writes \cup {"poll", "read"}
  BY DEF Send, Ready
<1>2. PICK r : r = proc[p]
  OBVIOUS
<1>3. r \in RunType /\ RunFields(r)
  BY <1>1, <1>2, RunningFields
<1>4. PICK s : s = [r EXCEPT !.waiting = TRUE]
  OBVIOUS
<1>5. s.kind = r.kind /\ s.e = r.e /\ s.mem = r.mem /\ s.pc = r.pc
  BY <1>3, <1>4 DEF RunType
<1>6. proc' = [proc EXCEPT ![p] = s]
  BY <1>1, <1>2, <1>4 DEF IInv
<1>7. ~Attends(r, e) /\ e \in chain.yields
  BY <1>1, <1>2 DEF Lost, Unattended, Attends
<1>8. ~(r.kind = "deploy_new_yield" /\ r.e = e /\ e \notin r.mem.zeroYields)
  <2> SUFFICES ASSUME r.kind = "deploy_new_yield", r.e = e, e \notin r.mem.zeroYields PROVE FALSE
    OBVIOUS
  <2>1. r.pc = 1
    BY <1>3, <1>7 DEF Attends, RunFields
  <2>2. Step(p) = "newYieldContracts"
    BY <1>2, <2>1, YieldBody DEF Step
  <2>3. PICK tx : tx = Transaction(p)
    OBVIOUS
  <2>4. tx.call = "newYieldContracts" /\ tx.e = e
    BY <1>2, <2>2, <2>3 DEF Transaction
  <2>5. e \notin chain.yields
    BY <1>1, <2>3, <2>4 DEF Succeeds, CanCreateYield
  <2> QED BY <1>7, <2>5
<1>9. ~Attends(s, e)
  BY <1>5, <1>7, <1>8 DEF Attends
<1> QED BY <1>6, <1>9, UnattendedMoves DEF Lost

LEMMA SkipLoses ==
    ASSUME IInv, NEW e \in Expiry, Lost(e), NEW p \in Proc, SkipDirectory(p)
    PROVE  Unattended(e)'
<1>1. /\ Running(p) /\ ~AtEnd(p) /\ Step(p) = "deployDirectory"
      /\ proc' = [proc EXCEPT ![p].pc = @ + 2]
  BY DEF SkipDirectory, Ready
<1>2. PICK r : r = proc[p]
  OBVIOUS
<1>3. r \in RunType /\ RunFields(r)
  BY <1>1, <1>2, RunningFields
<1>4. PICK s : s = [r EXCEPT !.pc = @ + 2]
  OBVIOUS
<1>5. s.kind = r.kind /\ s.mem = r.mem
  BY <1>3, <1>4 DEF RunType
<1>6. proc' = [proc EXCEPT ![p] = s]
  BY <1>1, <1>2, <1>4 DEF IInv
<1>7. e \notin r.mem.yields
  BY <1>1, <1>2 DEF Lost, Unattended
<1>8. r.kind \in V2Kinds
  <2>1. r.pc \in 1..Len(Body(r.kind)) /\ Body(r.kind)[r.pc] = "deployDirectory"
    BY <1>1, <1>2, <1>3, Bodies DEF Step, AtEnd, RunFields
  <2> QED BY <2>1, <1>3, WhereSteps DEF RunFields
<1>9. ~Attends(s, e)
  BY <1>5, <1>7, <1>8 DEF Attends, V2Kinds
<1> QED BY <1>6, <1>9, UnattendedMoves DEF Lost

LEMMA PollLoses ==
    ASSUME IInv, NEW e \in Expiry, Lost(e), NEW p \in Proc, Poll(p)
    PROVE  Unattended(e)'
<1>1. Running(p) /\ ~AtEnd(p) /\ Step(p) = "poll"
  BY DEF Poll, Ready
<1>2. PICK r : r = proc[p]
  OBVIOUS
<1>3. r \in RunType /\ RunFields(r)
  BY <1>1, <1>2, RunningFields
<1>4. PICK n : n = chain.xyt[r.e] - r.initial
  OBVIOUS
<1>5. PICK s : s = [[r EXCEPT !.minted = n] EXCEPT !.pc = @ + 1]
  OBVIOUS
<1>6. s.kind = r.kind /\ s.mem = r.mem
  BY <1>3, <1>5 DEF RunType
<1>7. proc' = [proc EXCEPT ![p] = s]
  <2>1. proc' = [proc EXCEPT ![p].minted = n, ![p].pc = @ + 1]
    BY <1>2, <1>4 DEF Poll
  <2> QED BY <1>2, <1>5, <2>1 DEF IInv
<1>8. e \notin r.mem.yields
  BY <1>1, <1>2 DEF Lost, Unattended
<1>9. r.kind = "mint_xyt_bootstrap_market"
  <2>1. r.pc \in 1..Len(Body(r.kind)) /\ Body(r.kind)[r.pc] = "poll"
    BY <1>1, <1>2, <1>3, Bodies DEF Step, AtEnd, RunFields
  <2> QED BY <2>1, <1>3, WhereSteps DEF RunFields
<1>10. ~Attends(s, e)
  BY <1>6, <1>8, <1>9 DEF Attends
<1> QED BY <1>7, <1>10, UnattendedMoves DEF Lost

LEMMA ReadLoses ==
    ASSUME IInv, NEW e \in Expiry, Lost(e), NEW p \in Proc, Read(p)
    PROVE  Unattended(e)'
<1>1. Running(p) /\ ~AtEnd(p) /\ Step(p) = "read"
  BY DEF Read, Ready
<1>2. PICK r : r = proc[p]
  OBVIOUS
<1>3. r \in RunType /\ RunFields(r)
  BY <1>1, <1>2, RunningFields
<1>4. PICK y : y = IF r.kind = "deploy_new_yield" THEN r.e \in chain.yields
                   ELSE <<r.e, r.b>> \in chain.markets
  OBVIOUS
<1>5. PICK s : s = [[r EXCEPT !.pc = @ + 1] EXCEPT !.real = y]
  OBVIOUS
<1>6. s.kind = r.kind /\ s.e = r.e /\ s.mem = r.mem
  BY <1>3, <1>5 DEF RunType
<1>7. proc' = [proc EXCEPT ![p] = s]
  <2>1. proc' = [proc EXCEPT ![p].pc = @ + 1, ![p].real = y]
    BY <1>2, <1>4 DEF Read
  <2> QED BY <1>2, <1>5, <2>1 DEF IInv
<1>8. ~Attends(r, e)
  BY <1>1, <1>2 DEF Lost, Unattended, Attends
<1>9. r.pc = 2
  <2>1. r.pc \in 1..Len(Body(r.kind)) /\ Body(r.kind)[r.pc] = "read"
    BY <1>1, <1>2, <1>3, Bodies DEF Step, AtEnd, RunFields
  <2> QED BY <2>1, <1>3, WhereSteps DEF RunFields
<1>10. ~Attends(s, e)
  BY <1>6, <1>8, <1>9 DEF Attends
<1> QED BY <1>7, <1>10, UnattendedMoves DEF Lost

LEMMA SaveLoses ==
    ASSUME IInv, NEW e \in Expiry, Lost(e), NEW p \in Proc, Save(p)
    PROVE  Unattended(e)' /\ e \notin file'.yields
<1>1. /\ Running(p) /\ ~proc[p].waiting /\ ~AtEnd(p) /\ Step(p) \in Writes /\ Needs(p)
      /\ file' = Written(Noted(p))
      /\ proc' = [proc EXCEPT ![p].mem = Noted(p), ![p].pc = @ + 1]
  BY DEF Save, Ready
<1>2. PICK r, m : r = proc[p] /\ m = Noted(p)
  OBVIOUS
<1>3. r \in RunType /\ RunFields(r) /\ m \in MemType
  BY <1>1, <1>2, RunningFields, NotedIsClosed
<1>4. ~Attends(r, e)
  BY <1>1, <1>2 DEF Lost, Unattended, Attends
<1>5. ~(r.kind = "deploy_new_yield" /\ r.e = e /\ e \notin r.mem.zeroYields)
  <2>1. r.kind = "deploy_new_yield" => r.pc = 3
    BY <1>1, <1>2, NotedIsClosed
  <2> QED BY <1>4, <2>1 DEF Attends
<1>6. e \notin m.yields
  <2>1. \A y \in m.yields :
          \/ y \in r.mem.yields
          \/ r.kind = "deploy_new_yield" /\ y = r.e /\ y \notin r.mem.zeroYields
    BY <1>1, <1>2, NotedIsClosed
  <2> QED BY <1>4, <1>5, <2>1 DEF Attends
<1>7. PICK s : s = [[r EXCEPT !.mem = m] EXCEPT !.pc = @ + 1]
  OBVIOUS
<1>8. s.kind = r.kind /\ s.e = r.e /\ s.mem = m
  BY <1>3, <1>7 DEF RunType
<1>9. proc' = [proc EXCEPT ![p] = s]
  BY <1>1, <1>2, <1>7 DEF IInv
<1>10. Unattended(e)'
  <2>2. r.mem.zeroYields \subseteq m.zeroYields
    BY <1>1, <1>2, NotedIsClosed
  <2>1. ~Attends(s, e)
    BY <1>5, <1>6, <1>8, <2>2 DEF Attends
  <2> QED BY <1>9, <2>1, UnattendedMoves DEF Lost
<1>11. e \notin Written(m).yields
  <2>1. [m EXCEPT !.directory = 0].yields = m.yields
    BY <1>3 DEF MemType
  <2> QED BY <1>6, <2>1 DEF Written
<1> QED BY <1>1, <1>2, <1>10, <1>11

LEMMA MineLoses ==
    ASSUME IInv, NEW e \in Expiry, Lost(e), Mine
    PROVE  Unattended(e)'
<1>1. PICK tx : tx = Head(mempool)
  OBVIOUS
<1>2. /\ mempool # << >>
      /\ proc' = IF tx.by = Nobody THEN proc
                 ELSE [proc EXCEPT ![tx.by] =
                         IF tx.call \in Deployments /\ ~Succeeds(chain, tx) THEN Idle
                         ELSE Confirmed(tx.by, tx)]
  BY <1>1 DEF Mine
<1>3. 1 \in DOMAIN mempool /\ tx = mempool[1]
  BY <1>1, <1>2 DEF IInv
<1>4. CASE tx.by = Nobody
  <2>1. proc' = proc
    BY <1>2, <1>4
  <2> QED BY <2>1 DEF Lost, Unattended, Running
<1>5. CASE tx.by # Nobody
  <2>1. PICK p : p = tx.by
    OBVIOUS
  <2>2. p \in Proc /\ Running(p) /\ proc[p].waiting
    BY <1>3, <1>5, <2>1 DEF IInv, SendersOK
  <2>3. PICK r : r = proc[p]
    OBVIOUS
  <2>4. r \in RunType
    BY <2>2, <2>3, RunningFields
  <2>5. PICK s : s = Confirmed(p, tx)
    OBVIOUS
  <2>6. s.kind = r.kind /\ s.e = r.e /\ s.mem = r.mem
    <3>1. PICK n : n = IF tx.call \in Deployments THEN Created(chain', tx.call) ELSE r.made
      OBVIOUS
    <3>2. s = [r EXCEPT !.waiting = FALSE, !.pc = r.pc + 1, !.made = n]
      BY <2>2, <2>3, <2>4, <2>5, <3>1 DEF Confirmed
    <3> QED BY <2>4, <3>2 DEF RunType
  <2>7. ~Attends(s, e)
    BY <2>2, <2>3, <2>6 DEF Lost, Unattended, Attends
  <2>8. PICK x : x = IF tx.call \in Deployments /\ ~Succeeds(chain, tx) THEN Idle ELSE s
    OBVIOUS
  <2>9. proc' = [proc EXCEPT ![p] = x]
    BY <1>2, <1>5, <2>1, <2>5, <2>8
  <2>10. x # Idle => ~Attends(x, e)
    BY <2>7, <2>8
  <2> QED BY <2>2, <2>9, <2>10, UnattendedMoves DEF Lost
<1> QED BY <1>4, <1>5

LEMMA LostStays ==
    ASSUME IInv, [Next]_vars, NEW e \in Expiry, Lost(e)
    PROVE  Lost(e)'
<1> USE DEF Lost
<1>1. ASSUME NEW p \in Proc, NEW job \in world.jobs, Start(p, job) PROVE Lost(e)'
  BY <1>1, StartLoses DEF Start
<1>2. ASSUME NEW p \in Proc, Send(p) PROVE Lost(e)'
  BY <1>2, SendLoses DEF Send
<1>3. ASSUME NEW p \in Proc, SkipDirectory(p) PROVE Lost(e)'
  BY <1>3, SkipLoses DEF SkipDirectory
<1>4. ASSUME NEW p \in Proc, Fail(p) \/ Finish(p) \/ Crash(p) PROVE Lost(e)'
  <2>1. proc' = [proc EXCEPT ![p] = Idle] /\ UNCHANGED <<chain, file>>
    BY <1>4 DEF Fail, Finish, Crash
  <2> QED BY <2>1, UnattendedMoves
<1>5. ASSUME NEW p \in Proc, Poll(p) PROVE Lost(e)'
  BY <1>5, PollLoses DEF Poll
<1>10. ASSUME NEW p \in Proc, Read(p) PROVE Lost(e)'
  BY <1>10, ReadLoses DEF Read
<1>11. CASE Change
  <2>1. chain'.yields = chain.yields /\ UNCHANGED <<file, proc>>
    BY <1>11, ChangeGrows DEF Change
  <2> QED BY <2>1 DEF Unattended, Running
<1>6. ASSUME NEW p \in Proc, Save(p) PROVE Lost(e)'
  BY <1>6, SaveLoses DEF Save
<1>7. CASE Mine
  <2>1. PICK tx : tx = Head(mempool)
    OBVIOUS
  <2>2. /\ chain' = (IF Succeeds(chain, tx) THEN Effect(chain, tx) ELSE chain)
        /\ tx \in TxType /\ UNCHANGED file
    BY <1>7, <2>1 DEF Mine, IInv
  <2>3. chain.yields \subseteq chain'.yields
    BY <2>2, MinedGrows DEF Grows
  <2> QED BY <1>7, <2>2, <2>3, MineLoses
<1>8. ASSUME NEW x \in Expiry, SomebodyCreatesYield(x) PROVE Lost(e)'
  <2>1. chain' = [chain EXCEPT !.yields = @ \cup {x}] /\ UNCHANGED <<file, proc>>
    BY <1>8 DEF SomebodyCreatesYield
  <2>2. chain'.yields = chain.yields \cup {x}
    BY <2>1 DEF IInv, ChainType
  <2> QED BY <2>1, <2>2 DEF Unattended, Running
<1>9. CASE UNCHANGED vars
  BY <1>9 DEF vars, Unattended, Running
<1> QED BY <1>1, <1>2, <1>3, <1>4, <1>5, <1>6, <1>7, <1>8, <1>9, <1>10, <1>11
       DEF Next, Script

(* A yield contract that has missed its entry in the file, or has one of   *)
(* 0x0, never gets its address there, and never a market: deploy_new_yield *)
(* is refused or keeps the 0x0, deploy_new_market fails or is refused, and *)
(* no copy of the file holds the address.                                  *)
THEOREM LostForEver == Spec => LostYieldStaysLost
<1> DEFINE A == \A e \in Expiry : Lost(e) => Lost(e)' /\ \A b \in Base :
                  <<e, b>> \in file.markets' => <<e, b>> \in file.markets
<1>1. IInv /\ IInv' /\ [Next]_vars => [A]_vars
  <2> SUFFICES ASSUME IInv, IInv', [Next]_vars PROVE A
    OBVIOUS
  <2> SUFFICES ASSUME NEW e \in Expiry, Lost(e)
               PROVE  Lost(e)' /\ \A b \in Base : <<e, b>> \notin file.markets'
    OBVIOUS
  <2>1. Lost(e)'
    BY LostStays
  <2>2. ASSUME NEW b \in Base PROVE <<e, b>> \notin file'.markets
    <3>1. \A x \in file'.markets : x[1] \in file'.yields
      BY DEF IInv, Closed, EntriesClosed
    <3>2. e \notin file'.yields
      BY <2>1 DEF Lost
    <3> QED BY <3>1, <3>2
  <2> QED BY <2>1, <2>2
<1>2. Init => IInv
  BY InitImplies
<1>3. IInv /\ [Next]_vars => IInv'
  BY StepKeeps
<1> HIDE DEF A
<1>4. Spec => [][A]_vars
  BY <1>1, <1>2, <1>3, PTL DEF Spec
<1> QED BY <1>4 DEF A, LostYieldStaysLost

-----------------------------------------------------------------------------
(* What undisturbed runs leave behind.  As long as no script was started   *)
(* beside another one or beside a transaction on its way, one script at    *)
(* most runs (OnlyOne), everything in the mempool is its own (OwnCalls),   *)
(* its copy of the file is the file (AloneOK), and what it is about to     *)
(* bootstrap is what it has minted (OwnMint).                              *)
SameEntries(m, f, arrayFile) ==
    /\ m.yields = f.yields /\ m.zeroYields = f.zeroYields
    /\ m.markets = f.markets /\ m.zeroMarkets = f.zeroMarkets
    /\ m.mining = f.mining /\ m.miningV2 = f.miningV2
    /\ ~arrayFile => m.directory = f.directory

AloneOK(r, c, f, R, arrayFile) ==
    /\ SameEntries(r.mem, f, arrayFile)
    /\ r.kind = "deploy_new_yield" /\ r.pc > 3 => r.e \in YieldEntries(f)
    /\ r.kind = "deploy_new_market" /\ r.pc > 3 =>
         <<r.e, r.b>> \in f.markets \/ OwnMarketFailed(R, r.run, <<r.e, r.b>>)
    /\ r.kind = "deploy_liquitiy_mining" =>
         /\ r.pc > 1 => r.made = Len(c.mining)
         /\ r.pc > 3 => <<r.b, r.made>> \in f.mining
    /\ r.kind \in V2Kinds =>
         /\ r.pc > 4 => <<r.e, r.made>> \in f.miningV2
         /\ r.pc = 1 /\ r.waiting => r.mem.directory = 0
    /\ r.kind = "mint_xyt_bootstrap_market" =>
         /\ r.pc = 1 => c.xyt[r.e] = r.initial
         /\ r.pc = 2 => c.xyt[r.e] \in {r.initial, r.initial + 1}
         /\ r.pc = 3 => r.minted = 1

OnlyOne == \A p, q \in Proc : Running(p) /\ Running(q) => p = q

OwnCalls == \A p \in Proc : Running(p) => \A i \in DOMAIN mempool : mempool[i].by = p

RunsAlone == \A p \in Proc : Running(p) => AloneOK(proc[p], chain, file, reverted, world.arrayFile)

OwnMint ==
    /\ \A pool \in chain.pools : pool[3] = 1
    /\ \A i \in DOMAIN mempool : mempool[i].call = "bootstrapMarket" => mempool[i].amount = 1

(* A script that has deployed the directory and is about to write it.      *)
Lists(r) == r.kind \in V2Kinds /\ r.pc = 2

DirectoryKnown ==
    ~world.arrayFile /\ crashes = 0 =>
      \/ Len(chain.directories) = 0
      \/ Len(chain.directories) = 1 /\ file.directory # 0
      \/ Len(chain.directories) = 1 /\ \E p \in Proc : Running(p) /\ Lists(proc[p])

KeptInFile(f, R, r) ==
    /\ r.made \in Int
    /\ r.kind = "deploy_new_yield" => r.e \in YieldEntries(f)
    /\ r.kind = "deploy_new_market" =>
         <<r.e, r.b>> \in f.markets \/ OwnMarketFailed(R, r.run, <<r.e, r.b>>)
    /\ r.kind = "deploy_liquitiy_mining" => \E m \in f.mining : m[1] = r.b /\ m[2] >= r.made
    /\ r.kind \in V2Kinds => <<r.e, r.made>> \in f.miningV2

AllKept == \A r \in finished : KeptInFile(file, reverted, r)

LEMMA KeptStays ==
    ASSUME AllKept, file' = file, finished' = finished, reverted \subseteq reverted' PROVE AllKept'
<1> SUFFICES ASSUME NEW r \in finished PROVE KeptInFile(file, reverted', r)
  BY DEF AllKept
<1>1. KeptInFile(file, reverted, r)
  BY DEF AllKept
<1>2. \A n, x : OwnMarketFailed(reverted, n, x) => OwnMarketFailed(reverted', n, x)
  BY FailuresStay
<1> QED BY <1>1, <1>2 DEF KeptInFile

Undisturbed == OnlyOne /\ OwnCalls /\ RunsAlone /\ OwnMint /\ DirectoryKnown /\ AllKept

NobodyDied == crashes = 0 => \A i \in DOMAIN mempool : mempool[i].by # Nobody

FInv ==
    /\ crashes \in Nat /\ overlapped \in BOOLEAN /\ NobodyDied
    /\ overlapped => finished = {}
    /\ ~overlapped => Undisturbed

LEMMA FInvImplies == IInv /\ FInv => FinishedIsRecorded
<1> SUFFICES ASSUME IInv, FInv PROVE FinishedIsRecorded
  OBVIOUS
<1>1. OneDirectory
  <2>1. CASE ~overlapped
    <3>1. DirectoryKnown /\ crashes \in Nat
      BY <2>1, Zenon DEF FInv, Undisturbed
    <3>2. ~world.arrayFile /\ crashes = 0 => Len(chain.directories) <= 1
      <4>1. PICK n : n = Len(chain.directories)
        OBVIOUS
      <4>2. ~world.arrayFile /\ crashes = 0 => n = 0 \/ n = 1
        BY <3>1, <4>1, Zenon DEF DirectoryKnown
      <4>3. n = 0 \/ n = 1 => n <= 1
        OBVIOUS
      <4> QED BY <4>1, <4>2, <4>3, Zenon
    <3>3. crashes # 0 => crashes > 0
      BY <3>1
    <3> QED BY <3>2, <3>3, Zenon DEF OneDirectory
  <2> QED BY <2>1, Zenon DEF OneDirectory
<1>2. BootstrapsOwnMint
  BY DEF FInv, Undisturbed, OwnMint, BootstrapsOwnMint
<1>3. ASSUME NEW r \in finished PROVE Recorded(r)
  <2>1. KeptInFile(file, reverted, r)
    BY DEF FInv, Undisturbed, AllKept
  <2>2. YieldEntries(file) = file.yields \cup file.zeroYields
    BY DEF YieldEntries
  <2>3. r.kind = "deploy_new_yield" => r.e \in file.yields \/ r.e \in file.zeroYields
    BY <2>1, <2>2 DEF KeptInFile
  <2>4. r.kind = "deploy_new_market" => \/ <<r.e, r.b>> \in file.markets
                                       \/ Reverted(r.run, "createMarket")
    BY <2>1 DEF KeptInFile, OwnMarketFailed, Reverted
  <2> QED BY <2>1, <2>3, <2>4, Zenon DEF KeptInFile, Recorded
<1> QED BY <1>1, <1>2, <1>3 DEF FinishedIsRecorded

LEMMA InitIsUndisturbed == Init => FInv
<1> SUFFICES ASSUME Init PROVE FInv
  OBVIOUS
<1>1. /\ chain.pools = {} /\ chain.directories = << >> /\ mempool = << >>
      /\ \A p \in Proc : ~Running(p)
      /\ crashes = 0 /\ overlapped = FALSE /\ finished = {}
  BY DEF Init, Running
<1>2. OnlyOne /\ OwnCalls /\ RunsAlone /\ AllKept
  BY <1>1 DEF OnlyOne, OwnCalls, RunsAlone, AllKept
<1>3. OwnMint /\ NobodyDied
  BY <1>1 DEF OwnMint, NobodyDied
<1>4. DirectoryKnown
  BY <1>1 DEF DirectoryKnown
<1> QED BY <1>1, <1>2, <1>3, <1>4 DEF FInv, Undisturbed

(* The one script that runs moves, or ends.                                *)
LEMMA AloneMoves ==
    ASSUME IInv, NEW p \in Proc, NEW r, \A q \in Proc : Running(q) => q = p,
           proc' = [proc EXCEPT ![p] = r], UNCHANGED world,
           r # Idle => /\ AloneOK(r, chain', file', reverted', world.arrayFile)
                       /\ \A i \in DOMAIN mempool' : mempool'[i].by = p
    PROVE  /\ OnlyOne' /\ OwnCalls' /\ RunsAlone'
           /\ proc'[p] = r /\ \A q \in Proc : Running(q)' => q = p
<1>1. proc'[p] = r /\ \A q \in Proc : q # p => proc'[q] = proc[q]
  BY DEF IInv
<1>2. \A q \in Proc : Running(q)' => q = p
  BY <1>1 DEF Running
<1>3. OnlyOne'
  BY <1>2 DEF OnlyOne
<1>4. OwnCalls'
  BY <1>1, <1>2 DEF OwnCalls, Running
<1>5. RunsAlone'
  BY <1>1, <1>2 DEF RunsAlone, Running
<1> QED BY <1>1, <1>2, <1>3, <1>4, <1>5

(* The directory is where it was.                                          *)
LEMMA DirectoryStays ==
    ASSUME DirectoryKnown, UNCHANGED <<world, crashes>>,
           Len(chain'.directories) = Len(chain.directories),
           file'.directory = file.directory,
           \A p \in Proc : ~(Running(p) /\ Lists(proc[p]))
    PROVE  DirectoryKnown'
BY DEF DirectoryKnown

LEMMA AloneWith ==
    ASSUME FInv, ~overlapped, NEW p \in Proc, Running(p)
    PROVE  /\ \A q \in Proc : Running(q) => q = p
           /\ \A i \in DOMAIN mempool : mempool[i].by = p
           /\ AloneOK(proc[p], chain, file, reverted, world.arrayFile)
           /\ OwnMint /\ DirectoryKnown /\ AllKept
<1>1. OnlyOne /\ OwnCalls /\ RunsAlone /\ OwnMint /\ DirectoryKnown /\ AllKept
  BY DEF FInv, Undisturbed
<1> QED BY <1>1 DEF OnlyOne, OwnCalls, RunsAlone

(* A script that is about to list the directory writes it next.            *)
LEMMA ListsOnlyWrites ==
    ASSUME IInv, NEW p \in Proc, Running(p), Lists(proc[p])
    PROVE  Step(p) = "saveDirectory" /\ ~AtEnd(p) /\ ~proc[p].waiting /\ Needs(p)
<1>1. Step(p) = "saveDirectory" /\ Len(Body(proc[p].kind)) = 6
  BY MiningV2Body DEF Lists, Step
<1>2. ~AtEnd(p)
  BY <1>1 DEF AtEnd, Lists
<1>3. ~proc[p].waiting
  <2>1. proc[p].waiting => Body(proc[p].kind)[proc[p].pc] \notin Writes
    BY RunningFields DEF RunOK, WaitsForCall
  <2> QED BY <1>1, <2>1 DEF Step, Writes
<1> QED BY <1>1, <1>2, <1>3 DEF Needs

LEMMA WhereCalls ==
    ASSUME NEW k \in Kinds, NEW n \in 1..Len(Body(k))
    PROVE  /\ Body(k)[n] = "tokenizeYield" => k = "mint_xyt_bootstrap_market" /\ n = 1
           /\ Body(k)[n] = "bootstrapMarket" => k = "mint_xyt_bootstrap_market" /\ n = 3
           /\ Body(k)[n] = "deployMining" => k = "deploy_liquitiy_mining" /\ n = 1
           /\ Body(k)[n] = "deployMiningV2" => k \in V2Kinds /\ n = 3
<1>1. CASE k = "deploy_new_yield"
  BY <1>1, YieldBody
<1>2. CASE k = "deploy_new_market"
  BY <1>2, MarketBody
<1>3. CASE k = "mint_xyt_bootstrap_market"
  BY <1>3, BootstrapBody
<1>4. CASE k = "deploy_liquitiy_mining"
  BY <1>4, MiningBody
<1>5. CASE k \in V2Kinds
  BY <1>5, MiningV2Body
<1> QED BY <1>1, <1>2, <1>3, <1>4, <1>5 DEF Kinds, V2Kinds

(* Nobody else moves while nobody but p runs: what a step of p has to show. *)
LEMMA AloneStep ==
    ASSUME IInv, FInv, NEW p \in Proc, NEW r, Running(p), ~overlapped,
           proc' = [proc EXCEPT ![p] = r],
           UNCHANGED <<world, crashes, overlapped>>,
           r # Idle => /\ AloneOK(r, chain', file', reverted', world.arrayFile)
                       /\ \A i \in DOMAIN mempool' : mempool'[i].by = p,
           OwnMint', DirectoryKnown', AllKept', NobodyDied'
    PROVE  FInv'
<1>1. \A q \in Proc : Running(q) => q = p
  BY AloneWith
<1>2. OnlyOne' /\ OwnCalls' /\ RunsAlone'
  BY <1>1, AloneMoves
<1>3. crashes' \in Nat /\ overlapped' \in BOOLEAN /\ ~overlapped'
  BY DEF FInv
<1> QED BY <1>2, <1>3, Zenon DEF FInv, Undisturbed

(* When runs have overlapped nothing is remembered any more.               *)
LEMMA OverlappedStep ==
    ASSUME FInv, overlapped, overlapped' = overlapped, crashes' \in Nat, NobodyDied', finished' = {}
    PROVE  FInv'
BY Zenon DEF FInv

LEMMA StartAlone ==
    ASSUME IInv, FInv, NEW p \in Proc, NEW job \in world.jobs, Start(p, job) PROVE FInv'
<1>1. /\ proc' = [proc EXCEPT ![p] =
            [kind |-> job.kind, e |-> job.e, b |-> job.b, run |-> runs', pc |-> 1,
             waiting |-> FALSE, mem |-> file, start |-> chain.now + 1,
             initial |-> chain.xyt[job.e], minted |-> 0, made |-> 0, real |-> FALSE]]
      /\ overlapped' = (overlapped \/ mempool # << >> \/ \E q \in Proc : Running(q))
      /\ finished' = IF overlapped' THEN {} ELSE finished
      /\ UNCHANGED <<chain, mempool, file, world, crashes, reverted>>
  BY DEF Start
<1>2. PICK r : r = [kind |-> job.kind, e |-> job.e, b |-> job.b, run |-> runs', pc |-> 1,
                    waiting |-> FALSE, mem |-> file, start |-> chain.now + 1,
                    initial |-> chain.xyt[job.e], minted |-> 0, made |-> 0, real |-> FALSE]
  OBVIOUS
<1>3. proc' = [proc EXCEPT ![p] = r]
  BY <1>1, <1>2
<1>4. crashes' \in Nat /\ overlapped' \in BOOLEAN /\ NobodyDied'
  <2>1. NobodyDied'
    BY <1>1 DEF FInv, NobodyDied
  <2> QED BY <1>1, <2>1, Zenon DEF FInv
<1>5. CASE overlapped'
  <2>1. finished' = {}
    BY <1>1, <1>5
  <2> QED BY <1>4, <1>5, <2>1, Zenon DEF FInv
<1>6. CASE ~overlapped'
  <2>1. mempool = << >> /\ (\A q \in Proc : ~Running(q))
    BY <1>1, <1>6, Zenon
  <2>2. ~overlapped /\ finished' = finished
    BY <1>1, <1>6, Zenon
  <2>3. OwnMint /\ DirectoryKnown /\ AllKept
    BY <2>2, Zenon DEF FInv, Undisturbed
  <2>4. r.pc = 1 /\ ~r.waiting /\ r.mem = file /\ r.e = job.e /\ r.initial = chain.xyt[job.e]
    BY <1>2
  <2>5. AloneOK(r, chain', file', reverted', world.arrayFile)
    BY <1>1, <2>4 DEF AloneOK, SameEntries
  <2>6. \A i \in DOMAIN mempool' : mempool'[i].by = p
    BY <1>1, <2>1
  <2>7. OnlyOne' /\ OwnCalls' /\ RunsAlone'
    <3>1. (\A q \in Proc : Running(q) => q = p) /\ world' = world
      BY <1>1, <2>1
    <3> QED BY <1>3, <2>5, <2>6, <3>1, AloneMoves
  <2>8. OwnMint'
    BY <1>1, <2>3 DEF OwnMint
  <2>9. DirectoryKnown'
    BY <1>1, <2>1, <2>3, DirectoryStays
  <2>10. AllKept'
    BY <1>1, <2>2, <2>3, KeptStays
  <2> QED BY <1>4, <1>6, <2>7, <2>8, <2>9, <2>10, Zenon DEF FInv, Undisturbed
<1> QED BY <1>5, <1>6

LEMMA SendAlone ==
    ASSUME IInv, FInv, NEW p \in Proc, Send(p) PROVE FInv'
<1>0. /\ Running(p) /\ ~proc[p].waiting /\ ~AtEnd(p) /\ Step(p) \notin Writes \cup {"poll", "read"}
      /\ Step(p) = "deployDirectory" => proc[p].mem.directory = 0
      /\ mempool' = Append(mempool, Transaction(p))
      /\ proc' = [proc EXCEPT ![p].waiting = TRUE]
      /\ UNCHANGED <<chain, file, world, crashes, reverted, overlapped, finished>>
  BY DEF Send, Ready, Quiet
<1>1. PICK tx : tx = Transaction(p)
  OBVIOUS
<1>2. tx.by = p /\ p # Nobody /\ tx.call = Step(p) /\ tx.amount = proc[p].minted
  BY <1>1, ManageAssumption DEF Transaction, Nobody
<1>3. /\ mempool' = Append(mempool, tx)
      /\ DOMAIN mempool' = DOMAIN mempool \cup {Len(mempool) + 1}
      /\ mempool'[Len(mempool) + 1] = tx
      /\ \A i \in DOMAIN mempool : mempool'[i] = mempool[i]
  BY <1>0, <1>1 DEF IInv
<1>4. NobodyDied'
  BY <1>0, <1>2, <1>3 DEF FInv, NobodyDied
<1>5. CASE overlapped
  BY <1>0, <1>4, <1>5, OverlappedStep, Zenon DEF FInv
<1>6. CASE ~overlapped
  <2>1. PICK r : r = proc[p]
    OBVIOUS
  <2>2. r \in RunType /\ RunFields(r)
    BY <1>0, <2>1, RunningFields
  <2>3. /\ r.pc \in 1..Len(Body(r.kind)) /\ r.kind \in Kinds /\ Step(p) = Body(r.kind)[r.pc]
    BY <1>0, <2>1, <2>2, Bodies DEF Step, AtEnd, RunFields
  <2>4. PICK s : s = [r EXCEPT !.waiting = TRUE]
    OBVIOUS
  <2>5. /\ s.kind = r.kind /\ s.e = r.e /\ s.b = r.b /\ s.made = r.made /\ s.waiting
        /\ s.mem = r.mem /\ s.pc = r.pc /\ s.minted = r.minted /\ s.initial = r.initial
        /\ s.run = r.run
    BY <2>2, <2>4 DEF RunType
  <2>6. proc' = [proc EXCEPT ![p] = s]
    BY <1>0, <2>1, <2>4 DEF IInv
  <2>7. /\ \A i \in DOMAIN mempool : mempool[i].by = p
        /\ AloneOK(r, chain, file, reverted, world.arrayFile)
        /\ OwnMint /\ DirectoryKnown /\ AllKept
        /\ \A q \in Proc : Running(q) => q = p
    BY <1>0, <1>6, <2>1, AloneWith
  <2>8. r.kind \in V2Kinds /\ r.pc = 1 => r.mem.directory = 0
    BY <1>0, <2>1, <2>3, MiningV2Body
  <2>9. AloneOK(s, chain', file', reverted', world.arrayFile)
    BY <1>0, <2>5, <2>7, <2>8 DEF AloneOK
  <2>10. \A i \in DOMAIN mempool' : mempool'[i].by = p
    BY <1>2, <1>3, <2>7
  <2>11. OwnMint'
    <3>1. tx.call = "bootstrapMarket" => tx.amount = 1
      <4>1. tx.call = "bootstrapMarket" => r.kind = "mint_xyt_bootstrap_market" /\ r.pc = 3
        BY <1>2, <2>3, WhereCalls
      <4> QED BY <1>2, <2>1, <2>7, <4>1 DEF AloneOK
    <3> QED BY <1>0, <1>3, <2>7, <3>1 DEF OwnMint
  <2>12. DirectoryKnown'
    <3>1. ~Lists(proc[p])
      BY <1>0, ListsOnlyWrites DEF Writes
    <3> QED BY <1>0, <2>7, <3>1, DirectoryStays
  <2>13. AllKept'
    BY <1>0, <2>7, KeptStays
  <2> QED BY <1>0, <1>4, <1>6, <2>6, <2>9, <2>10, <2>11, <2>12, <2>13, AloneStep
<1> QED BY <1>5, <1>6

LEMMA SkipAlone ==
    ASSUME IInv, FInv, NEW p \in Proc, SkipDirectory(p) PROVE FInv'
<1>0. /\ Running(p) /\ ~AtEnd(p) /\ Step(p) = "deployDirectory" /\ ~proc[p].waiting
      /\ proc' = [proc EXCEPT ![p].pc = @ + 2]
      /\ UNCHANGED <<chain, mempool, file, world, crashes, reverted, overlapped, finished>>
  BY DEF SkipDirectory, Ready, Quiet
<1>1. NobodyDied'
  BY <1>0 DEF FInv, NobodyDied
<1>2. CASE overlapped
  BY <1>0, <1>1, <1>2, OverlappedStep, Zenon DEF FInv
<1>3. CASE ~overlapped
  <2>1. PICK r : r = proc[p]
    OBVIOUS
  <2>2. r \in RunType /\ RunFields(r)
    BY <1>0, <2>1, RunningFields
  <2>3. r.kind \in V2Kinds /\ r.pc = 1
    <3>1. r.pc \in 1..Len(Body(r.kind)) /\ Body(r.kind)[r.pc] = "deployDirectory"
      BY <1>0, <2>1, <2>2, Bodies DEF Step, AtEnd, RunFields
    <3> QED BY <2>2, <3>1, WhereSteps DEF RunFields
  <2>4. PICK s : s = [r EXCEPT !.pc = 3]
    OBVIOUS
  <2>5. s.kind = r.kind /\ s.mem = r.mem /\ s.pc = 3
    BY <2>2, <2>4 DEF RunType
  <2>6. proc' = [proc EXCEPT ![p] = s]
    BY <1>0, <2>1, <2>3, <2>4 DEF IInv
  <2>7. /\ \A i \in DOMAIN mempool : mempool[i].by = p
        /\ AloneOK(r, chain, file, reverted, world.arrayFile)
        /\ OwnMint /\ DirectoryKnown /\ AllKept
        /\ \A q \in Proc : Running(q) => q = p
    BY <1>0, <1>3, <2>1, AloneWith
  <2>8. AloneOK(s, chain', file', reverted', world.arrayFile)
    BY <1>0, <2>3, <2>5, <2>7 DEF AloneOK, V2Kinds
  <2>9. OwnMint'
    BY <1>0, <2>7 DEF OwnMint
  <2>10. DirectoryKnown'
    <3>1. ~Lists(proc[p])
      BY <1>0, ListsOnlyWrites
    <3> QED BY <1>0, <2>7, <3>1, DirectoryStays
  <2>11. AllKept'
    BY <1>0, <2>7, KeptStays
  <2> QED BY <1>0, <1>1, <1>3, <2>6, <2>7, <2>8, <2>9, <2>10, <2>11, AloneStep
<1> QED BY <1>2, <1>3

LEMMA ReadAlone ==
    ASSUME IInv, FInv, NEW p \in Proc, Read(p) PROVE FInv'
<1>0. /\ Running(p) /\ ~AtEnd(p) /\ Step(p) = "read" /\ ~proc[p].waiting
      /\ proc' = [proc EXCEPT ![p].pc = @ + 1,
           ![p].real = IF proc[p].kind = "deploy_new_yield" THEN proc[p].e \in chain.yields
                       ELSE <<proc[p].e, proc[p].b>> \in chain.markets]
      /\ UNCHANGED <<chain, mempool, file, world, crashes, reverted, overlapped, finished>>
  BY DEF Read, Ready, Quiet
<1>1. NobodyDied'
  BY <1>0 DEF FInv, NobodyDied
<1>2. CASE overlapped
  BY <1>0, <1>1, <1>2, OverlappedStep, Zenon DEF FInv
<1>3. CASE ~overlapped
  <2>1. PICK r : r = proc[p]
    OBVIOUS
  <2>2. r \in RunType /\ RunFields(r)
    BY <1>0, <2>1, RunningFields
  <2>3. r.kind \in {"deploy_new_yield", "deploy_new_market"} /\ r.pc = 2
    <3>1. r.pc \in 1..Len(Body(r.kind)) /\ Body(r.kind)[r.pc] = "read"
      BY <1>0, <2>1, <2>2, Bodies DEF Step, AtEnd, RunFields
    <3> QED BY <2>2, <3>1, WhereSteps DEF RunFields
  <2>4. PICK y : y = IF r.kind = "deploy_new_yield" THEN r.e \in chain.yields
                     ELSE <<r.e, r.b>> \in chain.markets
    OBVIOUS
  <2>5. PICK s : s = [[r EXCEPT !.pc = @ + 1] EXCEPT !.real = y]
    OBVIOUS
  <2>6. s.kind = r.kind /\ s.mem = r.mem /\ s.pc = 3
    BY <2>2, <2>3, <2>5 DEF RunType
  <2>7. proc' = [proc EXCEPT ![p] = s]
    <3>1. proc' = [proc EXCEPT ![p].pc = @ + 1, ![p].real = y]
      BY <1>0, <2>1, <2>4
    <3> QED BY <2>1, <2>5, <3>1 DEF IInv
  <2>8. /\ \A i \in DOMAIN mempool : mempool[i].by = p
        /\ AloneOK(r, chain, file, reverted, world.arrayFile)
        /\ OwnMint /\ DirectoryKnown /\ AllKept
        /\ \A q \in Proc : Running(q) => q = p
    BY <1>0, <1>3, <2>1, AloneWith
  <2>9. AloneOK(s, chain', file', reverted', world.arrayFile)
    BY <1>0, <2>3, <2>6, <2>8 DEF AloneOK, V2Kinds
  <2>10. OwnMint'
    BY <1>0, <2>8 DEF OwnMint
  <2>11. DirectoryKnown'
    <3>1. ~Lists(proc[p])
      BY <1>0, ListsOnlyWrites
    <3> QED BY <1>0, <2>8, <3>1, DirectoryStays
  <2>12. AllKept'
    BY <1>0, <2>8, KeptStays
  <2> QED BY <1>0, <1>1, <1>3, <2>7, <2>8, <2>9, <2>10, <2>11, <2>12, AloneStep
<1> QED BY <1>2, <1>3

LEMMA PollAlone ==
    ASSUME IInv, FInv, NEW p \in Proc, Poll(p) PROVE FInv'
<1>0. /\ Running(p) /\ ~AtEnd(p) /\ Step(p) = "poll" /\ ~proc[p].waiting
      /\ chain.xyt[proc[p].e] # proc[p].initial
      /\ proc' = [proc EXCEPT ![p].minted = chain.xyt[proc[p].e] - proc[p].initial, ![p].pc = @ + 1]
      /\ UNCHANGED <<chain, mempool, file, world, crashes, reverted, overlapped, finished>>
  BY DEF Poll, Ready, Quiet
<1>1. NobodyDied'
  BY <1>0 DEF FInv, NobodyDied
<1>2. CASE overlapped
  BY <1>0, <1>1, <1>2, OverlappedStep, Zenon DEF FInv
<1>3. CASE ~overlapped
  <2>1. PICK r : r = proc[p]
    OBVIOUS
  <2>2. r \in RunType /\ RunFields(r)
    BY <1>0, <2>1, RunningFields
  <2>3. r.kind = "mint_xyt_bootstrap_market" /\ r.pc = 2
    <3>1. r.pc \in 1..Len(Body(r.kind)) /\ Body(r.kind)[r.pc] = "poll"
      BY <1>0, <2>1, <2>2, Bodies DEF Step, AtEnd, RunFields
    <3> QED BY <2>2, <3>1, WhereSteps DEF RunFields
  <2>4. PICK n : n = chain.xyt[r.e] - r.initial
    OBVIOUS
  <2>5. PICK s : s = [[r EXCEPT !.minted = n] EXCEPT !.pc = @ + 1]
    OBVIOUS
  <2>6. s.kind = r.kind /\ s.mem = r.mem /\ s.pc = 3 /\ s.minted = n
    BY <2>2, <2>3, <2>5 DEF RunType
  <2>7. proc' = [proc EXCEPT ![p] = s]
    <3>1. proc' = [proc EXCEPT ![p].minted = n, ![p].pc = @ + 1]
      BY <1>0, <2>1, <2>4
    <3> QED BY <2>1, <2>5, <3>1 DEF IInv
  <2>8. /\ \A i \in DOMAIN mempool : mempool[i].by = p
        /\ AloneOK(r, chain, file, reverted, world.arrayFile)
        /\ OwnMint /\ DirectoryKnown /\ AllKept
        /\ \A q \in Proc : Running(q) => q = p
    BY <1>0, <1>3, <2>1, AloneWith
  <2>9. n = 1
    <3>1. r.initial \in Int
      BY <2>2 DEF RunFields
    <3>2. chain.xyt[r.e] = r.initial + 1
      BY <1>0, <2>1, <2>3, <2>8 DEF AloneOK
    <3> QED BY <2>4, <3>1, <3>2
  <2>10. AloneOK(s, chain', file', reverted', world.arrayFile)
    BY <1>0, <2>3, <2>6, <2>8, <2>9 DEF AloneOK, V2Kinds
  <2>11. OwnMint'
    BY <1>0, <2>8 DEF OwnMint
  <2>12. DirectoryKnown'
    <3>1. ~Lists(proc[p])
      BY <1>0, ListsOnlyWrites
    <3> QED BY <1>0, <2>8, <3>1, DirectoryStays
  <2>13. AllKept'
    BY <1>0, <2>8, KeptStays
  <2> QED BY <1>0, <1>1, <1>3, <2>7, <2>8, <2>10, <2>11, <2>12, <2>13, AloneStep
<1> QED BY <1>2, <1>3

LEMMA FailAlone ==
    ASSUME IInv, FInv, NEW p \in Proc, Fail(p) PROVE FInv'
<1>0. /\ Running(p)
      /\ ~Needs(p) \/ Step(p) \notin Writes
      /\ proc' = [proc EXCEPT ![p] = Idle]
      /\ UNCHANGED <<chain, mempool, file, world, crashes, reverted, overlapped, finished>>
  BY DEF Fail, Ready, Quiet
<1>00. Running(p)
  BY DEF Fail, Ready
<1>1. NobodyDied'
  BY <1>0 DEF FInv, NobodyDied
<1>2. CASE overlapped
  BY <1>0, <1>1, <1>2, OverlappedStep, Zenon DEF FInv
<1>3. CASE ~overlapped
  <2>1. /\ OwnMint /\ DirectoryKnown /\ AllKept
        /\ \A q \in Proc : Running(q) => q = p
    BY <1>00, <1>3, AloneWith
  <2>2. OwnMint'
    BY <1>0, <2>1 DEF OwnMint
  <2>3. DirectoryKnown'
    <3>1. ~Lists(proc[p])
      BY <1>0, <1>00, ListsOnlyWrites DEF Writes
    <3> QED BY <1>0, <2>1, <3>1, DirectoryStays
  <2>4. AllKept'
    BY <1>0, <2>1, KeptStays
  <2> QED BY <1>0, <1>00, <1>1, <1>3, <2>2, <2>3, <2>4, AloneStep
<1> QED BY <1>2, <1>3

LEMMA FinishAlone ==
    ASSUME IInv, FInv, NEW p \in Proc, Finish(p) PROVE FInv'
<1>0. /\ Running(p) /\ AtEnd(p)
      /\ finished' = (IF overlapped THEN {} ELSE finished \cup {Result(p)})
      /\ proc' = [proc EXCEPT ![p] = Idle]
      /\ UNCHANGED <<chain, mempool, file, world, crashes, reverted, overlapped>>
  BY DEF Finish, Quiet
<1>1. NobodyDied'
  BY <1>0 DEF FInv, NobodyDied
<1>2. CASE overlapped
  BY <1>0, <1>1, <1>2, OverlappedStep, Zenon DEF FInv
<1>3. CASE ~overlapped
  <2>1. PICK r : r = proc[p]
    OBVIOUS
  <2>2. RunFields(r)
    BY <1>0, <2>1, RunningFields
  <2>3. /\ AloneOK(r, chain, file, reverted, world.arrayFile)
        /\ OwnMint /\ DirectoryKnown /\ AllKept
        /\ \A q \in Proc : Running(q) => q = p
    BY <1>0, <1>3, <2>1, AloneWith
  <2>4. OwnMint'
    BY <1>0, <2>3 DEF OwnMint
  <2>5. DirectoryKnown'
    <3>1. ~Lists(proc[p])
      BY <1>0, ListsOnlyWrites
    <3> QED BY <1>0, <2>3, <3>1, DirectoryStays
  <2>6. PICK x : x = Result(p)
    OBVIOUS
  <2>7. x.kind = r.kind /\ x.e = r.e /\ x.b = r.b /\ x.run = r.run /\ x.made = r.made
    BY <2>1, <2>6 DEF Result
  <2>8. KeptInFile(file, reverted, x)
    <3>1. r.pc > Len(Body(r.kind)) /\ r.pc \in Int /\ r.made \in Int
      BY <1>0, <2>1, <2>2 DEF AtEnd, RunFields
    <3>2. r.kind = "deploy_new_yield" => r.e \in YieldEntries(file)
      BY <2>3, <3>1, YieldBody DEF AloneOK
    <3>3. r.kind = "deploy_new_market" =>
            <<r.e, r.b>> \in file.markets \/ OwnMarketFailed(reverted, r.run, <<r.e, r.b>>)
      BY <2>3, <3>1, MarketBody DEF AloneOK
    <3>4. r.kind = "deploy_liquitiy_mining" => \E m \in file.mining : m[1] = r.b /\ m[2] >= r.made
      <4>1. r.kind = "deploy_liquitiy_mining" => <<r.b, r.made>> \in file.mining
        BY <2>3, <3>1, MiningBody DEF AloneOK
      <4> QED BY <3>1, <4>1
    <3>5. r.kind \in V2Kinds => <<r.e, r.made>> \in file.miningV2
      BY <2>3, <3>1, MiningV2Body DEF AloneOK
    <3> QED BY <2>7, <3>1, <3>2, <3>3, <3>4, <3>5, Zenon DEF KeptInFile
  <2>9. AllKept'
    <3>1. finished' = finished \cup {x} /\ file' = file /\ reverted' = reverted
      BY <1>0, <1>3, <2>6
    <3>2. \A y \in finished \cup {x} : KeptInFile(file, reverted, y)
      BY <2>3, <2>8 DEF AllKept
    <3> QED BY <3>1, <3>2, Zenon DEF AllKept
  <2> QED BY <1>0, <1>1, <1>3, <2>4, <2>5, <2>9, AloneStep
<1> QED BY <1>2, <1>3

-----------------------------------------------------------------------------
(* What a script puts in its copy before it writes it.                     *)
FileGains(m, n, r) ==
    \/ /\ r.kind = "deploy_new_yield" /\ r.pc = 3
       /\ YieldEntries(m) \subseteq YieldEntries(n) /\ r.e \in YieldEntries(n)
       /\ n.markets = m.markets /\ n.mining = m.mining /\ n.miningV2 = m.miningV2
    \/ /\ r.kind = "deploy_new_market" /\ r.pc = 3
       /\ YieldEntries(n) = YieldEntries(m)
       /\ n.markets = (IF r.real THEN m.markets \cup {<<r.e, r.b>>} ELSE m.markets \ {<<r.e, r.b>>})
       /\ n.mining = m.mining /\ n.miningV2 = m.miningV2
    \/ /\ r.kind = "deploy_liquitiy_mining" /\ r.pc = 3
       /\ YieldEntries(n) = YieldEntries(m) /\ n.markets = m.markets
       /\ n.mining = {x \in m.mining : x[1] # r.b} \cup {<<r.b, r.made>>}
       /\ n.miningV2 = m.miningV2
    \/ /\ r.kind \in V2Kinds /\ r.pc = 2
       /\ YieldEntries(n) = YieldEntries(m) /\ n.markets = m.markets
       /\ n.mining = m.mining /\ n.miningV2 = m.miningV2
    \/ /\ r.kind \in V2Kinds /\ r.pc = 4
       /\ YieldEntries(n) = YieldEntries(m) /\ n.markets = m.markets
       /\ n.mining = m.mining /\ n.miningV2 = m.miningV2 \cup {<<r.e, r.made>>}

LEMMA NotedFields ==
    ASSUME IInv, NEW p \in Proc, Running(p), ~AtEnd(p), Step(p) \in Writes,
           NEW r, r = proc[p], NEW m, m = r.mem, NEW n, n = Noted(p)
    PROVE  /\ FileGains(m, n, r)
           /\ n.directory = IF r.kind \in V2Kinds /\ r.pc = 2 THEN r.made ELSE m.directory
<1>1. RunFields(r) /\ m \in MemType /\ MemFields(m) /\ r.mem \in MemType
  BY RunningFields, MemHasFields DEF RunFields
<1>2. r.pc \in 1..Len(Body(r.kind)) /\ r.kind \in Kinds /\ Step(p) = Body(r.kind)[r.pc]
  BY <1>1, Bodies DEF Step, AtEnd, RunFields
<1>3. CASE r.kind = "deploy_new_yield" /\ r.pc = 3
  <2>1. Step(p) = "save"
    BY <1>2, <1>3, YieldBody
  <2>2. n = WithYield(m, r.e, r.real)
    BY <1>3, <2>1 DEF Noted, V2Kinds
  <2>3. PICK v, z : v = (IF r.real THEN m.yields \cup {r.e} ELSE m.yields)
                    /\ z = (IF r.real THEN m.zeroYields ELSE m.zeroYields \cup {r.e})
    OBVIOUS
  <2>4. CASE r.e \in YieldEntries(m)
    <3>1. n = m
      BY <2>2, <2>4 DEF WithYield
    <3> QED BY <1>3, <2>4, <3>1 DEF FileGains, V2Kinds
  <2>5. CASE r.e \notin YieldEntries(m)
    <3>1. /\ n.yields = v /\ n.zeroYields = z
          /\ n.markets = m.markets /\ n.mining = m.mining
          /\ n.miningV2 = m.miningV2 /\ n.directory = m.directory
      BY <1>1, <2>2, <2>3, <2>5 DEF WithYield, MemType
    <3>2. YieldEntries(n) = YieldEntries(m) \cup {r.e}
      BY <2>3, <3>1 DEF YieldEntries
    <3> QED BY <1>3, <3>1, <3>2 DEF FileGains, V2Kinds
  <2> QED BY <2>4, <2>5
<1>4. CASE r.kind = "deploy_new_market" /\ r.pc = 3
  <2>1. Step(p) = "save"
    BY <1>2, <1>4, MarketBody
  <2>2. PICK v, z :
          /\ v = (IF r.real THEN m.markets \cup {<<r.e, r.b>>} ELSE m.markets \ {<<r.e, r.b>>})
          /\ z = (IF r.real THEN m.zeroMarkets \ {<<r.e, r.b>>} ELSE m.zeroMarkets \cup {<<r.e, r.b>>})
    OBVIOUS
  <2>3. n = [m EXCEPT !.markets = v, !.zeroMarkets = z]
    <3>1. n = WithMarket(m, <<r.e, r.b>>, r.real)
      BY <1>4, <2>1 DEF Noted, V2Kinds
    <3>2. [m EXCEPT !.markets = v].zeroMarkets = m.zeroMarkets
      BY <1>1 DEF MemType
    <3> QED BY <2>2, <3>1, <3>2 DEF WithMarket
  <2>4. /\ n.yields = m.yields /\ n.zeroYields = m.zeroYields /\ n.markets = v
        /\ n.mining = m.mining /\ n.miningV2 = m.miningV2 /\ n.directory = m.directory
    BY <1>1, <2>3 DEF MemType
  <2>5. YieldEntries(n) = YieldEntries(m)
    BY <2>4 DEF YieldEntries
  <2> QED BY <1>4, <2>2, <2>4, <2>5 DEF FileGains, V2Kinds
<1>5. CASE r.kind = "deploy_liquitiy_mining" /\ r.pc = 3
  <2>1. Step(p) = "save"
    BY <1>2, <1>5, MiningBody
  <2>2. PICK v : v = {x \in m.mining : x[1] # r.b} \cup {<<r.b, r.made>>}
    OBVIOUS
  <2>3. n = [m EXCEPT !.mining = v]
    BY <1>5, <2>1, <2>2 DEF Noted, V2Kinds
  <2>4. /\ n.yields = m.yields /\ n.zeroYields = m.zeroYields /\ n.markets = m.markets
        /\ n.mining = v /\ n.miningV2 = m.miningV2 /\ n.directory = m.directory
    BY <1>1, <2>3 DEF MemType
  <2>5. YieldEntries(n) = YieldEntries(m)
    BY <2>4 DEF YieldEntries
  <2> QED BY <1>5, <2>2, <2>4, <2>5 DEF FileGains, V2Kinds
<1>6. CASE r.kind \in V2Kinds /\ r.pc = 2
  <2>1. Step(p) = "saveDirectory"
    BY <1>2, <1>6, MiningV2Body
  <2>2. n = [m EXCEPT !.directory = r.made]
    BY <1>6, <2>1 DEF Noted, V2Kinds
  <2>3. /\ n.yields = m.yields /\ n.zeroYields = m.zeroYields /\ n.markets = m.markets
        /\ n.mining = m.mining /\ n.miningV2 = m.miningV2 /\ n.directory = r.made
    BY <1>1, <2>2 DEF MemType
  <2>4. YieldEntries(n) = YieldEntries(m)
    BY <2>3 DEF YieldEntries
  <2> QED BY <1>6, <2>3, <2>4 DEF FileGains
<1>7. CASE r.kind \in V2Kinds /\ r.pc = 4
  <2>1. Step(p) = "save"
    BY <1>2, <1>7, MiningV2Body
  <2>2. /\ r.kind # "deploy_new_yield" /\ r.kind # "deploy_new_market"
        /\ r.kind # "deploy_liquitiy_mining" /\ Step(p) # "saveDirectory"
    BY <1>7, <2>1 DEF V2Kinds
  <2>3. n = [m EXCEPT !.miningV2 = @ \cup {<<r.e, r.made>>}]
    BY <1>7, <2>1, <2>2 DEF Noted
  <2>4. /\ n.yields = m.yields /\ n.zeroYields = m.zeroYields /\ n.markets = m.markets
        /\ n.mining = m.mining /\ n.miningV2 = m.miningV2 \cup {<<r.e, r.made>>}
        /\ n.directory = m.directory
    BY <1>1, <2>3 DEF MemType
  <2>5. YieldEntries(n) = YieldEntries(m)
    BY <2>4 DEF YieldEntries
  <2> QED BY <1>7, <2>4, <2>5 DEF FileGains
<1> QED BY <1>2, <1>3, <1>4, <1>5, <1>6, <1>7, WhereSteps DEF Writes

LEMMA WrittenFields ==
    ASSUME NEW m \in MemType
    PROVE  /\ SameEntries(m, Written(m), world.arrayFile)
           /\ ~world.arrayFile => Written(m).directory = m.directory
<1>1. CASE world.arrayFile
  <2>1. Written(m) = [m EXCEPT !.directory = 0]
    BY <1>1 DEF Written
  <2> QED BY <1>1, <2>1 DEF SameEntries, MemType
<1>2. CASE ~world.arrayFile
  BY <1>2 DEF Written, SameEntries
<1> QED BY <1>1, <1>2

(* The slot of a base token only ever moves to a later contract.           *)
LEMMA SlotMovesOn ==
    ASSUME NEW c \in ChainType, NEW v \in SUBSET (Base \X Int), NEW b, NEW made,
           made = Len(c.mining), \A x \in v : x[2] \in DOMAIN c.mining,
           NEW base, NEW old \in Int, \E x \in v : x[1] = base /\ x[2] >= old,
           NEW w, \A y \in v : y[1] # b => y \in w, <<b, made>> \in w
    PROVE  \E x \in w : x[1] = base /\ x[2] >= old
<1>1. PICK x \in v : x[1] = base /\ x[2] >= old
  OBVIOUS
<1>2. CASE base # b
  BY <1>1, <1>2
<1>3. CASE base = b
  <2>1. made \in Int /\ x[2] \in Int /\ x[2] <= made
    BY <1>1, ChainFields
  <2>2. made >= old
    BY <1>1, <2>1
  <2>3. <<b, made>>[1] = base /\ <<b, made>>[2] >= old
    BY <1>3, <2>2
  <2> QED BY <2>3
<1> QED BY <1>2, <1>3

LEMMA SaveAlone ==
    ASSUME IInv, FInv, NEW p \in Proc, Save(p) PROVE FInv'
<1>0. /\ Running(p) /\ ~proc[p].waiting /\ ~AtEnd(p) /\ Step(p) \in Writes /\ Needs(p)
      /\ file' = Written(Noted(p))
      /\ proc' = [proc EXCEPT ![p].mem = Noted(p), ![p].pc = @ + 1]
      /\ UNCHANGED <<chain, mempool, world, crashes, reverted, overlapped, finished>>
  BY DEF Save, Ready, Quiet
<1>1. NobodyDied'
  BY <1>0 DEF FInv, NobodyDied
<1>2. CASE overlapped
  BY <1>0, <1>1, <1>2, OverlappedStep, Zenon DEF FInv
<1>3. CASE ~overlapped
  <2>1. PICK r : r = proc[p]
    OBVIOUS
  <2>2. PICK n : n = Noted(p)
    OBVIOUS
  <2>3. PICK m : m = r.mem
    OBVIOUS
  <2>4. r \in RunType /\ RunFields(r) /\ n \in MemType
    BY <1>0, <2>1, <2>2, RunningFields, NotedIsClosed
  <2>5. PICK s : s = [[r EXCEPT !.mem = n] EXCEPT !.pc = @ + 1]
    OBVIOUS
  <2>6. /\ s.kind = r.kind /\ s.e = r.e /\ s.b = r.b /\ s.made = r.made /\ s.pc = r.pc + 1
        /\ s.mem = n /\ s.waiting = r.waiting /\ s.initial = r.initial /\ s.minted = r.minted
        /\ s.run = r.run
    BY <2>4, <2>5 DEF RunType
  <2>7. proc' = [proc EXCEPT ![p] = s]
    BY <1>0, <2>1, <2>2, <2>5 DEF IInv
  <2>8. /\ \A i \in DOMAIN mempool : mempool[i].by = p
        /\ AloneOK(r, chain, file, reverted, world.arrayFile)
        /\ OwnMint /\ DirectoryKnown /\ AllKept
        /\ \A q \in Proc : Running(q) => q = p
    BY <1>0, <1>3, <2>1, AloneWith
  <2>9. SameEntries(m, file, world.arrayFile)
    BY <2>3, <2>8 DEF AloneOK
  <2>10. /\ SameEntries(n, file', world.arrayFile)
    BY <1>0, <2>2, <2>4, WrittenFields
(* What the file gains, by the step of the script. *)
  <2>11. FileGains(file, file', r)
    <3>1. /\ n.yields = file'.yields /\ n.zeroYields = file'.zeroYields
          /\ n.markets = file'.markets /\ n.zeroMarkets = file'.zeroMarkets
          /\ n.mining = file'.mining /\ n.miningV2 = file'.miningV2
      BY <2>10 DEF SameEntries
    <3>2. /\ m.yields = file.yields /\ m.zeroYields = file.zeroYields
          /\ m.markets = file.markets /\ m.zeroMarkets = file.zeroMarkets
          /\ m.mining = file.mining /\ m.miningV2 = file.miningV2
      BY <2>9 DEF SameEntries
    <3>3. FileGains(m, n, r)
      BY <1>0, <2>1, <2>2, <2>3, NotedFields
    <3>4. YieldEntries(m) = YieldEntries(file) /\ YieldEntries(n) = YieldEntries(file')
      BY <3>1, <3>2 DEF YieldEntries
    <3> QED BY <3>1, <3>2, <3>3, <3>4 DEF FileGains
  <2>12. ~world.arrayFile =>
           file'.directory = IF r.kind \in V2Kinds /\ r.pc = 2 THEN r.made ELSE file.directory
    <3>1. r.kind \in V2Kinds /\ r.pc = 2 => n.directory = r.made
      BY <1>0, <2>1, <2>2, <2>3, NotedFields DEF V2Kinds
    <3>2. ~(r.kind \in V2Kinds /\ r.pc = 2) => n.directory = m.directory
      BY <1>0, <2>1, <2>2, <2>3, NotedFields DEF V2Kinds
    <3> QED BY <2>9, <2>10, <3>1, <3>2 DEF SameEntries
  <2>13. r.kind = "deploy_liquitiy_mining" /\ r.pc = 3 => r.made = Len(chain.mining)
    BY <2>8 DEF AloneOK
  <2>18. r.kind = "deploy_new_market" =>
           <<r.e, r.b>> \in file'.markets \/ OwnMarketFailed(reverted, r.run, <<r.e, r.b>>)
    <3> SUFFICES ASSUME r.kind = "deploy_new_market", ~r.real
                 PROVE  OwnMarketFailed(reverted, r.run, <<r.e, r.b>>)
      BY <2>11 DEF FileGains, V2Kinds
    <3>1. MarketRunOK(r, chain, reverted) /\ r.pc = 3
      BY <1>0, <2>1, <2>11, RunningFields DEF RunOK, FileGains, V2Kinds
    <3> QED BY <3>1 DEF MarketRunOK
  <2>19. SameEntries(s.mem, file', world.arrayFile)
    BY <2>6, <2>10
  <2>14. AloneOK(s, chain', file', reverted', world.arrayFile)
    <3>1. CASE s.kind = "deploy_new_yield"
      BY <2>6, <2>11, <2>19, <3>1 DEF AloneOK, V2Kinds, FileGains
    <3>2. CASE s.kind = "deploy_new_market"
      BY <1>0, <2>6, <2>18, <2>19, <3>2 DEF AloneOK, V2Kinds
    <3>3. CASE s.kind = "deploy_liquitiy_mining"
      BY <1>0, <2>6, <2>11, <2>13, <2>19, <3>3 DEF AloneOK, V2Kinds, FileGains
    <3>4. CASE s.kind \in V2Kinds
      BY <1>0, <2>6, <2>8, <2>11, <2>19, <3>4 DEF AloneOK, V2Kinds, FileGains
    <3>5. s.kind \notin {"mint_xyt_bootstrap_market"}
      BY <2>6, <2>11 DEF FileGains, V2Kinds
    <3> QED BY <2>4, <2>6, <3>1, <3>2, <3>3, <3>4, <3>5 DEF RunFields, Kinds, V2Kinds
  <2>15. OwnMint'
    BY <1>0, <2>8 DEF OwnMint
  <2>16. DirectoryKnown'
    <3>1. CASE Lists(r)
      <4>1. r.made # 0
        <5>1. r.made \in DOMAIN chain.directories
          BY <1>0, <2>1, <3>1, RunningFields DEF RunOK, MiningV2RunOK, Lists
        <5> QED BY <5>1, ChainFields DEF IInv
      <4> QED BY <1>0, <2>8, <2>12, <3>1, <4>1 DEF DirectoryKnown, Lists
    <3>2. CASE ~Lists(r)
      <4>1. \A q \in Proc : ~(Running(q) /\ Lists(proc[q]))
        BY <2>1, <2>8, <3>2
      <4> QED BY <1>0, <2>8, <2>12, <3>2, <4>1 DEF DirectoryKnown, Lists
    <3> QED BY <3>1, <3>2
  <2>17. AllKept'
    <3> SUFFICES ASSUME NEW x \in finished, KeptInFile(file, reverted, x)
                 PROVE  KeptInFile(file', reverted, x)
      BY <1>0, <2>8 DEF AllKept
    <3>3. r.kind = "deploy_new_market" /\ ~r.real => <<r.e, r.b>> \notin file.markets
      <4> SUFFICES ASSUME r.kind = "deploy_new_market", ~r.real PROVE <<r.e, r.b>> \notin file.markets
        OBVIOUS
      <4>1. MarketRunOK(r, chain, reverted) /\ r.pc = 3
        BY <1>0, <2>1, <2>11, RunningFields DEF RunOK, FileGains, V2Kinds
      <4>2. r.mem.markets = file.markets
        BY <2>3, <2>9 DEF SameEntries
      <4> QED BY <4>1, <4>2 DEF MarketRunOK
    <3>1. /\ YieldEntries(file) \subseteq YieldEntries(file') /\ file.markets \subseteq file'.markets
          /\ file.miningV2 \subseteq file'.miningV2
      BY <2>11, <3>3 DEF FileGains
    <3>2. x.kind = "deploy_liquitiy_mining" =>
            \E y \in file'.mining : y[1] = x.b /\ y[2] >= x.made
      <4>1. CASE r.kind = "deploy_liquitiy_mining" /\ r.pc = 3
        <5> SUFFICES ASSUME x.kind = "deploy_liquitiy_mining"
                     PROVE  \E y \in file'.mining : y[1] = x.b /\ y[2] >= x.made
          OBVIOUS
        <5>1. file.mining \in SUBSET (Base \X Int) /\ chain \in ChainType
          BY MemHasFields DEF IInv, MemFields
        <5>2. \A y \in file.mining : y[2] \in DOMAIN chain.mining
          BY Zenon DEF IInv, Closed, MiningClosed, Allocated
        <5>3. x.made \in Int /\ \E y \in file.mining : y[1] = x.b /\ y[2] >= x.made
          BY DEF KeptInFile
        <5>4. file'.mining = {y \in file.mining : y[1] # r.b} \cup {<<r.b, r.made>>}
          BY <2>11, <4>1 DEF V2Kinds, FileGains
        <5>5. r.made = Len(chain.mining)
          BY <2>13, <4>1
        <5>6. PICK v, w, base, old, b, made :
                /\ v = file.mining /\ w = file'.mining
                /\ base = x.b /\ old = x.made /\ b = r.b /\ made = r.made
          OBVIOUS
        <5>7. v \in SUBSET (Base \X Int)
          BY <5>1, <5>6
        <5>8. \A y \in v : y[2] \in DOMAIN chain.mining
          BY <5>2, <5>6
        <5>9. old \in Int
          BY <5>3, <5>6
        <5>10. \E y \in v : y[1] = base /\ y[2] >= old
          BY <5>3, <5>6
        <5>11. chain \in ChainType
          BY <5>1
        <5>12. made = Len(chain.mining)
          BY <5>5, <5>6
        <5>13. \A y \in v : y[1] # b => y \in w
          BY <5>4, <5>6
        <5>14. <<b, made>> \in w
          BY <5>4, <5>6
        <5>15. \E y \in w : y[1] = base /\ y[2] >= old
          BY ONLY <5>7, <5>8, <5>9, <5>10, <5>11, <5>12, <5>13, <5>14, SlotMovesOn
        <5> QED BY <5>6, <5>15
      <4>2. CASE ~(r.kind = "deploy_liquitiy_mining" /\ r.pc = 3)
        <5>1. file'.mining = file.mining
          BY <2>11, <4>2 DEF FileGains
        <5> QED BY <5>1 DEF KeptInFile
      <4> QED BY <4>1, <4>2
    <3> QED BY <3>1, <3>2 DEF KeptInFile
  <2> QED BY <1>0, <1>1, <1>3, <2>7, <2>8, <2>14, <2>15, <2>16, <2>17, AloneStep
<1> QED BY <1>2, <1>3

LEMMA CrashAlone ==
    ASSUME IInv, FInv, NEW p \in Proc, Crash(p) PROVE FInv'
<1>0. /\ Running(p) /\ crashes' = crashes + 1
      /\ proc' = [proc EXCEPT ![p] = Idle]
      /\ mempool' = [i \in DOMAIN mempool |->
           IF mempool[i].by = p THEN [mempool[i] EXCEPT !.by = Nobody] ELSE mempool[i]]
      /\ UNCHANGED <<chain, file, world, reverted, overlapped, finished>>
  BY DEF Crash
<1>1. crashes' \in Nat /\ crashes' # 0
  BY <1>0 DEF FInv
<1>2. NobodyDied'
  BY <1>1 DEF NobodyDied
<1>3. CASE overlapped
  BY <1>0, <1>1, <1>2, <1>3, OverlappedStep, Zenon DEF FInv
<1>4. CASE ~overlapped
  <2>1. /\ OwnMint /\ AllKept
        /\ \A q \in Proc : Running(q) => q = p
    BY <1>0, <1>4, AloneWith
  <2>2. OnlyOne' /\ OwnCalls' /\ RunsAlone'
    BY <1>0, <2>1, AloneMoves
  <2>3. OwnMint'
    <3>1. ASSUME NEW i \in DOMAIN mempool', mempool'[i].call = "bootstrapMarket"
          PROVE  mempool'[i].amount = 1
      <4>1. i \in DOMAIN mempool /\ mempool[i] \in TxType
        BY <1>0, <3>1 DEF IInv
      <4>2. mempool'[i].call = mempool[i].call /\ mempool'[i].amount = mempool[i].amount
        <5>1. [mempool[i] EXCEPT !.by = Nobody].call = mempool[i].call
          BY <4>1 DEF TxType
        <5>2. [mempool[i] EXCEPT !.by = Nobody].amount = mempool[i].amount
          BY <4>1 DEF TxType
        <5> QED BY <1>0, <4>1, <5>1, <5>2
      <4> QED BY <2>1, <3>1, <4>1, <4>2 DEF OwnMint
    <3> QED BY <1>0, <2>1, <3>1 DEF OwnMint
  <2>4. DirectoryKnown'
    BY <1>1 DEF DirectoryKnown
  <2>5. AllKept'
    BY <1>0, <2>1, KeptStays
  <2>6. overlapped' \in BOOLEAN /\ ~overlapped'
    BY <1>0, <1>4 DEF FInv
  <2> QED BY <1>1, <1>2, <2>2, <2>3, <2>4, <2>5, <2>6, Zenon DEF FInv, Undisturbed
<1> QED BY <1>3, <1>4

(* What others do to the chain does not touch what the runs rely on.       *)
LEMMA OthersAlone ==
    ASSUME IInv, FInv, UNCHANGED <<mempool, file, world, proc, crashes, reverted, overlapped, finished>>,
           chain'.pools = chain.pools, chain'.mining = chain.mining,
           chain'.xyt = chain.xyt, chain'.directories = chain.directories
    PROVE  FInv'
<1>1. NobodyDied'
  BY DEF FInv, NobodyDied
<1>2. CASE overlapped
  BY <1>1, <1>2, OverlappedStep, Zenon DEF FInv
<1>3. CASE ~overlapped
  <2>1. OnlyOne /\ OwnCalls /\ RunsAlone /\ OwnMint /\ DirectoryKnown /\ AllKept
    BY <1>3 DEF FInv, Undisturbed
  <2>3. OnlyOne' /\ OwnCalls'
    BY <2>1 DEF OnlyOne, OwnCalls, Running
  <2>4. RunsAlone'
    BY <2>1 DEF RunsAlone, Running, AloneOK
  <2>5. OwnMint'
    BY <2>1 DEF OwnMint
  <2>8. AllKept'
    BY <2>1, KeptStays
  <2>6. DirectoryKnown'
    BY <2>1 DEF DirectoryKnown, Running
  <2>7. crashes' \in Nat /\ overlapped' \in BOOLEAN /\ ~overlapped'
    BY <1>3 DEF FInv
  <2> QED BY <1>1, <2>3, <2>4, <2>5, <2>6, <2>7, <2>8, Zenon DEF FInv, Undisturbed
<1> QED BY <1>2, <1>3

LEMMA OtherAlone ==
    ASSUME IInv, FInv, NEW e \in Expiry, SomebodyCreatesYield(e) PROVE FInv'
<1>1. /\ chain' = [chain EXCEPT !.yields = @ \cup {e}]
      /\ UNCHANGED <<mempool, file, world, proc, crashes, reverted, overlapped, finished>>
  BY DEF SomebodyCreatesYield, Quiet
<1>2. /\ chain'.pools = chain.pools /\ chain'.mining = chain.mining
      /\ chain'.xyt = chain.xyt /\ chain'.directories = chain.directories
  BY <1>1 DEF IInv, ChainType
<1> QED BY <1>1, <1>2, OthersAlone

LEMMA ChangeAlone == ASSUME IInv, FInv, Change PROVE FInv'
<1>1. Changed /\ UNCHANGED <<mempool, file, world, proc, crashes, reverted, overlapped, finished>>
  BY DEF Change
<1> QED BY <1>1, ChangeGrows, OthersAlone

(* What mining a transaction does to the pools, the deployments counted    *)
(* and the XYT.                                                            *)
LEMMA SameLength ==
    ASSUME NEW T, NEW s \in Seq(T), NEW i, NEW v
    PROVE  Len([s EXCEPT ![i] = v]) = Len(s)
<1>1. CASE i \in 1..Len(s)
  <2>1. s \in Seq(T \cup {v})
    OBVIOUS
  <2> QED BY <1>1, <2>1, ExceptSeq
<1>2. CASE i \notin DOMAIN s
  <2>1. [s EXCEPT ![i] = v] = s
    BY <1>2
  <2> QED BY <2>1
<1> QED BY <1>1, <1>2

LEMMA MinedFields ==
    ASSUME IInv, NEW tx \in TxType, NEW d,
           d = IF Succeeds(chain, tx) THEN Effect(chain, tx) ELSE chain
    PROVE  /\ tx.call # "bootstrapMarket" => d.pools = chain.pools
           /\ tx.call = "bootstrapMarket" =>
                d.pools \subseteq chain.pools \cup {<<tx.e, tx.b, tx.amount>>}
           /\ tx.call # "deployMining" => Len(d.mining) = Len(chain.mining)
           /\ tx.call # "deployDirectory" => Len(d.directories) = Len(chain.directories)
           /\ tx.call = "deployDirectory" =>
                Succeeds(chain, tx) /\ Len(d.directories) = Len(chain.directories) + 1
           /\ tx.call = "tokenizeYield" =>
                d.xyt[tx.e] \in {chain.xyt[tx.e], chain.xyt[tx.e] + 1}
<1>1. PICK c \in ChainType : c = chain
  BY DEF IInv
<1>2. tx.call \in Calls /\ tx.e \in Expiry
  BY TxFields
<1>3. CASE ~Succeeds(chain, tx)
  <2>1. d = chain
    BY <1>3
  <2>2. tx.call # "deployDirectory"
    BY <1>3 DEF Succeeds
  <2> QED BY <2>1, <2>2
<1>4. CASE Succeeds(chain, tx)
  <2>1. d = Effect(c, tx)
    BY <1>1, <1>4
  <2>2. CASE tx.call = "newYieldContracts"
    <3>1. d = [c EXCEPT !.yields = @ \cup {tx.e}]
      BY <2>1, <2>2 DEF Effect
    <3> QED BY <1>1, <2>2, <3>1 DEF ChainType
  <2>3. CASE tx.call = "createMarket"
    <3>1. d = [c EXCEPT !.markets = @ \cup {<<tx.e, tx.b>>}]
      BY <2>1, <2>3 DEF Effect
    <3> QED BY <1>1, <2>3, <3>1 DEF ChainType
  <2>4. CASE tx.call = "tokenizeYield"
    <3>1. PICK x : x = [c.xyt EXCEPT ![tx.e] = @ + 1]
      OBVIOUS
    <3>2. d = [c EXCEPT !.yieldTokens = @ - 1, !.xyt = x]
      BY <2>1, <2>4, <3>1 DEF Effect
    <3>3. d.xyt = x /\ d.pools = c.pools /\ d.mining = c.mining /\ d.directories = c.directories
      BY <3>2 DEF ChainType
    <3>4. x[tx.e] = c.xyt[tx.e] + 1
      BY <1>2, <3>1, ChainFields
    <3> QED BY <1>1, <2>4, <3>3, <3>4
  <2>5. CASE tx.call = "bootstrapMarket"
    <3>1. PICK x : x = [c.xyt EXCEPT ![tx.e] = @ - tx.amount]
      OBVIOUS
    <3>2. PICK v : v = c.pools \cup {<<tx.e, tx.b, tx.amount>>}
      OBVIOUS
    <3>3. d = [c EXCEPT !.xyt = x, !.pools = v]
      BY <2>1, <2>5, <3>1, <3>2 DEF Effect
    <3>4. d.pools = v /\ d.mining = c.mining /\ d.directories = c.directories
      BY <3>3 DEF ChainType
    <3> QED BY <1>1, <2>5, <3>2, <3>4
  <2>6. CASE tx.call = "deployMining"
    <3>1. d = [c EXCEPT !.mining = Append(@, FALSE)]
      BY <2>1, <2>6 DEF Effect
    <3>2. d.pools = c.pools /\ d.directories = c.directories
      BY <3>1 DEF ChainType
    <3> QED BY <1>1, <2>6, <3>2
  <2>7. CASE tx.call = "setAllocationSetting"
    <3>1. PICK v : v = [c.mining EXCEPT ![tx.at] = TRUE]
      OBVIOUS
    <3>2. d = [c EXCEPT !.mining = v]
      BY <2>1, <2>7, <3>1 DEF Effect
    <3>3. d.pools = c.pools /\ d.directories = c.directories /\ d.mining = v
      BY <3>2 DEF ChainType
    <3>4. Len(v) = Len(c.mining)
      BY <3>1, ChainFields, SameLength
    <3> QED BY <1>1, <2>7, <3>3, <3>4
  <2>8. CASE tx.call = "deployDirectory"
    <3>1. d = [c EXCEPT !.directories = Append(@, {})]
      BY <2>1, <2>8 DEF Effect
    <3>2. d.pools = c.pools /\ d.mining = c.mining /\ d.directories = Append(c.directories, {})
      BY <3>1 DEF ChainType
    <3>4. PICK v : v = c.directories
      OBVIOUS
    <3>5. v \in Seq(SUBSET Int)
      BY <3>4, ChainFields
    <3>6. Len(Append(v, {})) = Len(v) + 1
      BY ONLY <3>5
    <3>3. Len(d.directories) = Len(c.directories) + 1
      BY <3>2, <3>4, <3>6
    <3> QED BY <1>1, <2>8, <3>2, <3>3
  <2>9. CASE tx.call = "deployMiningV2"
    <3>1. d = [c EXCEPT !.miningV2 = Append(@, 0)]
      BY <2>1, <2>9 DEF Effect
    <3> QED BY <1>1, <2>9, <3>1 DEF ChainType
  <2>10. CASE tx.call = "addAddress"
    <3>1. PICK v : v = [c.directories EXCEPT ![tx.dir] = @ \cup {tx.at}]
      OBVIOUS
    <3>2. d = [c EXCEPT !.directories = v]
      BY <2>1, <2>10, <3>1 DEF Effect
    <3>3. d.pools = c.pools /\ d.directories = v /\ d.mining = c.mining
      BY <3>2 DEF ChainType
    <3>4. Len(v) = Len(c.directories)
      BY <3>1, ChainFields, SameLength
    <3> QED BY <1>1, <2>10, <3>3, <3>4
  <2>11. CASE tx.call = "fund"
    <3>1. PICK v : v = [c.miningV2 EXCEPT ![tx.at] = @ + 4]
      OBVIOUS
    <3>2. d = [c EXCEPT !.miningV2 = v]
      BY <2>1, <2>11, <3>1 DEF Effect
    <3> QED BY <1>1, <2>11, <3>2 DEF ChainType
  <2> QED BY <1>2, <2>2, <2>3, <2>4, <2>5, <2>6, <2>7, <2>8, <2>9, <2>10, <2>11 DEF Calls
<1> QED BY <1>3, <1>4

(* The script that runs alone goes on with what its transaction has done.  *)
LEMMA ConfirmedAlone ==
    ASSUME IInv, NEW p \in Proc, Running(p), proc[p].waiting, NEW tx, tx = Transaction(p),
           tx \in TxType,
           chain' = IF Succeeds(chain, tx) THEN Effect(chain, tx) ELSE chain,
           reverted \subseteq reverted',
           AloneOK(proc[p], chain, file, reverted, world.arrayFile)
    PROVE  /\ AloneOK(Confirmed(p, tx), chain', file, reverted', world.arrayFile)
           /\ tx.call = "deployDirectory" => /\ proc[p].mem.directory = 0
                                             /\ Lists(Confirmed(p, tx))
<1>1. PICK r : r = proc[p]
  OBVIOUS
<1>2. r \in RunType /\ RunFields(r) /\ WaitsForCall(r)
  BY <1>1, RunningFields DEF RunOK
<1>3. /\ r.pc \in 1..Len(Body(r.kind)) /\ r.pc \in 1..6 /\ r.kind \in Kinds
      /\ Body(r.kind)[r.pc] \notin Writes \cup {"poll", "read"}
  <2>1. r.waiting /\ r.kind \in Kinds /\ r.pc \in 1..7
    BY <1>1, <1>2 DEF RunFields
  <2>2. Len(Body(r.kind)) \in 1..6
    BY <2>1, Bodies
  <2> QED BY <1>2, <2>1, <2>2 DEF WaitsForCall
<1>4. tx.call = Body(r.kind)[r.pc] /\ tx.e = r.e
  BY <1>1 DEF Transaction, Step
<1>5. PICK d, R : d = chain' /\ R = reverted'
  OBVIOUS
<1>6. /\ tx.call # "deployMining" => Len(d.mining) = Len(chain.mining)
      /\ tx.call = "tokenizeYield" =>
           d.xyt[tx.e] \in {chain.xyt[tx.e], chain.xyt[tx.e] + 1}
  BY <1>5, MinedFields
<1>7. PICK n : n = IF tx.call \in Deployments THEN Created(d, tx.call) ELSE r.made
  OBVIOUS
<1>8. PICK s : s = Confirmed(p, tx)
  OBVIOUS
<1>9. /\ s.kind = r.kind /\ s.e = r.e /\ s.b = r.b /\ s.run = r.run /\ s.made = n /\ s.waiting = FALSE
      /\ s.mem = r.mem /\ s.pc = r.pc + 1 /\ s.initial = r.initial /\ s.minted = r.minted
  <2>1. s = [r EXCEPT !.waiting = FALSE, !.pc = r.pc + 1, !.made = n]
    BY <1>1, <1>2, <1>5, <1>7, <1>8 DEF Confirmed
  <2> QED BY <1>2, <2>1 DEF RunType
<1>11. AloneOK(r, chain, file, reverted, world.arrayFile)
  BY <1>1
<1>10. SameEntries(s.mem, file, world.arrayFile)
  BY <1>9, <1>11 DEF AloneOK
<1>12. CASE r.kind \in {"deploy_new_yield", "deploy_new_market"}
  <2>1. s.pc = 2
    BY <1>3, <1>9, <1>12, YieldBody, MarketBody DEF Writes
  <2>2. tx.call # "deployDirectory"
    BY <1>3, <1>4, <1>12, WhereSteps DEF V2Kinds
  <2>3. AloneOK(s, d, file, R, world.arrayFile)
    BY <1>9, <1>10, <1>12, <2>1 DEF AloneOK, V2Kinds
  <2> QED BY <1>5, <1>8, <2>2, <2>3
<1>13. CASE r.kind = "deploy_liquitiy_mining"
  <2>1. r.pc = 1 \/ r.pc = 2
    BY <1>3, <1>13, MiningBody DEF Writes
  <2>2. tx.call # "deployDirectory"
    BY <1>3, <1>4, <1>13, WhereSteps DEF V2Kinds
  <2>3. s.made = Len(d.mining)
    <3>1. CASE r.pc = 1
      <4>1. tx.call = "deployMining"
        BY <1>4, <1>13, <3>1, MiningBody
      <4> QED BY <1>7, <1>9, <4>1 DEF Created, Deployments
    <3>2. CASE r.pc = 2
      <4>1. tx.call = "setAllocationSetting"
        BY <1>4, <1>13, <3>2, MiningBody
      <4>2. r.made = Len(chain.mining)
        BY <1>11, <1>13, <3>2 DEF AloneOK
      <4> QED BY <1>6, <1>7, <1>9, <4>1, <4>2 DEF Deployments
    <3> QED BY <2>1, <3>1, <3>2
  <2>4. AloneOK(s, d, file, R, world.arrayFile)
    BY <1>9, <1>10, <1>13, <2>1, <2>3 DEF AloneOK, V2Kinds
  <2> QED BY <1>5, <1>8, <2>2, <2>4
<1>14. CASE r.kind = "mint_xyt_bootstrap_market"
  <2>1. r.pc = 1 \/ r.pc = 3
    BY <1>3, <1>14, BootstrapBody
  <2>2. tx.call # "deployDirectory"
    BY <1>3, <1>4, <1>14, WhereSteps DEF V2Kinds
  <2>3. r.pc = 1 => d.xyt[r.e] \in {r.initial, r.initial + 1}
    <3>1. r.pc = 1 => tx.call = "tokenizeYield"
      BY <1>4, <1>14, BootstrapBody
    <3> QED BY <1>4, <1>6, <1>11, <1>14, <3>1 DEF AloneOK
  <2>4. AloneOK(s, d, file, R, world.arrayFile)
    BY <1>9, <1>10, <1>14, <2>1, <2>3 DEF AloneOK, V2Kinds
  <2> QED BY <1>5, <1>8, <2>2, <2>4
<1>15. CASE r.kind \in V2Kinds
  <2>1. r.pc \in {1, 3, 5, 6}
    BY <1>3, <1>15, MiningV2Body DEF Writes
  <2>2. r.pc > 4 => s.made = r.made
    <3>1. r.pc > 4 => tx.call \in {"addAddress", "fund"}
      BY <1>4, <1>15, <2>1, MiningV2Body
    <3> QED BY <1>7, <1>9, <3>1 DEF Deployments
  <2>3. AloneOK(s, d, file, R, world.arrayFile)
    BY <1>9, <1>10, <1>11, <1>15, <2>1, <2>2 DEF AloneOK, V2Kinds
  <2>4. tx.call = "deployDirectory" => r.pc = 1
    BY <1>4, <1>15, <2>1, MiningV2Body
  <2>5. tx.call = "deployDirectory" => r.mem.directory = 0
    BY <1>1, <1>11, <1>15, <2>4 DEF AloneOK
  <2>6. tx.call = "deployDirectory" => Lists(s)
    BY <1>9, <1>15, <2>4 DEF Lists
  <2> QED BY <1>1, <1>5, <1>8, <2>3, <2>5, <2>6
<1> QED BY <1>3, <1>12, <1>13, <1>14, <1>15 DEF Kinds, V2Kinds

LEMMA MineAlone ==
    ASSUME IInv, FInv, Mine PROVE FInv'
<1>1. PICK tx : tx = Head(mempool)
  OBVIOUS
<1>2. /\ mempool \in Seq(TxType) /\ mempool # << >>
      /\ chain' = (IF Succeeds(chain, tx) THEN Effect(chain, tx) ELSE chain)
      /\ reverted' = (IF Succeeds(chain, tx) THEN reverted ELSE reverted \cup {tx})
      /\ proc' = (IF tx.by = Nobody THEN proc
                  ELSE [proc EXCEPT ![tx.by] =
                          IF tx.call \in Deployments /\ ~Succeeds(chain, tx) THEN Idle
                          ELSE Confirmed(tx.by, tx)])
      /\ mempool' = Tail(mempool)
      /\ UNCHANGED <<file, world, crashes, overlapped, finished>>
  BY <1>1 DEF Mine, IInv
<1>3. tx = mempool[1] /\ 1 \in DOMAIN mempool /\ tx \in TxType
  BY <1>1, <1>2
<1>4. \A i \in DOMAIN mempool' : i + 1 \in DOMAIN mempool /\ mempool'[i] = mempool[i + 1]
  BY <1>2
<1>5. NobodyDied'
  BY <1>2, <1>4 DEF FInv, NobodyDied
<1>6. CASE overlapped
  BY <1>2, <1>5, <1>6, OverlappedStep, Zenon DEF FInv
<1>7. CASE ~overlapped
  <2>1. OnlyOne /\ OwnCalls /\ RunsAlone /\ OwnMint /\ DirectoryKnown /\ AllKept
    BY <1>7 DEF FInv, Undisturbed
  <2>2. PICK d : d = chain'
    OBVIOUS
  <2>3. /\ tx.call # "bootstrapMarket" => d.pools = chain.pools
        /\ tx.call = "bootstrapMarket" =>
             d.pools \subseteq chain.pools \cup {<<tx.e, tx.b, tx.amount>>}
        /\ tx.call # "deployDirectory" => Len(d.directories) = Len(chain.directories)
        /\ tx.call = "deployDirectory" =>
             Succeeds(chain, tx) /\ Len(d.directories) = Len(chain.directories) + 1
    BY <1>2, <1>3, <2>2, MinedFields
  <2>4. OwnMint'
    <3>1. \A pool \in d.pools : pool[3] = 1
      <4>1. tx.call = "bootstrapMarket" => tx.amount = 1
        BY <1>3, <2>1 DEF OwnMint
      <4> QED BY <2>1, <2>3, <4>1 DEF OwnMint
    <3>2. \A i \in DOMAIN mempool' :
            mempool'[i].call = "bootstrapMarket" => mempool'[i].amount = 1
      BY <1>4, <2>1 DEF OwnMint
    <3> QED BY <2>2, <3>1, <3>2 DEF OwnMint
  <2>5. AllKept'
    BY <1>2, <2>1, KeptStays
  <2>6. CASE tx.by = Nobody
    <3>1. \A q \in Proc : ~Running(q)
      <4> SUFFICES ASSUME NEW q \in Proc, Running(q) PROVE FALSE
        OBVIOUS
      <4>1. tx.by = q
        BY <1>3, <2>1 DEF OwnCalls
      <4> QED BY <2>6, <4>1, ManageAssumption DEF Nobody
    <3>2. crashes # 0
      BY <1>3, <2>6 DEF FInv, NobodyDied
    <3>3. \A q \in Proc : ~Running(q)'
      BY <1>2, <2>6, <3>1 DEF Running
    <3>4. OnlyOne' /\ OwnCalls' /\ RunsAlone'
      BY <3>3 DEF OnlyOne, OwnCalls, RunsAlone
    <3>5. DirectoryKnown'
      BY <1>2, <3>2 DEF DirectoryKnown
    <3>6. crashes' \in Nat /\ overlapped' \in BOOLEAN /\ ~overlapped'
      BY <1>2, <1>7 DEF FInv
    <3> QED BY <1>5, <2>4, <2>5, <3>4, <3>5, <3>6, Zenon DEF FInv, Undisturbed
  <2>7. CASE tx.by # Nobody
    <3>1. PICK p : p = tx.by
      OBVIOUS
    <3>2. p \in Proc /\ Running(p) /\ proc[p].waiting /\ tx = Transaction(p)
      BY <1>3, <2>7, <3>1 DEF IInv, SendersOK
    <3>3. PICK s : s = IF tx.call \in Deployments /\ ~Succeeds(chain, tx) THEN Idle
                       ELSE Confirmed(p, tx)
      OBVIOUS
    <3>4. proc' = [proc EXCEPT ![p] = s]
      BY <1>2, <2>7, <3>1, <3>3
    <3>5. /\ \A i \in DOMAIN mempool : mempool[i].by = p
          /\ AloneOK(proc[p], chain, file, reverted, world.arrayFile)
          /\ \A q \in Proc : Running(q) => q = p
      BY <1>7, <3>2, AloneWith
    <3>10. reverted \subseteq reverted' /\ (tx.call = "deployDirectory" => Succeeds(chain, tx))
      BY <1>2, <2>3
    <3>6. /\ s # Idle => AloneOK(s, chain', file, reverted', world.arrayFile)
          /\ tx.call = "deployDirectory" => /\ proc[p].mem.directory = 0 /\ Lists(s)
                                            /\ s = Confirmed(p, tx)
      BY <1>2, <1>3, <3>2, <3>3, <3>5, <3>10, ConfirmedAlone
    <3>7. \A i \in DOMAIN mempool' : mempool'[i].by = p
      BY <1>4, <3>5
    <3>8. \A q \in Proc : ~(Running(q) /\ Lists(proc[q]))
      BY <3>2, <3>5, ListsOnlyWrites
    <3>9. DirectoryKnown'
      <4>1. CASE tx.call = "deployDirectory"
        <5>1. ~world.arrayFile => file.directory = 0
          BY <3>5, <3>6, <4>1 DEF AloneOK, SameEntries
        <5>2. ~world.arrayFile /\ crashes = 0 => Len(chain.directories) = 0
          BY <2>1, <3>8, <5>1 DEF DirectoryKnown
        <5>3. ~world.arrayFile /\ crashes = 0 => Len(chain'.directories) = 1
          <6> SUFFICES ASSUME ~world.arrayFile, crashes = 0 PROVE Len(chain'.directories) = 1
            OBVIOUS
          <6>1. Len(chain.directories) = 0
            BY <5>2
          <6>2. Len(d.directories) = Len(chain.directories) + 1
            BY <2>3, <4>1
          <6> QED BY <2>2, <6>1, <6>2
        <5>4. proc'[p] = s
          BY <3>2, <3>4 DEF IInv
        <5>5. Running(p)'
          <6>1. s \in RunType
            BY <1>2, <1>3, <3>2, <3>6, <3>10, <4>1, ConfirmedIsOK
          <6> QED BY <5>4, <6>1, RunsAreRunning DEF Running
        <5> QED BY <1>2, <3>2, <3>6, <4>1, <5>3, <5>4, <5>5 DEF DirectoryKnown
      <4>2. CASE tx.call # "deployDirectory"
        BY <1>2, <2>1, <2>2, <2>3, <3>8, <4>2, DirectoryStays
      <4> QED BY <4>1, <4>2
    <3> QED BY <1>2, <1>5, <1>7, <2>4, <2>5, <3>2, <3>4, <3>6, <3>7, <3>9, AloneStep
  <2> QED BY <2>6, <2>7
<1> QED BY <1>6, <1>7

LEMMA UndisturbedStep == IInv /\ FInv /\ [Next]_vars => FInv'
<1> SUFFICES ASSUME IInv, FInv, [Next]_vars PROVE FInv'
  OBVIOUS
<1>1. ASSUME NEW p \in Proc, NEW job \in world.jobs, Start(p, job) PROVE FInv'
  BY <1>1, StartAlone
<1>2. ASSUME NEW p \in Proc, Script(p) PROVE FInv'
  BY <1>2, SendAlone, SkipAlone, FailAlone, ReadAlone, PollAlone, SaveAlone, FinishAlone DEF Script
<1>3. ASSUME NEW p \in Proc, Crash(p) PROVE FInv'
  BY <1>3, CrashAlone
<1>4. CASE Mine
  BY <1>4, MineAlone
<1>5. ASSUME NEW e \in Expiry, SomebodyCreatesYield(e) PROVE FInv'
  BY <1>5, OtherAlone
<1>6. CASE UNCHANGED vars
  <2>1. UNCHANGED <<chain, mempool, file, world, proc, crashes, reverted, overlapped, finished>>
    BY <1>6 DEF vars
  <2>2. NobodyDied'
    BY <2>1 DEF FInv, NobodyDied
  <2>3. ~overlapped => Undisturbed'
    <3> SUFFICES ASSUME ~overlapped PROVE Undisturbed'
      OBVIOUS
    <3>1. OnlyOne /\ OwnCalls /\ RunsAlone /\ OwnMint /\ DirectoryKnown /\ AllKept
      BY DEF FInv, Undisturbed
    <3>2. OnlyOne' /\ OwnCalls' /\ RunsAlone'
      BY <2>1, <3>1 DEF OnlyOne, OwnCalls, RunsAlone, Running
    <3>3. OwnMint' /\ AllKept' /\ DirectoryKnown'
      BY <2>1, <3>1 DEF OwnMint, AllKept, DirectoryKnown, Running
    <3> QED BY <3>2, <3>3 DEF Undisturbed
  <2> QED BY <2>1, <2>2, <2>3 DEF FInv
<1>7. CASE Change
  BY <1>7, ChangeAlone
<1> QED BY <1>1, <1>2, <1>3, <1>4, <1>5, <1>6, <1>7 DEF Next

(* What a script that ran to its end has deployed stays in the file, one   *)
(* directory lists all mining contracts of a file that can hold it, and a  *)
(* market is bootstrapped with what its own run has minted - in every      *)
(* world in which runs do not overlap, however many scripts run one after  *)
(* the other, fail and die.                                                *)
THEOREM WhatFinishedIsRecorded == Spec => []FinishedIsRecorded
<1>1. Init => IInv /\ FInv
  BY InitImplies, InitIsUndisturbed
<1>2. IInv /\ FInv /\ [Next]_vars => IInv' /\ FInv'
  BY StepKeeps, UndisturbedStep
<1>3. IInv /\ FInv => FinishedIsRecorded
  BY FInvImplies
<1> QED BY <1>1, <1>2, <1>3, PTL DEF Spec
=============================================================================
