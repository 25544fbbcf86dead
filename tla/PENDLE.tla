------------------------------- MODULE PENDLE -------------------------------
(***************************************************************************)
(* contracts/tokens/PENDLE.sol: balances, the votes delegated with them    *)
(* and their checkpoints, the weekly emissions and the timelocked change   *)
(* of their settings.  Allowances and signatures only decide who may make  *)
(* a transfer or a delegation, and are left out.                           *)
(*                                                                         *)
(* A transaction is one step, a require is a guard.  Votes of a delegate   *)
(* are those of its last checkpoint.  A definition marked "Mistake" is a   *)
(* wrong variant of the one after it, and not part of the specification.   *)
(***************************************************************************)
EXTENDS Integers, Sequences, SequencesExt, FiniteSetsExt

CONSTANTS
    Account,
    NoDelegate,                  \* address(0) as a delegate
    Genesis,                     \* tokens minted by the constructor
    FirstRecipient,              \* liquidityIncentivesRecipient of the constructor
    INITIAL_LIQUIDITY_EMISSION,
    InitialWeeks,                \* weeks whose emissions are in Genesis (26)
    DecayWeeks,                  \* last week in which emissions decay (259)
    Multiplier, Inflation,       \* emission settings there may be, numerators
    CONFIG_DENOMINATOR,
    Week,                        \* 7 days, also CONFIG_CHANGES_TIME_LOCK
    BlockTime,                   \* seconds there may be between two blocks
    MaxBlock,                    \* bound on block.number
    MaxSupply                    \* bound on totalSupply

Assumptions ==
    /\ IsFiniteSet(Account) /\ NoDelegate \notin Account /\ FirstRecipient \in Account
    /\ Genesis \in Nat /\ INITIAL_LIQUIDITY_EMISSION \in Nat
    /\ InitialWeeks \in Nat \ {0} /\ DecayWeeks \in Nat
    /\ Multiplier \subseteq Nat /\ Inflation \subseteq Nat
    /\ CONFIG_DENOMINATOR \in Nat \ {0}
    /\ Week \in Nat \ {0} /\ BlockTime \subseteq Nat \ {0}
    /\ MaxBlock \in Nat /\ MaxSupply \in Nat /\ Genesis <= MaxSupply

VARIABLES
    block, timestamp,
    balances, totalSupply,
    delegates, checkpoints,
    config,                      \* the settings in force
    pending,                     \* the settings proposed last
    configChangesInitiated,
    lastWeeklyEmission, lastWeekEmissionSent,
    drift,                       \* history: of each delegate's votes, burnt less minted
    weekConfig,                  \* history: the settings when a week began
    paid                         \* history: the weekly emissions minted

clock == <<block, timestamp>>
configVars == <<config, pending, configChangesInitiated>>
emissionVars == <<lastWeeklyEmission, lastWeekEmissionSent, paid>>
vars == <<clock, balances, totalSupply, delegates, checkpoints, configVars, emissionVars,
          drift, weekConfig>>

Config == [multiplier : Multiplier, inflation : Inflation, recipient : Account,
           burning : BOOLEAN]

startTime == 1

WeekOf(time) == (time - startTime) \div Week + 1

Init ==
    /\ block = 1 /\ timestamp = startTime
    /\ balances \in [Account -> 0..Genesis]
    /\ MapThenSumSet(LAMBDA a : balances[a], Account) = Genesis
    /\ totalSupply = Genesis
    /\ delegates = [a \in Account |-> NoDelegate]
    /\ checkpoints = [d \in Account |-> <<>>]
    /\ config \in [multiplier : Multiplier, inflation : Inflation,
                   recipient : {FirstRecipient}, burning : {FALSE}]
    /\ pending = config /\ configChangesInitiated = 0
    /\ lastWeeklyEmission = INITIAL_LIQUIDITY_EMISSION
    /\ lastWeekEmissionSent = InitialWeeks
    /\ drift = [d \in Account |-> 0]
    /\ weekConfig = <<config>>
    /\ paid = <<>>

(***************************************************************************)
(* Votes.                                                                  *)
(***************************************************************************)
VotesOf(c) == IF c = <<>> THEN 0 ELSE Last(c).votes

CurrentVotes(d) == VotesOf(checkpoints[d])

(* Mistake: a block's checkpoint is written once. *)
WriteOnce(c, newVotes) ==
    IF c # <<>> /\ Last(c).fromBlock = block THEN c
    ELSE Append(c, [fromBlock |-> block, votes |-> newVotes])

WriteCheckpoint(c, newVotes) ==
    IF c # <<>> /\ Last(c).fromBlock = block
    THEN [c EXCEPT ![Len(c)].votes = newVotes]
    ELSE Append(c, [fromBlock |-> block, votes |-> newVotes])

CanMoveDelegates(srcRep, dstRep, amount) ==
    srcRep # dstRep /\ srcRep # NoDelegate => CurrentVotes(srcRep) >= amount

MoveDelegates(srcRep, dstRep, amount) ==
    checkpoints' =
        IF srcRep = dstRep \/ amount = 0 THEN checkpoints
        ELSE [d \in Account |->
                CASE d = srcRep -> WriteCheckpoint(checkpoints[d], CurrentVotes(d) - amount)
                  [] d = dstRep -> WriteCheckpoint(checkpoints[d], CurrentVotes(d) + amount)
                  [] OTHER -> checkpoints[d]]

(* The binary search of getPriorVotes. *)
Search(c, number) ==
    LET from[bounds \in (DOMAIN c) \X (DOMAIN c)] ==
            LET lower == bounds[1]
                upper == bounds[2]
                center == upper - (upper - lower) \div 2
            IN  IF upper <= lower THEN c[lower].votes
                ELSE IF c[center].fromBlock = number THEN c[center].votes
                ELSE IF c[center].fromBlock < number THEN from[<<center, upper>>]
                ELSE from[<<lower, center - 1>>]
    IN  from[<<1, Len(c)>>]

(* Mistake: a delegate has always had the votes of the first checkpoint. *)
PriorVotesOfFirst(d, number) ==
    IF checkpoints[d] = <<>> THEN 0 ELSE Search(checkpoints[d], number)

PriorVotes(d, number) ==
    LET c == checkpoints[d]
    IN  CASE c = <<>> -> 0
          [] c # <<>> /\ Last(c).fromBlock <= number -> Last(c).votes
          [] c # <<>> /\ c[1].fromBlock > number -> 0
          [] OTHER -> Search(c, number)

(***************************************************************************)
(* Emissions.                                                              *)
(***************************************************************************)
Decayed(emission, multiplier) == (emission * multiplier) \div CONFIG_DENOMINATOR
Inflated(supply, inflation) == (supply * inflation) \div CONFIG_DENOMINATOR

(* Week i is minted for the recipient in force, after the earlier weeks.   *)
MintWeek(s, i) ==
    LET emission == IF i <= DecayWeeks THEN Decayed(s.emission, config.multiplier)
                    ELSE Inflated(s.supply, config.inflation)
    IN  [emission |-> emission,
         supply |-> s.supply + emission,
         minted |-> s.minted + emission,
         paid |-> Append(s.paid, [week |-> i, recipient |-> config.recipient,
                                  amount |-> emission, supply |-> s.supply])]

(* Mistake: the week sent last is sent again. *)
WeeksAgain == [k \in 1..(WeekOf(timestamp) - lastWeekEmissionSent) |-> lastWeekEmissionSent + k - 1]

WeeksToSend == [k \in 1..(WeekOf(timestamp) - lastWeekEmissionSent) |-> lastWeekEmissionSent + k]

(* The votes of the recipient's delegate do not grow with the balance.     *)
MintLiquidityEmissions ==
    LET s == FoldLeft(MintWeek,
                      [emission |-> lastWeeklyEmission, supply |-> totalSupply,
                       minted |-> 0, paid |-> paid],
                      WeeksToSend)
    IN  /\ s.supply <= MaxSupply
        /\ totalSupply' = s.supply
        /\ balances' = [balances EXCEPT ![config.recipient] = @ + s.minted]
        /\ drift' = [d \in Account |->
                        drift[d] - (IF d = delegates[config.recipient] THEN s.minted ELSE 0)]
        /\ lastWeeklyEmission' = s.emission
        /\ lastWeekEmissionSent' = lastWeekEmissionSent + Len(WeeksToSend)
        /\ paid' = s.paid

(***************************************************************************)
(* Operations.                                                             *)
(***************************************************************************)
(* transfer, transferFrom *)
Transfer(src, dst, amount) ==
    /\ balances[src] >= amount
    /\ CanMoveDelegates(delegates[src], delegates[dst], amount)
    /\ balances' = [a \in Account |->
                      balances[a] - (IF a = src THEN amount ELSE 0)
                                  + (IF a = dst THEN amount ELSE 0)]
    /\ MoveDelegates(delegates[src], delegates[dst], amount)
    /\ UNCHANGED <<clock, totalSupply, delegates, configVars, emissionVars, drift, weekConfig>>

(* delegate, delegateBySig *)
Delegate(a, delegatee) ==
    /\ CanMoveDelegates(delegates[a], delegatee, balances[a])
    /\ delegates' = [delegates EXCEPT ![a] = delegatee]
    /\ MoveDelegates(delegates[a], delegatee, balances[a])
    /\ UNCHANGED <<clock, balances, totalSupply, configVars, emissionVars, drift, weekConfig>>

(* The votes of the delegate stay. *)
Burn(a, amount) ==
    /\ config.burning
    /\ balances[a] >= amount
    /\ balances' = [balances EXCEPT ![a] = @ - amount]
    /\ totalSupply' = totalSupply - amount
    /\ drift' = [d \in Account |-> drift[d] + (IF d = delegates[a] THEN amount ELSE 0)]
    /\ UNCHANGED <<clock, delegates, checkpoints, configVars, emissionVars, weekConfig>>

(* By governance. *)
InitiateConfigChanges(settings) ==
    /\ pending' = settings
    /\ configChangesInitiated' = timestamp
    /\ UNCHANGED <<clock, balances, totalSupply, delegates, checkpoints, config, emissionVars,
                   drift, weekConfig>>

(* Mistake: the past weeks are not settled first. *)
ApplyAtOnce ==
    /\ configChangesInitiated # 0
    /\ timestamp > configChangesInitiated + Week
    /\ config' = pending
    /\ configChangesInitiated' = 0
    /\ UNCHANGED <<clock, balances, totalSupply, delegates, checkpoints, pending, emissionVars,
                   drift, weekConfig>>

(* By anybody. *)
ApplyConfigChanges ==
    /\ configChangesInitiated # 0
    /\ timestamp > configChangesInitiated + Week
    /\ MintLiquidityEmissions
    /\ config' = pending
    /\ configChangesInitiated' = 0
    /\ UNCHANGED <<clock, delegates, checkpoints, pending, weekConfig>>

(* By the recipient; without a week to send nothing changes. *)
ClaimLiquidityEmissions ==
    /\ MintLiquidityEmissions
    /\ UNCHANGED <<clock, delegates, checkpoints, configVars, weekConfig>>

NextBlock ==
    /\ block < MaxBlock
    /\ block' = block + 1
    /\ \E t \in BlockTime : timestamp' = timestamp + t
    /\ weekConfig' = [w \in 1..WeekOf(timestamp') |->
                        IF w \in DOMAIN weekConfig THEN weekConfig[w] ELSE config]
    /\ UNCHANGED <<balances, totalSupply, delegates, checkpoints, configVars, emissionVars, drift>>

Next ==
    \/ \E src, dst \in Account : \E amount \in 1..balances[src] : Transfer(src, dst, amount)
    \/ \E a \in Account, d \in Account \cup {NoDelegate} : Delegate(a, d)
    \/ \E a \in Account : \E amount \in 1..balances[a] : Burn(a, amount)
    \/ \E settings \in Config : InitiateConfigChanges(settings)
    \/ ApplyConfigChanges
    \/ ClaimLiquidityEmissions
    \/ NextBlock

Spec == Init /\ [][Next]_vars

(***************************************************************************)
(* Properties.                                                             *)
(***************************************************************************)
TypeOK ==
    /\ block \in Nat /\ timestamp \in Nat /\ totalSupply \in Nat
    /\ balances \in [Account -> Nat]
    /\ delegates \in [Account -> Account \cup {NoDelegate}]
    /\ checkpoints \in [Account -> Seq([fromBlock : Nat, votes : Nat])]
    /\ config \in Config /\ pending \in Config /\ configChangesInitiated \in Nat
    /\ lastWeeklyEmission \in Nat /\ lastWeekEmissionSent \in Nat
    /\ drift \in [Account -> Int]

(* A delegate has the votes of the tokens delegated to it, however they    *)
(* were moved and delegated: only burning adds to its votes (the tokens    *)
(* go, the votes stay), and only emissions to an account that delegates    *)
(* take from them (_burn and _mint leave the votes alone).  The balances   *)
(* make up the supply.                                                     *)
VotesAreBalances ==
    /\ TypeOK
    /\ totalSupply = MapThenSumSet(LAMBDA a : balances[a], Account)
    /\ \A d \in Account :
          CurrentVotes(d) = drift[d] + MapThenSumSet(LAMBDA a : balances[a],
                                                     {a \in Account : delegates[a] = d})

(* Checkpoints and their search do what governance takes them for: what    *)
(* getPriorVotes returns for a finished block is what the delegate had at  *)
(* its end, whatever happens later (PENDLE.sol:300-309).                   *)
Book == INSTANCE VoteBook WITH
    Representative <- Account, Amount <- 1..MaxSupply,
    votes <- [d \in Account |-> CurrentVotes(d)],
    pages <- [b \in 0..(block - 1) |-> [d \in Account |-> PriorVotes(d, b)]]

BookSpec == Book!Spec

(* The emission of a week that decays, had every week been minted at once. *)
Due ==
    LET due[w \in Nat] == IF w <= InitialWeeks THEN INITIAL_LIQUIDITY_EMISSION
                          ELSE Decayed(due[w - 1], weekConfig[w].multiplier)
    IN  due

(* "make sure the weeks in the past follow the old configs"                *)
(* (PENDLE.sol:473): every week is minted once and in order, however late  *)
(* and in however many claims, for the recipient and at the rate in force  *)
(* when it began, whatever changes were applied in between.                *)
WeeksFollowTheirConfig ==
    /\ lastWeekEmissionSent = InitialWeeks + Len(paid)
    /\ \A k \in DOMAIN paid :
          LET p == paid[k]
              c == weekConfig[p.week]
          IN  /\ p.week = InitialWeeks + k
              /\ p.recipient = c.recipient
              /\ p.amount = IF p.week <= DecayWeeks THEN Due[p.week]
                            ELSE Inflated(p.supply, c.inflation)
=============================================================================
