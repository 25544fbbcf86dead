--------------------------- MODULE CompoundMarket ---------------------------
(***************************************************************************)
(* contracts/core/abstract/PendleMarketBase.sol with the interest rule of  *)
(* contracts/core/compound/PendleCompoundMarket.sol: the pool of XYT and a *)
(* base token, whose LP tokens earn the interest of the XYT in the pool,   *)
(* and whose swap fees are shared with the treasury.                       *)
(*                                                                         *)
(* Three things are brought up to date lazily: the interest of LPs, only   *)
(* when the exchange rate has risen by more than a delta, and then for the *)
(* users of the LP that moves; the protocol's part of the swap fees, only  *)
(* when liquidity or the weights change; and the weights, once in a number *)
(* of blocks.  A transaction, the router's transfers included, is one      *)
(* step; a require or a SafeMath check is a guard.  A definition marked    *)
(* "Mistake" is a wrong variant of the one after it, and not part of the   *)
(* specification.                                                          *)
(***************************************************************************)
EXTENDS Integers, FiniteSetsExt

CONSTANTS
    User,
    MinHolder,             \* address(0x1), which gets MINIMUM_LIQUIDITY
    Treasury,
    RONE,                  \* the fixed point one of Math
    MULTIPLIER,
    MINIMUM_LIQUIDITY,
    MAX_TOKEN_RESERVE_BALANCE,
    ParamK(_, _, _),       \* xytBal ^ xytWeight * tokenBal ^ tokenWeight
    WeightAt(_),           \* the weight of XYT after a shift in this block
    LockStartTime,
    CurveShiftBlockDelta,
    ProtocolFee, Delta,    \* fees and deltas governance chooses from
    Amount, Out,           \* amounts users pay in, and take out
    LpAmount,              \* amounts of LP
    Income,                \* what the XYT of the pool earn when the rate rises
    FirstRate, MaxRate,    \* bounds on the exchange rate
    MaxTime                \* bound on the time, one second to the block

Reserve == 1..MAX_TOKEN_RESERVE_BALANCE

Holder == User \cup {MinHolder, Treasury}

HolderAssumption ==
    IsFiniteSet(User) /\ MinHolder # Treasury /\ {MinHolder, Treasury} \cap User = {}

NumberAssumption ==
    /\ {RONE, MULTIPLIER, MINIMUM_LIQUIDITY, MAX_TOKEN_RESERVE_BALANCE, FirstRate}
         \subseteq Nat \ {0}
    /\ {LockStartTime, CurveShiftBlockDelta, MaxRate, MaxTime} \subseteq Nat
    /\ {0} \cup Amount \cup Out \cup LpAmount \cup Income \subseteq Nat

(* setMarketFees refuses a fee above RONE. *)
SettingAssumption == ProtocolFee \subseteq 0..RONE /\ Delta \subseteq Nat

FormulaAssumption ==
    /\ \A x, t \in Reserve, w \in 0..RONE : ParamK(x, t, w) \in Nat
    /\ \A b \in 0..MaxTime : WeightAt(b) \in 0..RONE

Assumptions ==
    HolderAssumption /\ NumberAssumption /\ SettingAssumption /\ FormulaAssumption

VARIABLES
    now,                                  \* block.timestamp and block.number
    paused, forgePaused,                  \* what the pausing manager answers
    protocolSwapFee, interestUpdateRateDelta,
    rate,                                 \* the forge's exchange rate
    accrued,                              \* the pool's interest that the forge still holds
    yieldHeld,                            \* yield tokens in the market
    wallet,                               \* yield tokens the market has paid
    bootstrapped,
    xytBalance, tokenBalance, xytWeight,  \* reserveData
    lastCurveShiftBlock, lastParamK,
    balanceOf, totalSupply,               \* the LP token
    paramL, lastParamL, dueInterests, lastNYield, globalLastExchangeRate,
    paramKBefore   \* history: paramK after the last change that was no swap

pauseVars == <<paused, forgePaused>>
settingVars == <<protocolSwapFee, interestUpdateRateDelta>>
poolVars == <<xytBalance, tokenBalance, xytWeight, lastCurveShiftBlock>>
feeVars == <<lastParamK, paramKBefore>>
lpVars == <<balanceOf, totalSupply>>
fundVars == <<accrued, yieldHeld, wallet>>
interestVars == <<paramL, lastParamL, dueInterests, lastNYield, globalLastExchangeRate>>
vars == <<now, pauseVars, settingVars, rate, fundVars, bootstrapped, poolVars, feeVars,
          lpVars, interestVars>>

SumOver(f) == MapThenSumSet(LAMBDA h : f[h], Holder)

Init ==
    /\ now = 0
    /\ paused = FALSE /\ forgePaused = FALSE
    /\ protocolSwapFee \in ProtocolFee /\ interestUpdateRateDelta \in Delta
    /\ rate = FirstRate
    /\ accrued = 0 /\ yieldHeld = 0 /\ wallet = [h \in Holder |-> 0]
    /\ bootstrapped = FALSE
    /\ xytBalance = 0 /\ tokenBalance = 0 /\ xytWeight = 0
    /\ lastCurveShiftBlock = 0
    /\ lastParamK = 0 /\ paramKBefore = 0
    /\ balanceOf = [h \in Holder |-> 0] /\ totalSupply = 0
    /\ paramL = 0 /\ lastParamL = [h \in Holder |-> 0]
    /\ dueInterests = [h \in Holder |-> 0]
    /\ lastNYield = 0 /\ globalLastExchangeRate = 0

(***************************************************************************)
(* The interest of LPs.                                                    *)
(***************************************************************************)
(* Math.rdiv, which rounds to nearest. *)
rdiv(x, y) == (x * RONE + y \div 2) \div y

(* Mistake: nothing to redeem is taken for nothing to share out. *)
NeedUpdateParamLIfAccrued ==
    accrued > 0 /\ rdiv(rate, globalLastExchangeRate) - RONE > interestUpdateRateDelta

(* checkNeedUpdateParamL *)
NeedUpdateParamL == rdiv(rate, globalLastExchangeRate) - RONE > interestUpdateRateDelta

CurrentNYield == yieldHeld + accrued

ParamR == CurrentNYield - lastNYield

(* Every hook of a transaction may update paramL, but only the first can   *)
(* find it due, and that is before any LP is minted or burnt.              *)
NewParamL ==
    IF NeedUpdateParamL
    THEN paramL + (IF totalSupply = 0 THEN 0 ELSE (ParamR * MULTIPLIER) \div totalSupply)
    ELSE paramL

NewNYield == IF NeedUpdateParamL THEN CurrentNYield ELSE lastNYield

(* A user seen for the first time gets nothing: paramL is at least 1.      *)
InterestFromLp(h, L) ==
    IF lastParamL[h] = 0 THEN 0 ELSE (balanceOf[h] * (L - lastParamL[h])) \div MULTIPLIER

(* Mistake: what was due before is forgotten. *)
SettledDueAnew(h, L) == InterestFromLp(h, L)

SettledDue(h, L) == dueInterests[h] + InterestFromLp(h, L)

(* _updateParamL, and what redeemLpInterests pays after it.  The update    *)
(* has the router redeem the interest of the pool's XYT, which reverts     *)
(* while the forge is paused.                                              *)
UpdateParamL(paid) ==
    /\ NeedUpdateParamL => ~forgePaused /\ ParamR >= 0
    /\ paramL' = NewParamL
    /\ globalLastExchangeRate' = IF NeedUpdateParamL THEN rate ELSE globalLastExchangeRate
    /\ accrued' = IF NeedUpdateParamL THEN 0 ELSE accrued
    /\ lastNYield' = IF paid <= NewNYield THEN NewNYield - paid ELSE 0
    /\ LET balance == IF NeedUpdateParamL THEN CurrentNYield ELSE yieldHeld
       IN  yieldHeld' = IF paid <= balance THEN balance - paid ELSE 0

(* _beforeTokenTransfer: the hook settles the holders in S before any of   *)
(* their LP moves.  Nobody's LP moves in a swap without fees.              *)
Settle(S) ==
    IF S = {} THEN UNCHANGED <<interestVars, fundVars>>
    ELSE /\ UpdateParamL(0)
         /\ \A h \in S : lastParamL[h] <= NewParamL
         /\ lastParamL' = [h \in Holder |-> IF h \in S THEN NewParamL ELSE lastParamL[h]]
         /\ dueInterests' =
              [h \in Holder |-> IF h \in S THEN SettledDue(h, NewParamL) ELSE dueInterests[h]]
         /\ UNCHANGED wallet

(***************************************************************************)
(* Protocol fees and weights.                                              *)
(***************************************************************************)
CurrentParamK == ParamK(xytBalance, tokenBalance, xytWeight)

(* What _mintProtocolFees mints to the treasury: its part of what paramK   *)
(* has grown by since lastParamK.                                          *)
FeeLiquidity ==
    IF protocolSwapFee = 0 \/ lastParamK = 0 \/ CurrentParamK <= lastParamK THEN 0
    ELSE (totalSupply * (CurrentParamK - lastParamK))
           \div (((RONE - protocolSwapFee) * CurrentParamK) \div protocolSwapFee + lastParamK)

FeePayee == IF FeeLiquidity > 0 THEN {Treasury} ELSE {}

(* The supply the amounts of an operation are computed with. *)
SupplyWithFee == totalSupply + FeeLiquidity

(* _updateLastParamK after _mintProtocolFees: while there is no fee the    *)
(* first sets 0 and the second nothing.                                    *)
UpdateLastParamK ==
    LET k == ParamK(xytBalance', tokenBalance', xytWeight')
    IN  /\ lastParamK' = IF protocolSwapFee = 0 THEN 0 ELSE k
        /\ paramKBefore' = k

(* checkNeedCurveShift *)
NeedCurveShift == now > lastCurveShiftBlock + CurveShiftBlockDelta

ShiftedWeight == IF NeedCurveShift THEN WeightAt(now) ELSE xytWeight

CurveShift ==
    /\ xytWeight' = ShiftedWeight
    /\ lastCurveShiftBlock' = IF NeedCurveShift THEN now ELSE lastCurveShiftBlock

(* writeReserveData *)
WriteReserveData(xyt, token) ==
    /\ xyt \in Reserve /\ token \in Reserve
    /\ xytBalance' = xyt /\ tokenBalance' = token

(* The router moves XYT to or from the market, which the forge must allow. *)
MoveXyt(amount) == amount > 0 => ~forgePaused

(* LP balances after the fee, and minted more, or less burnt, for u; what  *)
(* is burnt is there (SafeMath).                                           *)
MintLp(u, minted) ==
    /\ SupplyWithFee + minted >= 0
    /\ balanceOf' = [h \in Holder |-> balanceOf[h] + (IF h = Treasury THEN FeeLiquidity ELSE 0)
                                                  + (IF h = u THEN minted ELSE 0)]
    /\ totalSupply' = SupplyWithFee + minted

(***************************************************************************)
(* Operations.                                                             *)
(***************************************************************************)
(* checkAddRemoveSwapClaimAllowed *)
Allowed(skipOpenCheck) ==
    /\ ~paused
    /\ bootstrapped
    /\ skipOpenCheck \/ now < LockStartTime

IsSqrt(root, n) == root * root <= n /\ n < (root + 1) * (root + 1)

Bootstrap(u, xyt, token, lp) ==
    /\ ~paused /\ ~bootstrapped
    /\ MoveXyt(xyt)
    /\ WriteReserveData(xyt, token) /\ xytWeight' = RONE \div 2
    /\ UpdateLastParamK
    /\ IsSqrt(lp, xyt * token) /\ lp >= MINIMUM_LIQUIDITY
    /\ balanceOf' = [balanceOf EXCEPT ![MinHolder] = MINIMUM_LIQUIDITY,
                                      ![u] = lp - MINIMUM_LIQUIDITY]
    /\ totalSupply' = lp
    /\ paramL' = 1 /\ globalLastExchangeRate' = rate
    /\ lastParamL' = [h \in Holder |-> IF h \in {MinHolder, u} THEN 1 ELSE 0]
    /\ lastCurveShiftBlock' = now
    /\ bootstrapped' = TRUE
    /\ UNCHANGED <<now, pauseVars, settingVars, rate, fundVars, dueInterests, lastNYield>>

(* What addMarketLiquidityDual takes of the desired amounts, and the LP. *)
DualIn(xyt, token) ==
    LET tokenUsed == (xyt * tokenBalance) \div xytBalance
    IN  IF tokenUsed <= token
        THEN [xyt |-> xyt, token |-> tokenUsed, lp |-> (xyt * SupplyWithFee) \div xytBalance]
        ELSE [xyt |-> (token * xytBalance) \div tokenBalance, token |-> token,
              lp |-> (token * SupplyWithFee) \div tokenBalance]

AddMarketLiquidityDual(u, xyt, token) ==
    LET used == DualIn(xyt, token)
    IN  /\ Allowed(FALSE)
        /\ MoveXyt(used.xyt)
        /\ Settle(FeePayee \cup {u})
        /\ WriteReserveData(xytBalance + used.xyt, tokenBalance + used.token)
        /\ UNCHANGED <<xytWeight, lastCurveShiftBlock>>
        /\ UpdateLastParamK
        /\ MintLp(u, used.lp)
        /\ UNCHANGED <<now, pauseVars, settingVars, rate, bootstrapped>>

(* One of xyt and token is 0; addMarketLiquiditySingle.  The LP is what     *)
(* MarketMath comes to: any amount.                                        *)
AddMarketLiquiditySingle(u, xyt, token, lp) ==
    /\ Allowed(FALSE)
    /\ MoveXyt(xyt)
    /\ WriteReserveData(xytBalance + xyt, tokenBalance + token)
    /\ Settle(FeePayee \cup {u})
    /\ CurveShift
    /\ UpdateLastParamK
    /\ MintLp(u, lp)
    /\ UNCHANGED <<now, pauseVars, settingVars, rate, bootstrapped>>

RemoveMarketLiquidityDual(u, lp) ==
    LET xytOut == (lp * xytBalance) \div SupplyWithFee
        tokenOut == (lp * tokenBalance) \div SupplyWithFee
    IN  /\ Allowed(TRUE)
        /\ lp <= balanceOf[u]
        /\ MoveXyt(xytOut)
        /\ Settle(FeePayee \cup {u})
        /\ WriteReserveData(xytBalance - xytOut, tokenBalance - tokenOut)
        /\ UNCHANGED <<xytWeight, lastCurveShiftBlock>>
        /\ UpdateLastParamK
        /\ MintLp(u, -lp)
        /\ UNCHANGED <<now, pauseVars, settingVars, rate, bootstrapped>>

(* One of xyt and token is 0; removeMarketLiquiditySingle. *)
RemoveMarketLiquiditySingle(u, xyt, token, lp) ==
    /\ Allowed(FALSE)
    /\ lp <= balanceOf[u]
    /\ MoveXyt(xyt)
    /\ WriteReserveData(xytBalance - xyt, tokenBalance - token)
    /\ Settle(FeePayee \cup {u})
    /\ CurveShift
    /\ UpdateLastParamK
    /\ MintLp(u, -lp)
    /\ UNCHANGED <<now, pauseVars, settingVars, rate, bootstrapped>>

(* One of xyt and token is what comes in, the other, negative or 0, what   *)
(* goes out.  MarketMath rounds to nearest, so paramK may fall a little.   *)
SwapBy(xyt, token) ==
    /\ WriteReserveData(xytBalance + xyt, tokenBalance + token)
    /\ MoveXyt(IF xyt < 0 THEN -xyt ELSE xyt)
    /\ CurveShift

(* Mistake: the weights are shifted, and lastParamK updated, but no fees   *)
(* are minted before.                                                      *)
SwapWithoutFee(xyt, token) ==
    /\ Allowed(FALSE)
    /\ SwapBy(xyt, token)
    /\ IF NeedCurveShift
       THEN LET k == ParamK(xytBalance, tokenBalance, ShiftedWeight)
            IN  /\ lastParamK' = IF protocolSwapFee = 0 THEN 0 ELSE k
                /\ paramKBefore' = k
       ELSE UNCHANGED feeVars
    /\ UNCHANGED <<now, pauseVars, settingVars, rate, bootstrapped, interestVars, fundVars,
                   lpVars>>

(* swapExactIn and swapExactOut.  Fees are minted, and lastParamK is       *)
(* updated, only if the weights are to be shifted before the swap.         *)
Swap(xyt, token) ==
    /\ Allowed(FALSE)
    /\ SwapBy(xyt, token)
    /\ IF NeedCurveShift
       THEN LET k == ParamK(xytBalance, tokenBalance, ShiftedWeight)
            IN  /\ Settle(FeePayee)
                /\ lastParamK' = IF protocolSwapFee = 0 THEN 0 ELSE k
                /\ paramKBefore' = k
                /\ MintLp(Treasury, 0)
       ELSE UNCHANGED <<interestVars, fundVars, feeVars, lpVars>>
    /\ UNCHANGED <<now, pauseVars, settingVars, rate, bootstrapped>>

(* Mistake: only the sender is settled. *)
TransferLpFromOnly(from, to, amount) ==
    /\ ~paused /\ bootstrapped
    /\ from # to /\ amount <= balanceOf[from]
    /\ Settle({from})
    /\ balanceOf' = [balanceOf EXCEPT ![from] = @ - amount, ![to] = @ + amount]
    /\ UNCHANGED <<now, pauseVars, settingVars, rate, bootstrapped, poolVars, feeVars,
                   totalSupply>>

(* The LP token's transfer; before the bootstrap, the increase of the     *)
(* exchange rate divides by 0.                                             *)
TransferLp(from, to, amount) ==
    /\ ~paused /\ bootstrapped
    /\ from # to /\ amount <= balanceOf[from]
    /\ Settle({from, to})
    /\ balanceOf' = [balanceOf EXCEPT ![from] = @ - amount, ![to] = @ + amount]
    /\ UNCHANGED <<now, pauseVars, settingVars, rate, bootstrapped, poolVars, feeVars,
                   totalSupply>>

(* Anybody has u's interest paid to u, by the router.  The amounts are     *)
(* capped by what there is (subMax0, _safeTransferYieldToken).             *)
RedeemLpInterests(h) ==
    LET due == SettledDue(h, NewParamL)
    IN  /\ Allowed(TRUE)
        /\ lastParamL[h] <= NewParamL
        /\ UpdateParamL(due)
        /\ lastParamL' = [lastParamL EXCEPT ![h] = NewParamL]
        /\ dueInterests' = [dueInterests EXCEPT ![h] = 0]
        /\ wallet' = [wallet EXCEPT ![h] = @ + CurrentNYield - (yieldHeld' + accrued')]
        /\ UNCHANGED <<now, pauseVars, settingVars, rate, bootstrapped, poolVars, feeVars,
                       lpVars>>

(***************************************************************************)
(* The surroundings: governance, the forge, the chain.                     *)
(***************************************************************************)
SetPaused(market, itsForge) ==
    /\ paused' = market /\ forgePaused' = itsForge
    /\ UNCHANGED <<now, settingVars, rate, fundVars, bootstrapped, poolVars, feeVars, lpVars,
                   interestVars>>

SetMarketFees(fee) ==
    /\ protocolSwapFee' = fee
    /\ UNCHANGED <<now, pauseVars, interestUpdateRateDelta, rate, fundVars, bootstrapped,
                   poolVars, feeVars, lpVars, interestVars>>

SetInterestUpdateRateDelta(d) ==
    /\ interestUpdateRateDelta' = d
    /\ UNCHANGED <<now, pauseVars, protocolSwapFee, rate, fundVars, bootstrapped, poolVars,
                   feeVars, lpVars, interestVars>>

(* The XYT of the pool earn, as YieldContract has it; until the expiry.    *)
RateRises(income) ==
    /\ bootstrapped /\ rate < MaxRate
    /\ rate' = rate + 1
    /\ accrued' = accrued + income
    /\ UNCHANGED <<now, pauseVars, settingVars, yieldHeld, wallet, bootstrapped, poolVars,
                   feeVars, lpVars, interestVars>>

(* Anybody may have the router redeem the interest of the market's XYT. *)
RedeemDueInterests ==
    /\ accrued > 0 /\ ~forgePaused
    /\ yieldHeld' = CurrentNYield /\ accrued' = 0
    /\ UNCHANGED <<now, pauseVars, settingVars, rate, wallet, bootstrapped, poolVars, feeVars,
                   lpVars, interestVars>>

NextBlock ==
    /\ now < MaxTime
    /\ now' = now + 1
    /\ UNCHANGED <<pauseVars, settingVars, rate, fundVars, bootstrapped, poolVars, feeVars,
                   lpVars, interestVars>>

Next ==
    \/ \E u \in User, xyt, token \in Amount, lp \in Reserve : Bootstrap(u, xyt, token, lp)
    \/ \E u \in User, xyt, token \in Amount : AddMarketLiquidityDual(u, xyt, token)
    \/ \E u \in User, a \in Amount, lp \in LpAmount :
          AddMarketLiquiditySingle(u, a, 0, lp) \/ AddMarketLiquiditySingle(u, 0, a, lp)
    \/ \E u \in User, a \in Out, lp \in LpAmount :
          RemoveMarketLiquiditySingle(u, a, 0, lp) \/ RemoveMarketLiquiditySingle(u, 0, a, lp)
    \/ \E u \in User, lp \in LpAmount : RemoveMarketLiquidityDual(u, lp)
    \/ \E in \in Amount, out \in Out : Swap(in, -out) \/ Swap(-out, in)
    \/ \E from \in User, to \in Holder, amount \in LpAmount : TransferLp(from, to, amount)
    \/ \E h \in Holder : RedeemLpInterests(h)
    \/ \E market, itsForge \in BOOLEAN : SetPaused(market, itsForge)
    \/ \E fee \in ProtocolFee : SetMarketFees(fee)
    \/ \E d \in Delta : SetInterestUpdateRateDelta(d)
    \/ \E income \in Income : RateRises(income)
    \/ RedeemDueInterests
    \/ NextBlock

Spec == Init /\ [][Next]_vars

(***************************************************************************)
(* Properties.                                                             *)
(***************************************************************************)
TypeOK ==
    /\ now \in Nat
    /\ {paused, forgePaused, bootstrapped} \subseteq BOOLEAN
    /\ protocolSwapFee \in ProtocolFee /\ interestUpdateRateDelta \in Delta
    /\ {rate, accrued, yieldHeld} \subseteq Nat
    /\ wallet \in [Holder -> Nat]
    /\ xytBalance \in 0..MAX_TOKEN_RESERVE_BALANCE
    /\ tokenBalance \in 0..MAX_TOKEN_RESERVE_BALANCE
    /\ xytWeight \in 0..RONE
    /\ {lastCurveShiftBlock, lastParamK, paramKBefore} \subseteq Nat
    /\ balanceOf \in [Holder -> Nat] /\ totalSupply \in Nat
    /\ paramL \in Nat /\ lastParamL \in [Holder -> Nat]
    /\ dueInterests \in [Holder -> Nat]
    /\ lastNYield \in Nat /\ globalLastExchangeRate \in Nat

(* The interest h could redeem without a further update of paramL. *)
Claim(h) == SettledDue(h, paramL)

(* What paramL has earned holders since they were settled, unrounded and   *)
(* in MULTIPLIERths.                                                       *)
Unsettled ==
    [h \in Holder |-> IF lastParamL[h] = 0 THEN 0 ELSE balanceOf[h] * (paramL - lastParamL[h])]

(* The LP supply is the sum of the balances it divides interest by, and    *)
(* what was recorded as shared out covers what everybody is owed, settled  *)
(* or not, and the market has it: the caps of subMax0 ("the extreme case   *)
(* of the market lacking a few wei", PendleMarketBase.sol:671) and of      *)
(* _safeTransferYieldToken never take anything from anybody.               *)
LpInterestsCovered ==
    /\ TypeOK
    /\ totalSupply = SumOver(balanceOf)
    /\ MULTIPLIER * SumOver(dueInterests) + SumOver(Unsettled) <= MULTIPLIER * lastNYield
    /\ lastNYield <= yieldHeld

(* Whatever is added, removed, swapped or transferred, by whomever, and    *)
(* whoever has u's interest paid to u: what a holder of LP has received    *)
(* and can claim never falls, after the market's lock included.            *)
LpInterestsAreKept ==
    [][ \A h \in Holder : wallet'[h] + Claim(h)' >= wallet[h] + Claim(h) ]_vars

(* "they will lose NO MORE THAN interestUpdateRateDeltaForMarket%"         *)
(* (PendleMarketBase.sol:710): when LP is minted, burnt or transferred,    *)
(* all but the last rise of the exchange rate, of at most the delta, has   *)
(* been shared out, whoever redeemed the market's interest before.         *)
LossIsWithinDelta ==
    [][ balanceOf' # balanceOf /\ bootstrapped =>
          rdiv(rate, globalLastExchangeRate') - RONE <= interestUpdateRateDelta ]_vars

(* LP minted to the treasury by a step that changes the pool or the supply. *)
Fees == balanceOf'[Treasury] - balanceOf[Treasury]

SwapGrowth == CurrentParamK - paramKBefore

(* No more than the part of the pool that protocolSwapFee of the growth is. *)
FeesAtMost(fees) ==
    RONE * fees * CurrentParamK <= protocolSwapFee * (SwapGrowth * (totalSupply + fees))

(* The same, but for the rounding of feeRatio, by which the growth is      *)
(* divided: it makes the fee larger, by less than a unit of paramK would.  *)
FeesWithinRounding(fees) ==
    RONE * fees * CurrentParamK < protocolSwapFee * (SwapGrowth * (totalSupply + fees) + fees)

(* The treasury gets LP only as a fee, and a fee only for what swaps have  *)
(* added to paramK since the last change that was no swap: of the pool it  *)
(* gets protocolSwapFee of that growth, to the next LP, whatever was added *)
(* or shifted before and however the fee was changed meanwhile; and no     *)
(* growth is left uncharged when the supply or the weights change.         *)
FeesAreOfSwapGrowth ==
    [][ <<poolVars, totalSupply>>' # <<poolVars, totalSupply>> /\ bootstrapped =>
          LET charged == protocolSwapFee > 0 /\ lastParamK > 0 /\ SwapGrowth > 0
          IN  /\ Fees > 0 => charged /\ FeesWithinRounding(Fees)
              /\ <<lastCurveShiftBlock, totalSupply>>' # <<lastCurveShiftBlock, totalSupply>>
                   => (charged => ~FeesAtMost(Fees + 1)) ]_vars
=============================================================================
