--------------------------- MODULE MCAccumulators ---------------------------
(***************************************************************************)
(* Small instances of the two contracts that share income with the same    *)
(* device, a paramL that holders are settled against: RewardManager and    *)
(* CompoundMarket.  They have no variable in common, and a behaviour is    *)
(* one of the one or one of the other.                                     *)
(***************************************************************************)
EXTENDS MCRewardManager

CONSTANTS
    MinHolder, Treasury, RONE, MINIMUM_LIQUIDITY, MAX_TOKEN_RESERVE_BALANCE, LockStartTime,
    CurveShiftBlockDelta, ProtocolFee, Delta, Amount, Out, LpAmount, Income, FirstRate,
    MaxRate, MaxTime,
    DisturbedTime,   \* governance interferes with the market at this time
    MaxSteps         \* bound on the steps of a behaviour of the market

VARIABLES
    now, paused, forgePaused, protocolSwapFee, interestUpdateRateDelta, rate, accrued,
    yieldHeld, marketWallet, bootstrapped, xytBalance, tokenBalance, xytWeight,
    lastCurveShiftBlock, lastParamK, balanceOf, totalSupply, marketParamL, marketLastParamL,
    dueInterests, lastNYield, globalLastExchangeRate, paramKBefore,
    component, steps

(* paramK to the integer below it, as toInt has it. *)
KTable ==
    [x \in 1..MAX_TOKEN_RESERVE_BALANCE, t \in 1..MAX_TOKEN_RESERVE_BALANCE, w \in 0..RONE |->
        LET power == x^w * t^(RONE - w)
        IN  CHOOSE k \in 1..MAX_TOKEN_RESERVE_BALANCE :
               k^RONE <= power /\ power < (k + 1)^RONE]

ParamKOf(x, t, w) == KTable[x, t, w]

(* The relative price of XYT, and with it the weight, falls with time. *)
WeightOf(b) == IF b = 0 THEN RONE \div 2 ELSE 1

(* With the theorems about it, which then hold of this instance.           *)
Market == INSTANCE CompoundMarket_proofs WITH
    ParamK <- ParamKOf, WeightAt <- WeightOf,
    wallet <- marketWallet, paramL <- marketParamL, lastParamL <- marketLastParamL

ASSUME MarketAssumption == Market!Assumptions

marketVars ==
    <<now, paused, forgePaused, protocolSwapFee, interestUpdateRateDelta, rate, accrued,
      yieldHeld, marketWallet, bootstrapped, xytBalance, tokenBalance, xytWeight,
      lastCurveShiftBlock, lastParamK, balanceOf, totalSupply, marketParamL,
      marketLastParamL, dueInterests, lastNYield, globalLastExchangeRate, paramKBefore>>

(***************************************************************************)
(* Pauses end within the second, and interest comes in while swaps do not  *)
(* add to paramK.                                                          *)
(***************************************************************************)
MarketNext ==
    /\ Market!Next
    /\ steps' = steps + (IF now' = now THEN 1 ELSE 0)
    /\ steps' <= MaxSteps
    /\ now # DisturbedTime => 
            UNCHANGED <<paused, forgePaused, protocolSwapFee, interestUpdateRateDelta>>
    /\ now' # now => ~paused /\ ~forgePaused
    /\ bootstrapped /\ rate # FirstRate => Market!SwapGrowth' <= Market!SwapGrowth

MCInit ==
    /\ Init /\ Market!Init
    /\ component \in {"RewardManager", "CompoundMarket"} /\ steps = 0
    /\ component = "RewardManager" => protocolSwapFee = 0
    /\ component = "CompoundMarket" => updateFrequency = 0

MCNext ==
    /\ UNCHANGED component
    /\ \/ component = "RewardManager" /\ Next /\ UNCHANGED <<marketVars, steps>>
       \/ component = "CompoundMarket" /\ MarketNext /\ UNCHANGED vars

MCSpec == MCInit /\ [][MCNext]_<<vars, marketVars, component, steps>>

(* What CompoundMarket says of the market. *)
LpInterestsCovered == Market!LpInterestsCovered
LpInterestsAreKept == Market!LpInterestsAreKept
LossIsWithinDelta == Market!LossIsWithinDelta
FeesAreOfSwapGrowth == Market!FeesAreOfSwapGrowth
=============================================================================
