------------------------ MODULE CompoundMarket_proofs ------------------------
(***************************************************************************)
(* Proofs about CompoundMarket, for any formulas, fees, deltas and amounts *)
(* that its Assumptions allow: type correctness (IInv), the bound on what  *)
(* an LP can lose by the interest that is cached below the delta, on sums  *)
(* over the holders (CInv), that the market has what it owes its LPs and   *)
(* never takes it back, and (MInv) that fees are of what swaps have added. *)
(***************************************************************************)
EXTENDS CompoundMarket, Sums

-----------------------------------------------------------------------------
(* Integer division. *)
LEMMA ProductOfNats ==
    ASSUME NEW a \in Nat, NEW b \in Nat
    PROVE  a * b \in Nat
OBVIOUS

(* A rate has not risen against itself, rounded as it is. *)
LEMMA RdivSelf ==
    ASSUME RONE \in Nat \ {0}, NEW x \in Nat \ {0}
    PROVE  rdiv(x, x) = RONE
<1> DEFINE half == x \div 2
           d == (x * RONE + half) \div x
<1>1. half \in Nat /\ 2 * half <= x
  BY DivisionDef
<1> HIDE DEF half
<1>2. x * RONE \in Nat /\ x * RONE + half \in Nat
  BY <1>1, ProductOfNats
<1>3. d \in Nat /\ x * d <= x * RONE + half /\ x * RONE + half < x * d + x
  BY <1>2, DivisionDef
<1> HIDE DEF d
<1>4. ASSUME d >= RONE + 1 PROVE FALSE
  <2>1. x * d >= x * (RONE + 1)
    BY <1>3, <1>4
  <2>2. x * (RONE + 1) = x * RONE + x
    OBVIOUS
  <2> QED BY <1>1, <1>2, <1>3, <2>1, <2>2
<1>5. ASSUME d + 1 <= RONE PROVE FALSE
  <2>1. x * (d + 1) <= x * RONE
    BY <1>3, <1>5
  <2>2. x * (d + 1) = x * d + x
    BY <1>3
  <2> QED BY <1>1, <1>2, <1>3, <2>1, <2>2
<1>6. d = RONE
  BY <1>3, <1>4, <1>5
<1> QED BY <1>6 DEF d, half, rdiv

-----------------------------------------------------------------------------
(* The parts of TypeOK, by the variables that operations change together. *)
SettingOK ==
    /\ {paused, forgePaused} \subseteq BOOLEAN
    /\ protocolSwapFee \in ProtocolFee /\ interestUpdateRateDelta \in Delta

PoolOK ==
    /\ xytBalance \in 0..MAX_TOKEN_RESERVE_BALANCE
    /\ tokenBalance \in 0..MAX_TOKEN_RESERVE_BALANCE
    /\ xytWeight \in 0..RONE
    /\ lastCurveShiftBlock \in Nat

FeeOK == lastParamK \in Nat /\ paramKBefore \in Nat

LpOK == balanceOf \in [Holder -> Nat] /\ totalSupply \in Nat

InterestOK ==
    /\ accrued \in Nat /\ yieldHeld \in Nat /\ wallet \in [Holder -> Nat]
    /\ paramL \in Nat /\ lastParamL \in [Holder -> Nat]
    /\ dueInterests \in [Holder -> Nat]
    /\ lastNYield \in Nat /\ globalLastExchangeRate \in Nat

ClockOK == now \in 0..MaxTime /\ rate \in Nat \ {0} /\ bootstrapped \in BOOLEAN

(* A bootstrapped market has reserves, and an exchange rate to compare with. *)
Begun ==
    bootstrapped =>
        /\ xytBalance \in Reserve /\ tokenBalance \in Reserve
        /\ globalLastExchangeRate # 0

IInv == ClockOK /\ SettingOK /\ PoolOK /\ FeeOK /\ LpOK /\ InterestOK /\ Begun

LEMMA TypeParts == Assumptions /\ IInv => TypeOK
BY DEF Assumptions, NumberAssumption, IInv, ClockOK, SettingOK, PoolOK, FeeOK, LpOK,
       InterestOK, TypeOK

(* What the assumptions say of the numbers. *)
LEMMA Numbers ==
    ASSUME Assumptions
    PROVE  /\ RONE \in Nat \ {0} /\ MULTIPLIER \in Nat \ {0} /\ FirstRate \in Nat \ {0}
           /\ MINIMUM_LIQUIDITY \in Nat \ {0} /\ MAX_TOKEN_RESERVE_BALANCE \in Nat \ {0}
           /\ LockStartTime \in Nat /\ CurveShiftBlockDelta \in Nat
           /\ MaxRate \in Nat /\ MaxTime \in Nat
           /\ Amount \subseteq Nat /\ Out \subseteq Nat /\ LpAmount \subseteq Nat
           /\ Income \subseteq Nat
           /\ ProtocolFee \subseteq 0..RONE /\ Delta \subseteq Nat
           /\ MinHolder \in Holder /\ Treasury \in Holder /\ User \subseteq Holder
BY DEF Assumptions, NumberAssumption, SettingAssumption, Holder

-----------------------------------------------------------------------------
(* The accumulator.                                                        *)
LEMMA NewParamLType ==
    ASSUME Assumptions, IInv, NeedUpdateParamL => ParamR >= 0
    PROVE  NewParamL \in Nat /\ NewNYield \in Nat /\ CurrentNYield \in Nat
<1> USE Numbers
<1>1. CurrentNYield \in Nat /\ paramL \in Nat /\ totalSupply \in Nat /\ lastNYield \in Nat
  BY DEF IInv, InterestOK, LpOK, CurrentNYield
<1>2. NewNYield \in Nat
  BY <1>1 DEF NewNYield
<1>3. ASSUME NeedUpdateParamL, totalSupply # 0
      PROVE  (ParamR * MULTIPLIER) \div totalSupply \in Nat
  <2>1. ParamR \in Nat
    BY <1>1, <1>3 DEF ParamR
  <2>2. ParamR * MULTIPLIER \in Nat
    BY <2>1, ProductOfNats
  <2> QED BY <1>1, <1>3, <2>2, DivisionDef
<1>4. NewParamL \in Nat
  BY <1>1, <1>3 DEF NewParamL
<1> QED BY <1>1, <1>2, <1>4

LEMMA SettledDueType ==
    ASSUME Assumptions, IInv, NEW h \in Holder, NEW L \in Nat, lastParamL[h] <= L
    PROVE  SettledDue(h, L) \in Nat
<1>1. balanceOf[h] \in Nat /\ lastParamL[h] \in Nat /\ dueInterests[h] \in Nat
  BY DEF IInv, InterestOK, LpOK
<1>2. balanceOf[h] * (L - lastParamL[h]) \in Nat
  <2>1. L - lastParamL[h] \in Nat
    BY <1>1
  <2> QED BY <1>1, <2>1, ProductOfNats
<1>3. (balanceOf[h] * (L - lastParamL[h])) \div MULTIPLIER \in Nat
  BY <1>2, DivisionDef, Numbers
<1> QED BY <1>1, <1>3 DEF SettledDue, InterestFromLp

(* After the hook the rate it remembers is the current one, or one that    *)
(* the current one exceeds by no more than the delta.                      *)
LossBounded(glob) == rdiv(rate, glob) - RONE <= interestUpdateRateDelta

LEMMA UpdateParamLType ==
    ASSUME Assumptions, IInv, bootstrapped, NEW due \in Nat, UpdateParamL(due)
    PROVE  /\ paramL' \in Nat /\ lastNYield' \in Nat
           /\ accrued' \in Nat /\ yieldHeld' \in Nat
           /\ yieldHeld' + accrued' <= CurrentNYield
           /\ globalLastExchangeRate' \in Nat \ {0}
           /\ LossBounded(globalLastExchangeRate')
<1> USE Numbers
<1>1. /\ accrued \in Nat /\ yieldHeld \in Nat /\ lastNYield \in Nat /\ rate \in Nat \ {0}
      /\ globalLastExchangeRate \in Nat \ {0} /\ interestUpdateRateDelta \in Nat
  BY DEF IInv, InterestOK, ClockOK, SettingOK, Begun
<1>2. NewParamL \in Nat /\ NewNYield \in Nat /\ CurrentNYield \in Nat
  BY NewParamLType DEF UpdateParamL
<1>3. paramL' \in Nat /\ lastNYield' \in Nat
  BY <1>2 DEF UpdateParamL
<1>4. accrued' \in Nat /\ yieldHeld' \in Nat /\ yieldHeld' + accrued' <= CurrentNYield
  BY <1>1 DEF UpdateParamL, CurrentNYield
<1>5. globalLastExchangeRate' \in Nat \ {0}
  BY <1>1 DEF UpdateParamL
<1>6. LossBounded(globalLastExchangeRate')
  <2>1. CASE NeedUpdateParamL
    <3>1. globalLastExchangeRate' = rate
      BY <2>1 DEF UpdateParamL
    <3>2. rdiv(rate, rate) = RONE
      BY <1>1, RdivSelf
    <3> QED BY <1>1, <3>1, <3>2 DEF LossBounded
  <2>2. CASE ~NeedUpdateParamL
    <3>1. globalLastExchangeRate' = globalLastExchangeRate
      BY <2>2 DEF UpdateParamL
    <3>2. rdiv(rate, globalLastExchangeRate) \in Int
      <4>1. rate * RONE + globalLastExchangeRate \div 2 \in Nat
        <5>1. globalLastExchangeRate \div 2 \in Nat
          BY <1>1, DivisionDef
        <5>2. rate * RONE \in Nat
          BY <1>1, ProductOfNats
        <5> QED BY <5>1, <5>2
      <4> QED BY <1>1, <4>1, DivisionDef DEF rdiv
    <3> QED BY <1>1, <2>2, <3>1, <3>2 DEF LossBounded, NeedUpdateParamL
  <2> QED BY <2>1, <2>2
<1> QED BY <1>3, <1>4, <1>5, <1>6

LEMMA SettleType ==
    ASSUME Assumptions, IInv, bootstrapped, NEW S \in SUBSET Holder, Settle(S)
    PROVE  /\ InterestOK' /\ globalLastExchangeRate' # 0
           /\ S # {} => LossBounded(globalLastExchangeRate')
<1>1. CASE S = {}
  BY <1>1 DEF Settle, interestVars, fundVars, IInv, InterestOK, Begun
<1>2. CASE S # {}
  <2>1. /\ UpdateParamL(0) /\ UNCHANGED wallet
        /\ \A h \in S : lastParamL[h] <= NewParamL
        /\ lastParamL' = [h \in Holder |-> IF h \in S THEN NewParamL ELSE lastParamL[h]]
        /\ dueInterests' =
             [h \in Holder |-> IF h \in S THEN SettledDue(h, NewParamL) ELSE dueInterests[h]]
    BY <1>2 DEF Settle
  <2>2. NewParamL \in Nat
    BY <2>1, NewParamLType DEF UpdateParamL
  <2>3. lastParamL' \in [Holder -> Nat]
    BY <2>1, <2>2 DEF IInv, InterestOK
  <2>4. dueInterests' \in [Holder -> Nat]
    <3>1. \A h \in S : SettledDue(h, NewParamL) \in Nat
      BY <2>1, <2>2, SettledDueType
    <3> QED BY <2>1, <3>1 DEF IInv, InterestOK
  <2>5. wallet' \in [Holder -> Nat]
    BY <2>1 DEF IInv, InterestOK
  <2>6. /\ paramL' \in Nat /\ lastNYield' \in Nat /\ accrued' \in Nat /\ yieldHeld' \in Nat
        /\ globalLastExchangeRate' \in Nat \ {0} /\ LossBounded(globalLastExchangeRate')
    BY <2>1, UpdateParamLType
  <2> QED BY <2>3, <2>4, <2>5, <2>6 DEF InterestOK
<1> QED BY <1>1, <1>2

-----------------------------------------------------------------------------
(* Fees and the pool.                                                      *)
LEMMA ParamKType ==
    ASSUME Assumptions, NEW x \in Reserve, NEW t \in Reserve, NEW w \in 0..RONE
    PROVE  ParamK(x, t, w) \in Nat
BY DEF Assumptions, FormulaAssumption

LEMMA FeeLiquidityType ==
    ASSUME Assumptions, IInv, bootstrapped
    PROVE  FeeLiquidity \in Nat /\ CurrentParamK \in Nat
<1> USE Numbers
<1>1. CurrentParamK \in Nat
  BY ParamKType DEF CurrentParamK, IInv, PoolOK, Begun
<1>2. /\ lastParamK \in Nat /\ totalSupply \in Nat
      /\ protocolSwapFee \in Nat /\ protocolSwapFee <= RONE
  BY DEF IInv, FeeOK, LpOK, SettingOK
<1>3. CASE protocolSwapFee = 0 \/ lastParamK = 0 \/ CurrentParamK <= lastParamK
  BY <1>1, <1>3 DEF FeeLiquidity
<1>4. CASE ~(protocolSwapFee = 0 \/ lastParamK = 0 \/ CurrentParamK <= lastParamK)
  <2> DEFINE num == totalSupply * (CurrentParamK - lastParamK)
             part == ((RONE - protocolSwapFee) * CurrentParamK) \div protocolSwapFee
  <2>1. num \in Nat
    <3>1. CurrentParamK - lastParamK \in Nat
      BY <1>1, <1>2, <1>4
    <3> QED BY <1>2, <3>1, ProductOfNats
  <2>2. part \in Nat
    <3>1. RONE - protocolSwapFee \in Nat
      BY <1>2
    <3>2. (RONE - protocolSwapFee) * CurrentParamK \in Nat
      BY <1>1, <3>1, ProductOfNats
    <3> QED BY <1>2, <1>4, <3>2, DivisionDef
  <2>3. FeeLiquidity = num \div (part + lastParamK)
    BY <1>4 DEF FeeLiquidity
  <2> HIDE DEF num, part
  <2>4. part + lastParamK \in Nat \ {0}
    BY <1>2, <1>4, <2>2
  <2> QED BY <1>1, <2>1, <2>3, <2>4, DivisionDef
<1> QED BY <1>1, <1>3, <1>4

LEMMA ShiftedWeightType ==
    ASSUME Assumptions, IInv
    PROVE  ShiftedWeight \in 0..RONE
BY DEF Assumptions, FormulaAssumption, IInv, ClockOK, PoolOK, ShiftedWeight

LEMMA CurveShiftType ==
    ASSUME Assumptions, IInv, CurveShift
    PROVE  xytWeight' \in 0..RONE /\ lastCurveShiftBlock' \in Nat
BY ShiftedWeightType, Numbers DEF CurveShift, IInv, ClockOK, PoolOK

LEMMA WriteReserveDataType ==
    ASSUME Assumptions, NEW x, NEW t, WriteReserveData(x, t)
    PROVE  /\ xytBalance' \in Reserve /\ tokenBalance' \in Reserve
           /\ xytBalance' \in 0..MAX_TOKEN_RESERVE_BALANCE
           /\ tokenBalance' \in 0..MAX_TOKEN_RESERVE_BALANCE
BY Numbers DEF WriteReserveData, Reserve

LEMMA UpdateLastParamKType ==
    ASSUME Assumptions, UpdateLastParamK,
           xytBalance' \in Reserve, tokenBalance' \in Reserve, xytWeight' \in 0..RONE
    PROVE  FeeOK'
BY ParamKType DEF UpdateLastParamK, FeeOK

(* The LP after the fee and what is minted, or burnt. *)
LEMMA MintLpType ==
    ASSUME Assumptions, IInv, bootstrapped, NEW h \in Holder, NEW minted \in Int,
           balanceOf[h] + minted >= 0, MintLp(h, minted)
    PROVE  LpOK'
<1>1. FeeLiquidity \in Nat
  BY FeeLiquidityType
<1>2. balanceOf \in [Holder -> Nat] /\ totalSupply \in Nat
  BY DEF IInv, LpOK
<1>3. totalSupply' \in Nat
  BY <1>1, <1>2 DEF MintLp, SupplyWithFee
<1>4. balanceOf' \in [Holder -> Nat]
  BY <1>1, <1>2, Numbers DEF MintLp
<1> QED BY <1>3, <1>4 DEF LpOK

-----------------------------------------------------------------------------
(* What every operation on LP leaves behind. *)
Bounded == balanceOf' # balanceOf /\ bootstrapped => LossBounded(globalLastExchangeRate')

LEMMA FeePayeeType ==
    ASSUME Assumptions
    PROVE  FeePayee \in SUBSET Holder
BY Numbers DEF FeePayee

LEMMA InitInv == Assumptions /\ Init => IInv
<1> SUFFICES ASSUME Assumptions, Init PROVE IInv
  OBVIOUS
<1>1. ClockOK /\ Begun
  <2>1. now \in 0..MaxTime /\ rate \in Nat \ {0}
    BY Numbers DEF Init
  <2>2. bootstrapped = FALSE
    BY DEF Init
  <2> QED BY <2>1, <2>2 DEF ClockOK, Begun
<1>2. SettingOK
  BY DEF Init, SettingOK
<1>3. PoolOK
  BY Numbers DEF Init, PoolOK
<1>4. FeeOK /\ LpOK
  BY DEF Init, FeeOK, LpOK
<1>5. InterestOK
  BY DEF Init, InterestOK
<1> QED BY <1>1, <1>2, <1>3, <1>4, <1>5 DEF IInv

LEMMA BootstrapInv ==
    ASSUME Assumptions, IInv, NEW u \in User, NEW xyt \in Amount, NEW token \in Amount,
           NEW lp \in Reserve, Bootstrap(u, xyt, token, lp)
    PROVE  IInv' /\ Bounded
<1> USE Numbers
<1>1. /\ xytBalance' \in Reserve /\ tokenBalance' \in Reserve
      /\ xytBalance' \in 0..MAX_TOKEN_RESERVE_BALANCE
      /\ tokenBalance' \in 0..MAX_TOKEN_RESERVE_BALANCE
  BY WriteReserveDataType DEF Bootstrap
<1>2. xytWeight' \in 0..RONE
  <2>1. RONE \div 2 \in 0..RONE
    OBVIOUS
  <2> QED BY <2>1 DEF Bootstrap
<1>3. PoolOK'
  BY <1>1, <1>2 DEF PoolOK, Bootstrap, IInv, ClockOK
<1>4. FeeOK'
  BY <1>1, <1>2, UpdateLastParamKType DEF Bootstrap
<1>5. LpOK'
  <2>1. lp \in Nat /\ lp - MINIMUM_LIQUIDITY \in Nat
    BY DEF Bootstrap, Reserve
  <2> QED BY <2>1 DEF LpOK, Bootstrap, IInv
<1>6. InterestOK' /\ globalLastExchangeRate' # 0
  BY DEF InterestOK, Bootstrap, IInv, ClockOK, fundVars
<1>7. ClockOK' /\ SettingOK'
  BY DEF ClockOK, SettingOK, Bootstrap, IInv, pauseVars, settingVars
<1>8. Bounded
  BY DEF Bounded, Bootstrap
<1> QED BY <1>1, <1>3, <1>4, <1>5, <1>6, <1>7, <1>8 DEF IInv, Begun

(* Adding and removing both sides: the weights stay. *)
LEMMA DualInv ==
    ASSUME Assumptions, IInv, bootstrapped, NEW u \in User, NEW xyt, NEW token,
           NEW minted \in Int, balanceOf[u] + minted >= 0,
           Settle(FeePayee \cup {u}), WriteReserveData(xyt, token),
           UNCHANGED <<xytWeight, lastCurveShiftBlock>>, UpdateLastParamK, MintLp(u, minted),
           UNCHANGED <<now, pauseVars, settingVars, rate, bootstrapped>>
    PROVE  IInv' /\ Bounded
<1>1. FeePayee \cup {u} \in SUBSET Holder /\ u \in Holder
  BY FeePayeeType, Numbers
<1>2. InterestOK' /\ globalLastExchangeRate' # 0 /\ LossBounded(globalLastExchangeRate')
  BY <1>1, SettleType
<1>3. /\ xytBalance' \in Reserve /\ tokenBalance' \in Reserve
      /\ xytBalance' \in 0..MAX_TOKEN_RESERVE_BALANCE
      /\ tokenBalance' \in 0..MAX_TOKEN_RESERVE_BALANCE
  BY WriteReserveDataType
<1>4. PoolOK'
  BY <1>3 DEF PoolOK, IInv
<1>5. FeeOK'
  BY <1>3, UpdateLastParamKType DEF IInv, PoolOK
<1>6. LpOK'
  BY <1>1, MintLpType
<1>7. ClockOK' /\ SettingOK'
  BY DEF ClockOK, SettingOK, IInv, pauseVars, settingVars
<1> QED BY <1>2, <1>3, <1>4, <1>5, <1>6, <1>7 DEF IInv, Begun, Bounded

(* Adding and removing one side: the weights may be shifted. *)
LEMMA SingleInv ==
    ASSUME Assumptions, IInv, bootstrapped, NEW u \in User, NEW xyt, NEW token,
           NEW minted \in Int, balanceOf[u] + minted >= 0,
           Settle(FeePayee \cup {u}), WriteReserveData(xyt, token),
           CurveShift, UpdateLastParamK, MintLp(u, minted),
           UNCHANGED <<now, pauseVars, settingVars, rate, bootstrapped>>
    PROVE  IInv' /\ Bounded
<1>1. FeePayee \cup {u} \in SUBSET Holder /\ u \in Holder
  BY FeePayeeType, Numbers
<1>2. InterestOK' /\ globalLastExchangeRate' # 0 /\ LossBounded(globalLastExchangeRate')
  BY <1>1, SettleType
<1>3. /\ xytBalance' \in Reserve /\ tokenBalance' \in Reserve
      /\ xytBalance' \in 0..MAX_TOKEN_RESERVE_BALANCE
      /\ tokenBalance' \in 0..MAX_TOKEN_RESERVE_BALANCE
  BY WriteReserveDataType
<1>4. xytWeight' \in 0..RONE /\ lastCurveShiftBlock' \in Nat
  BY CurveShiftType
<1>5. PoolOK'
  BY <1>3, <1>4 DEF PoolOK
<1>6. FeeOK'
  BY <1>3, <1>4, UpdateLastParamKType
<1>7. LpOK'
  BY <1>1, MintLpType
<1>8. ClockOK' /\ SettingOK'
  BY DEF ClockOK, SettingOK, IInv, pauseVars, settingVars
<1> QED BY <1>2, <1>3, <1>5, <1>6, <1>7, <1>8 DEF IInv, Begun, Bounded

LEMMA AddDualInv ==
    ASSUME Assumptions, IInv, NEW u \in User, NEW xyt \in Amount, NEW token \in Amount,
           AddMarketLiquidityDual(u, xyt, token)
    PROVE  IInv' /\ Bounded
<1> USE Numbers
<1> DEFINE used == DualIn(xyt, token)
<1>1. bootstrapped
  BY DEF AddMarketLiquidityDual, Allowed
<1>2. /\ xyt \in Nat /\ token \in Nat /\ SupplyWithFee \in Nat
      /\ xytBalance \in Nat \ {0} /\ tokenBalance \in Nat \ {0}
  BY <1>1, FeeLiquidityType DEF SupplyWithFee, IInv, LpOK, Begun, Reserve
<1>3. used.lp \in Nat
  <2>1. xyt * SupplyWithFee \in Nat /\ token * SupplyWithFee \in Nat
    BY <1>2, ProductOfNats
  <2>2. /\ (xyt * SupplyWithFee) \div xytBalance \in Nat
        /\ (token * SupplyWithFee) \div tokenBalance \in Nat
    BY <1>2, <2>1, DivisionDef
  <2>3. \/ used.lp = (xyt * SupplyWithFee) \div xytBalance
        \/ used.lp = (token * SupplyWithFee) \div tokenBalance
    BY DEF DualIn
  <2> QED BY <2>2, <2>3
<1>4. balanceOf[u] + used.lp >= 0
  BY <1>3 DEF IInv, LpOK
<1> DEFINE x == xytBalance + used.xyt
           t == tokenBalance + used.token
           minted == used.lp
<1>5. /\ Settle(FeePayee \cup {u}) /\ WriteReserveData(x, t)
      /\ UNCHANGED <<xytWeight, lastCurveShiftBlock>>
      /\ UpdateLastParamK
      /\ MintLp(u, minted)
      /\ UNCHANGED <<now, pauseVars, settingVars, rate, bootstrapped>>
  BY DEF AddMarketLiquidityDual
<1>6. minted \in Int /\ balanceOf[u] + minted >= 0
  BY <1>3, <1>4
<1> HIDE DEF used, x, t, minted
<1> QED BY <1>1, <1>5, <1>6, DualInv

LEMMA RemoveDualInv ==
    ASSUME Assumptions, IInv, NEW u \in User, NEW lp \in LpAmount,
           RemoveMarketLiquidityDual(u, lp)
    PROVE  IInv' /\ Bounded
<1> USE Numbers
<1> DEFINE xytOut == (lp * xytBalance) \div SupplyWithFee
           tokenOut == (lp * tokenBalance) \div SupplyWithFee
<1>1. bootstrapped /\ lp <= balanceOf[u]
  BY DEF RemoveMarketLiquidityDual, Allowed
<1>2. -lp \in Int /\ balanceOf[u] + (-lp) >= 0
  BY <1>1 DEF IInv, LpOK
<1>3. /\ Settle(FeePayee \cup {u})
      /\ WriteReserveData(xytBalance - xytOut, tokenBalance - tokenOut)
      /\ UNCHANGED <<xytWeight, lastCurveShiftBlock>>
      /\ UpdateLastParamK
      /\ MintLp(u, -lp)
      /\ UNCHANGED <<now, pauseVars, settingVars, rate, bootstrapped>>
  BY DEF RemoveMarketLiquidityDual
<1> HIDE DEF xytOut, tokenOut
<1> QED BY <1>1, <1>2, <1>3, DualInv

LEMMA AddSingleInv ==
    ASSUME Assumptions, IInv, NEW u \in User, NEW xyt, NEW token, NEW lp \in LpAmount,
           AddMarketLiquiditySingle(u, xyt, token, lp)
    PROVE  IInv' /\ Bounded
<1>1. bootstrapped
  BY DEF AddMarketLiquiditySingle, Allowed
<1>2. lp \in Int /\ balanceOf[u] + lp >= 0
  BY Numbers DEF IInv, LpOK
<1>3. /\ Settle(FeePayee \cup {u})
      /\ WriteReserveData(xytBalance + xyt, tokenBalance + token)
      /\ CurveShift /\ UpdateLastParamK /\ MintLp(u, lp)
      /\ UNCHANGED <<now, pauseVars, settingVars, rate, bootstrapped>>
  BY DEF AddMarketLiquiditySingle
<1> QED BY <1>1, <1>2, <1>3, SingleInv

LEMMA RemoveSingleInv ==
    ASSUME Assumptions, IInv, NEW u \in User, NEW xyt, NEW token, NEW lp \in LpAmount,
           RemoveMarketLiquiditySingle(u, xyt, token, lp)
    PROVE  IInv' /\ Bounded
<1>1. bootstrapped /\ lp <= balanceOf[u]
  BY DEF RemoveMarketLiquiditySingle, Allowed
<1>2. -lp \in Int /\ balanceOf[u] + (-lp) >= 0
  BY <1>1, Numbers DEF IInv, LpOK
<1>3. /\ Settle(FeePayee \cup {u})
      /\ WriteReserveData(xytBalance - xyt, tokenBalance - token)
      /\ CurveShift /\ UpdateLastParamK /\ MintLp(u, -lp)
      /\ UNCHANGED <<now, pauseVars, settingVars, rate, bootstrapped>>
  BY DEF RemoveMarketLiquiditySingle
<1> QED BY <1>1, <1>2, <1>3, SingleInv

(* A swap moves LP only as a fee, and then the treasury was settled. *)
LEMMA SwapInv ==
    ASSUME Assumptions, IInv, NEW xyt, NEW token, Swap(xyt, token)
    PROVE  IInv' /\ Bounded
<1>1. bootstrapped /\ CurveShift /\ WriteReserveData(xytBalance + xyt, tokenBalance + token)
  BY DEF Swap, Allowed, SwapBy
<1>2. /\ xytBalance' \in Reserve /\ tokenBalance' \in Reserve
      /\ xytBalance' \in 0..MAX_TOKEN_RESERVE_BALANCE
      /\ tokenBalance' \in 0..MAX_TOKEN_RESERVE_BALANCE
  BY <1>1, WriteReserveDataType
<1>3. PoolOK'
  BY <1>1, <1>2, CurveShiftType DEF PoolOK
<1>4. ClockOK' /\ SettingOK'
  BY DEF ClockOK, SettingOK, IInv, Swap, pauseVars, settingVars
<1>5. CASE NeedCurveShift
  <2> DEFINE k == ParamK(xytBalance, tokenBalance, ShiftedWeight)
  <2>1. /\ Settle(FeePayee) /\ MintLp(Treasury, 0)
        /\ lastParamK' = (IF protocolSwapFee = 0 THEN 0 ELSE k)
        /\ paramKBefore' = k
    BY <1>5 DEF Swap
  <2>2. InterestOK' /\ globalLastExchangeRate' # 0
        /\ (FeePayee # {} => LossBounded(globalLastExchangeRate'))
    BY <1>1, <2>1, FeePayeeType, SettleType
  <2>3. k \in Nat
    BY <1>1, ShiftedWeightType, ParamKType DEF IInv, Begun
  <2> HIDE DEF k
  <2>4. FeeOK'
    BY <2>1, <2>3 DEF FeeOK
  <2>5. Treasury \in Holder /\ balanceOf[Treasury] + 0 >= 0
    BY Numbers DEF IInv, LpOK
  <2>6. LpOK'
    BY <1>1, <2>1, <2>5, MintLpType
  <2>7. FeePayee = {} => balanceOf' = balanceOf
    <3>1. FeePayee = {} => FeeLiquidity = 0
      BY <1>1, FeeLiquidityType DEF FeePayee
    <3> QED BY <2>1, <2>5, <3>1 DEF MintLp, IInv, LpOK
  <2>8. Bounded
    BY <2>2, <2>7 DEF Bounded
  <2> QED BY <1>2, <1>3, <1>4, <2>2, <2>4, <2>6, <2>8 DEF IInv, Begun
<1>6. CASE ~NeedCurveShift
  <2>1. UNCHANGED <<interestVars, fundVars, feeVars, lpVars>>
    BY <1>6 DEF Swap
  <2>2. InterestOK' /\ FeeOK' /\ LpOK' /\ Bounded /\ globalLastExchangeRate' # 0
    BY <1>1, <2>1 DEF interestVars, fundVars, feeVars, lpVars, IInv, Begun, Bounded,
                      InterestOK, FeeOK, LpOK
  <2> QED BY <1>2, <1>3, <1>4, <2>2 DEF IInv, Begun
<1> QED BY <1>5, <1>6

LEMMA TransferLpInv ==
    ASSUME Assumptions, IInv, NEW from \in User, NEW to \in Holder, NEW amount \in LpAmount,
           TransferLp(from, to, amount)
    PROVE  IInv' /\ Bounded
<1> USE Numbers
<1>1. bootstrapped /\ Settle({from, to}) /\ {from, to} \in SUBSET Holder /\ {from, to} # {}
  BY DEF TransferLp
<1>2. InterestOK' /\ globalLastExchangeRate' # 0 /\ LossBounded(globalLastExchangeRate')
  BY <1>1, SettleType
<1>3. LpOK'
  BY DEF TransferLp, IInv, LpOK
<1>4. ClockOK' /\ SettingOK' /\ PoolOK' /\ FeeOK'
  BY DEF TransferLp, IInv, ClockOK, SettingOK, PoolOK, FeeOK, pauseVars, settingVars,
         poolVars, feeVars
<1> QED BY <1>2, <1>3, <1>4 DEF IInv, Begun, Bounded, TransferLp, poolVars

LEMMA RedeemLpInterestsInv ==
    ASSUME Assumptions, IInv, NEW h \in Holder, RedeemLpInterests(h)
    PROVE  IInv' /\ Bounded
<1> DEFINE due == SettledDue(h, NewParamL)
<1>1. /\ bootstrapped /\ lastParamL[h] <= NewParamL /\ UpdateParamL(due)
      /\ lastParamL' = [lastParamL EXCEPT ![h] = NewParamL]
      /\ dueInterests' = [dueInterests EXCEPT ![h] = 0]
      /\ wallet' = [wallet EXCEPT ![h] = @ + CurrentNYield - (yieldHeld' + accrued')]
  BY DEF RedeemLpInterests, Allowed
<1>2. NewParamL \in Nat /\ CurrentNYield \in Nat
  BY <1>1, NewParamLType DEF UpdateParamL
<1>3. due \in Nat
  BY <1>1, <1>2, SettledDueType
<1> HIDE DEF due
<1>4. /\ paramL' \in Nat /\ lastNYield' \in Nat /\ accrued' \in Nat /\ yieldHeld' \in Nat
      /\ yieldHeld' + accrued' <= CurrentNYield /\ globalLastExchangeRate' \in Nat \ {0}
  BY <1>1, <1>3, UpdateParamLType
<1>5. wallet' \in [Holder -> Nat]
  <2>1. wallet \in [Holder -> Nat]
    BY DEF IInv, InterestOK
  <2>2. wallet[h] + CurrentNYield - (yieldHeld' + accrued') \in Nat
    <3> DEFINE n == CurrentNYield
               y == yieldHeld'
               a == accrued'
               w == wallet[h]
    <3>1. w \in Nat /\ n \in Nat /\ y \in Nat /\ a \in Nat /\ y + a <= n
      BY <1>2, <1>4, <2>1
    <3> HIDE DEF n, y, a, w
    <3>2. w + n - (y + a) \in Nat
      BY <3>1
    <3> QED BY <3>2 DEF n, y, a, w
  <2> QED BY <1>1, <2>1, <2>2
<1>6. InterestOK'
  BY <1>1, <1>2, <1>4, <1>5 DEF InterestOK, IInv
<1>7. ClockOK' /\ SettingOK' /\ PoolOK' /\ FeeOK' /\ LpOK' /\ Bounded
  BY DEF RedeemLpInterests, IInv, ClockOK, SettingOK, PoolOK, FeeOK, LpOK, pauseVars,
         settingVars, poolVars, feeVars, lpVars, Bounded
<1> QED BY <1>4, <1>6, <1>7 DEF IInv, Begun, RedeemLpInterests, poolVars

-----------------------------------------------------------------------------
LEMMA RateRisesInv ==
    ASSUME Assumptions, IInv, NEW income \in Income, RateRises(income)
    PROVE  IInv' /\ Bounded
<1>1. ClockOK'
  BY DEF RateRises, IInv, ClockOK
<1>2. InterestOK'
  BY Numbers DEF RateRises, IInv, InterestOK, interestVars
<1>3. SettingOK' /\ PoolOK' /\ FeeOK' /\ LpOK' /\ Begun' /\ Bounded
  BY DEF RateRises, IInv, SettingOK, PoolOK, FeeOK, LpOK, Begun, Bounded, pauseVars,
         settingVars, poolVars, feeVars, lpVars, interestVars
<1> QED BY <1>1, <1>2, <1>3 DEF IInv

LEMMA RedeemDueInterestsInv ==
    ASSUME Assumptions, IInv, RedeemDueInterests
    PROVE  IInv' /\ Bounded
<1>1. InterestOK'
  BY DEF RedeemDueInterests, IInv, InterestOK, interestVars, CurrentNYield
<1>2. ClockOK' /\ SettingOK' /\ PoolOK' /\ FeeOK' /\ LpOK' /\ Begun' /\ Bounded
  BY DEF RedeemDueInterests, IInv, ClockOK, SettingOK, PoolOK, FeeOK, LpOK, Begun, Bounded,
         pauseVars, settingVars, poolVars, feeVars, lpVars, interestVars
<1> QED BY <1>1, <1>2 DEF IInv

(* Governance and the clock leave the market's own state alone. *)
LEMMA SurroundingsInv ==
    ASSUME Assumptions, IInv, ClockOK', SettingOK',
           UNCHANGED <<bootstrapped, fundVars, poolVars, feeVars, lpVars, interestVars>>
    PROVE  IInv' /\ Bounded
BY DEF IInv, PoolOK, FeeOK, LpOK, InterestOK, Begun, Bounded, fundVars, poolVars, feeVars,
       lpVars, interestVars

LEMMA NextInv == Assumptions /\ IInv /\ [Next]_vars => IInv' /\ Bounded
<1> SUFFICES ASSUME Assumptions, IInv, [Next]_vars PROVE IInv' /\ Bounded
  OBVIOUS
<1> USE Numbers
<1>1. ASSUME NEW u \in User, NEW xyt \in Amount, NEW token \in Amount, NEW lp \in Reserve,
             Bootstrap(u, xyt, token, lp)
      PROVE  IInv' /\ Bounded
  BY <1>1, BootstrapInv
<1>2. ASSUME NEW u \in User, NEW xyt \in Amount, NEW token \in Amount,
             AddMarketLiquidityDual(u, xyt, token)
      PROVE  IInv' /\ Bounded
  BY <1>2, AddDualInv
<1>3. ASSUME NEW u \in User, NEW a \in Amount, NEW lp \in LpAmount,
             AddMarketLiquiditySingle(u, a, 0, lp) \/ AddMarketLiquiditySingle(u, 0, a, lp)
      PROVE  IInv' /\ Bounded
  BY <1>3, AddSingleInv
<1>4. ASSUME NEW u \in User, NEW a \in Out, NEW lp \in LpAmount,
             \/ RemoveMarketLiquiditySingle(u, a, 0, lp)
             \/ RemoveMarketLiquiditySingle(u, 0, a, lp)
      PROVE  IInv' /\ Bounded
  BY <1>4, RemoveSingleInv
<1>5. ASSUME NEW u \in User, NEW lp \in LpAmount, RemoveMarketLiquidityDual(u, lp)
      PROVE  IInv' /\ Bounded
  BY <1>5, RemoveDualInv
<1>6. ASSUME NEW in \in Amount, NEW out \in Out, Swap(in, -out) \/ Swap(-out, in)
      PROVE  IInv' /\ Bounded
  BY <1>6, SwapInv
<1>7. ASSUME NEW from \in User, NEW to \in Holder, NEW amount \in LpAmount,
             TransferLp(from, to, amount)
      PROVE  IInv' /\ Bounded
  BY <1>7, TransferLpInv
<1>8. ASSUME NEW h \in Holder, RedeemLpInterests(h) PROVE IInv' /\ Bounded
  BY <1>8, RedeemLpInterestsInv
<1>9. ASSUME NEW market \in BOOLEAN, NEW itsForge \in BOOLEAN, SetPaused(market, itsForge)
      PROVE  IInv' /\ Bounded
  <2>1. ClockOK' /\ SettingOK'
    BY <1>9 DEF SetPaused, IInv, ClockOK, SettingOK, settingVars
  <2> QED BY <1>9, <2>1, SurroundingsInv DEF SetPaused
<1>10. ASSUME NEW fee \in ProtocolFee, SetMarketFees(fee) PROVE IInv' /\ Bounded
  <2>1. ClockOK' /\ SettingOK'
    BY <1>10 DEF SetMarketFees, IInv, ClockOK, SettingOK, pauseVars
  <2> QED BY <1>10, <2>1, SurroundingsInv DEF SetMarketFees
<1>11. ASSUME NEW d \in Delta, SetInterestUpdateRateDelta(d) PROVE IInv' /\ Bounded
  <2>1. ClockOK' /\ SettingOK'
    BY <1>11 DEF SetInterestUpdateRateDelta, IInv, ClockOK, SettingOK, pauseVars
  <2> QED BY <1>11, <2>1, SurroundingsInv DEF SetInterestUpdateRateDelta
<1>12. ASSUME NEW income \in Income, RateRises(income) PROVE IInv' /\ Bounded
  BY <1>12, RateRisesInv
<1>13. CASE RedeemDueInterests
  BY <1>13, RedeemDueInterestsInv
<1>14. CASE NextBlock
  <2>1. ClockOK' /\ SettingOK'
    BY <1>14 DEF NextBlock, IInv, ClockOK, SettingOK, pauseVars, settingVars
  <2> QED BY <1>14, <2>1, SurroundingsInv DEF NextBlock
<1>15. CASE UNCHANGED vars
  <2>1. ClockOK' /\ SettingOK'
    BY <1>15 DEF vars, IInv, ClockOK, SettingOK, pauseVars, settingVars
  <2> QED BY <1>15, <2>1, SurroundingsInv DEF vars
<1> QED BY <1>1, <1>2, <1>3, <1>4, <1>5, <1>6, <1>7, <1>8, <1>9, <1>10, <1>11, <1>12, <1>13,
           <1>14, <1>15 DEF Next

(* Under its assumptions the market keeps its types: no balance, reserve   *)
(* or accumulator leaves the naturals (PendleMarketBase.sol).              *)
THEOREM MarketTypeOK ==
    ASSUME Assumptions
    PROVE  Spec => []TypeOK
<1>1. Init => IInv
  BY InitInv
<1>2. IInv /\ [Next]_vars => IInv'
  BY NextInv
<1>3. IInv => TypeOK
  BY TypeParts
<1> QED BY <1>1, <1>2, <1>3, PTL DEF Spec

(* Whatever the delta, the rates, the fees and the formulas are, whenever  *)
(* LP is minted, burnt or transferred all but the last rise of the         *)
(* exchange rate, of at most the delta, has been shared out                *)
(* (PendleMarketBase.sol:707-740).                                         *)
THEOREM LossStaysWithinDelta ==
    ASSUME Assumptions
    PROVE  Spec => LossIsWithinDelta
<1>1. Init => IInv
  BY InitInv
<1>2. IInv /\ [Next]_vars => IInv'
  BY NextInv
<1>3. IInv /\ [Next]_vars =>
        [balanceOf' # balanceOf /\ bootstrapped =>
          rdiv(rate, globalLastExchangeRate') - RONE <= interestUpdateRateDelta]_vars
  BY NextInv DEF Bounded, LossBounded
<1> QED BY <1>1, <1>2, <1>3, PTL DEF Spec, LossIsWithinDelta

-----------------------------------------------------------------------------
(* What LPs are owed is covered.  The sums over the holders in             *)
(* LpInterestsCovered are one sum, of what each is owed at a paramL,       *)
(* scaled up by MULTIPLIER.                                                *)
OwedAt(L) ==
    [h \in Holder |-> MULTIPLIER * dueInterests[h]
                        + (IF lastParamL[h] = 0 THEN 0 ELSE balanceOf[h] * (L - lastParamL[h]))]

(* Nobody is settled at a paramL to come, and nobody has anything before   *)
(* the bootstrap.                                                          *)
NobodyAhead == \A h \in Holder : lastParamL[h] <= paramL

NothingYet == ~bootstrapped => \A h \in Holder : balanceOf[h] = 0 /\ dueInterests[h] = 0

CInv ==
    /\ IInv /\ NobodyAhead /\ NothingYet
    /\ totalSupply = SumIn(balanceOf, Holder)
    /\ SumIn(OwedAt(paramL), Holder) <= MULTIPLIER * lastNYield
    /\ lastNYield <= yieldHeld

LEMMA HoldersFinite == Assumptions => IsFiniteSet(Holder)
<1> SUFFICES ASSUME Assumptions PROVE IsFiniteSet(Holder)
  OBVIOUS
<1>1. IsFiniteSet(User)
  BY DEF Assumptions, HolderAssumption
<1>2. IsFiniteSet(User \cup {MinHolder})
  BY <1>1, FS_AddElement
<1>3. IsFiniteSet((User \cup {MinHolder}) \cup {Treasury})
  BY <1>2, FS_AddElement
<1>4. Holder = (User \cup {MinHolder}) \cup {Treasury}
  BY DEF Holder
<1> QED
  BY <1>3, <1>4

LEMMA HolderFacts ==
    ASSUME Assumptions, IInv, NEW h \in Holder
    PROVE  /\ balanceOf[h] \in Nat /\ lastParamL[h] \in Nat /\ dueInterests[h] \in Nat
           /\ MULTIPLIER \in Nat \ {0} /\ paramL \in Nat
BY Numbers DEF IInv, LpOK, InterestOK

LEMMA OwedTyped ==
    ASSUME Assumptions, IInv, NobodyAhead, NEW L \in Nat, paramL <= L
    PROVE  /\ \A h \in Holder : OwedAt(L)[h] \in Nat
           /\ SumIn(OwedAt(L), Holder) \in Nat
<1>1. ASSUME NEW h \in Holder PROVE OwedAt(L)[h] \in Nat
  <2>1. PICK b \in Nat, l \in Nat, d \in Nat, m \in Nat :
           b = balanceOf[h] /\ l = lastParamL[h] /\ d = dueInterests[h] /\ m = MULTIPLIER
    BY HolderFacts
  <2>2. L - l \in Nat
    BY <2>1, HolderFacts DEF NobodyAhead
  <2>3. m * d \in Nat /\ b * (L - l) \in Nat
    BY <2>2, NatTimes
  <2> QED
    BY <2>1, <2>3 DEF OwedAt
<1>2. PICK f : f = OwedAt(L)
  OBVIOUS
<1>3. SumIn(f, Holder) \in Nat
  BY <1>1, <1>2, HoldersFinite, SumNat
<1> QED
  BY <1>1, <1>2, <1>3

(* Nobody is owed more by a rise of paramL than his LP times the rise.     *)
LEMMA OwedRises ==
    ASSUME Assumptions, IInv, NEW h \in Holder, NEW d \in Nat
    PROVE  OwedAt(paramL + d)[h] <= OwedAt(paramL)[h] + d * balanceOf[h]
<1>1. PICK a \in Int, b \in Nat, m \in Nat, p \in Nat :
         a = MULTIPLIER * dueInterests[h] /\ b = balanceOf[h] /\ m = lastParamL[h] /\ p = paramL
  <2>1. MULTIPLIER * dueInterests[h] \in Int
    <3>1. PICK x \in Nat, y \in Nat : x = MULTIPLIER /\ y = dueInterests[h]
      BY HolderFacts
    <3>2. x * y \in Int
      OBVIOUS
    <3> QED
      BY <3>1, <3>2
  <2> QED
    BY <2>1, HolderFacts
<1>2. /\ OwedAt(paramL + d)[h] = a + (IF m = 0 THEN 0 ELSE b * ((p + d) - m))
      /\ OwedAt(paramL)[h] = a + (IF m = 0 THEN 0 ELSE b * (p - m))
  BY <1>1 DEF OwedAt
<1>3. b * ((p + d) - m) = b * (p - m) + d * b /\ d * b \in Nat /\ b * (p - m) \in Int
  OBVIOUS
<1>4. a + (IF m = 0 THEN 0 ELSE b * ((p + d) - m)) <= a + (IF m = 0 THEN 0 ELSE b * (p - m)) + d * b
  BY <1>3
<1> QED
  BY <1>1, <1>2, <1>4

(* An update of paramL shares out no more than it records.                 *)
LEMMA UpdateCovered ==
    ASSUME Assumptions, CInv, NeedUpdateParamL => ParamR >= 0
    PROVE  /\ NewParamL \in Nat /\ NewNYield \in Nat /\ paramL <= NewParamL
           /\ SumIn(OwedAt(NewParamL), Holder) <= MULTIPLIER * NewNYield
<1>0. IInv /\ NobodyAhead
  BY DEF CInv
<1>1. PICK m \in Nat \ {0}, p \in Nat, s \in Nat, n \in Nat :
         /\ m = MULTIPLIER /\ p = paramL /\ s = totalSupply /\ n = lastNYield
  BY <1>0, Numbers DEF IInv, InterestOK, LpOK
<1>2. NewParamL \in Nat /\ NewNYield \in Nat /\ CurrentNYield \in Nat
  BY <1>0, NewParamLType
<1>3. SumIn(OwedAt(p), Holder) \in Nat /\ SumIn(OwedAt(p), Holder) <= m * n
  BY <1>0, <1>1, OwedTyped DEF CInv
<1>4. CASE ~NeedUpdateParamL
  BY <1>1, <1>2, <1>3, <1>4 DEF NewParamL, NewNYield
<1>5. CASE NeedUpdateParamL /\ s = 0
  <2>1. NewParamL = p /\ NewNYield = CurrentNYield /\ n <= CurrentNYield
    BY <1>1, <1>2, <1>5 DEF NewParamL, NewNYield, ParamR
  <2>2. PICK c \in Nat : c = CurrentNYield
    BY <1>2
  <2>3. m * n <= m * c
    BY <2>1, <2>2, CancelFactor
  <2>4. m * n \in Int /\ m * c \in Int
    OBVIOUS
  <2> QED
    BY <1>1, <1>2, <1>3, <2>1, <2>2, <2>3, <2>4
<1>6. CASE NeedUpdateParamL /\ s # 0
  <2>1. PICK r \in Nat : r = ParamR /\ CurrentNYield = n + r
    BY <1>1, <1>2, <1>6 DEF ParamR
  <2>2. PICK x \in Nat : x = r * m
    BY NatTimes, Zenon
  <2>3. PICK d \in Nat : d = x \div s /\ s * d <= x
    BY <1>6, DivisionDef
  <2>4. NewParamL = p + d /\ NewNYield = n + r
    BY <1>1, <1>6, <2>1, <2>2, <2>3 DEF NewParamL, NewNYield
  <2>5. PICK f, g, more, bound :
           /\ f = OwedAt(p) /\ g = OwedAt(p + d)
           /\ more = [h \in Holder |-> d * balanceOf[h]]
           /\ bound = [h \in Holder |-> f[h] + more[h]]
    OBVIOUS
  <2>6. \A h \in Holder : balanceOf[h] \in Int /\ more[h] = d * balanceOf[h]
    BY <1>0, <2>5, HolderFacts
  <2>7. \A h \in Holder : f[h] \in Int /\ more[h] \in Int /\ bound[h] = f[h] + more[h]
    <3> TAKE h \in Holder
    <3>1. f[h] \in Int
      BY <1>0, <1>1, <2>5, OwedTyped
    <3>2. PICK b \in Int : b = balanceOf[h]
      BY <2>6
    <3>3. d * b \in Int
      OBVIOUS
    <3> QED
      BY <2>5, <3>1, <3>2, <3>3
  <2>8. \A h \in Holder : g[h] \in Int /\ bound[h] \in Int /\ g[h] <= bound[h]
    <3> TAKE h \in Holder
    <3>1. g[h] \in Int
      <4>1. p + d \in Nat /\ paramL <= p + d
        BY <1>1
      <4>2. OwedAt(p + d)[h] \in Nat
        BY <1>0, <4>1, OwedTyped
      <4> QED
        BY <2>5, <4>2
    <3>2. g[h] <= f[h] + d * balanceOf[h]
      BY <1>0, <1>1, <2>5, OwedRises
    <3> QED
      BY <2>6, <2>7, <3>1, <3>2
  <2>9. IsFiniteSet(Holder) /\ d \in Int
    BY HoldersFinite
  <2>10. SumIn(g, Holder) <= SumIn(bound, Holder)
    BY ONLY <2>8, <2>9, SumMonotone
  <2>11. SumIn(bound, Holder) = SumIn(f, Holder) + SumIn(more, Holder)
    BY ONLY <2>7, <2>9, SumPlus
  <2>12. SumIn(more, Holder) = d * SumIn(balanceOf, Holder)
    BY ONLY <2>6, <2>9, SumTimes
  <2>13. SumIn(balanceOf, Holder) = s
    BY <1>1 DEF CInv
  <2>14. SumIn(more, Holder) <= x
    <3>1. d * s = s * d
      OBVIOUS
    <3> QED
      BY <2>3, <2>12, <2>13, <3>1
  <2>15. /\ SumIn(g, Holder) \in Int /\ SumIn(f, Holder) \in Int /\ SumIn(more, Holder) \in Int
    <3>1. Holder \in SUBSET Holder
      OBVIOUS
    <3>2. (\A h \in Holder : g[h] \in Int) /\ (\A h \in Holder : f[h] \in Int)
          /\ (\A h \in Holder : more[h] \in Int)
      BY <2>7, <2>8
    <3> QED
      BY <2>9, <3>1, <3>2, SumInt
  <2>16. m * (n + r) = m * n + x /\ m * n \in Int
    BY <2>2
  <2>17. SumIn(g, Holder) <= m * (n + r)
    BY <1>3, <2>5, <2>10, <2>11, <2>14, <2>15, <2>16
  <2> QED
    BY <1>1, <1>2, <2>4, <2>5, <2>17
<1> QED
  BY <1>4, <1>5, <1>6

(* Settling h at L leaves him no more than he was owed.                    *)
LEMMA SettledIsOwed ==
    ASSUME Assumptions, IInv, NobodyAhead, NEW h \in Holder, NEW L \in Nat, paramL <= L
    PROVE  SettledDue(h, L) \in Nat /\ MULTIPLIER * SettledDue(h, L) <= OwedAt(L)[h]
<1>1. PICK b \in Nat, l \in Nat, d \in Nat, m \in Nat \ {0} :
         b = balanceOf[h] /\ l = lastParamL[h] /\ d = dueInterests[h] /\ m = MULTIPLIER
  BY HolderFacts
<1>2. l <= L /\ L - l \in Nat
  BY <1>1, HolderFacts DEF NobodyAhead
<1>3. PICK x \in Nat : x = IF l = 0 THEN 0 ELSE b * (L - l)
  BY <1>2, NatTimes
<1>4. PICK q \in Nat : q = x \div m /\ m * q <= x
  BY DivisionDef
<1>5. SettledDue(h, L) = d + q
  <2>1. 0 \div m = 0
    OBVIOUS
  <2> QED
    BY <1>1, <1>3, <1>4, <2>1 DEF SettledDue, InterestFromLp
<1>6. OwedAt(L)[h] = m * d + x
  BY <1>1, <1>3 DEF OwedAt
<1>7. m * (d + q) = m * d + m * q /\ m * d \in Nat /\ m * q \in Nat
  OBVIOUS
<1> QED
  BY <1>1, <1>4, <1>5, <1>6, <1>7

(* Owing nobody more than before keeps the sum covered. *)
LEMMA OwedFalls ==
    ASSUME Assumptions, NEW f, NEW g, \A h \in Holder : g[h] \in Int /\ f[h] \in Int /\ g[h] <= f[h]
    PROVE  /\ SumIn(g, Holder) \in Int /\ SumIn(f, Holder) \in Int
           /\ SumIn(g, Holder) <= SumIn(f, Holder)
<1>1. IsFiniteSet(Holder)
  BY HoldersFinite
<1>2. SumIn(g, Holder) <= SumIn(f, Holder)
  BY <1>1, SumMonotone
<1>3. Holder \in SUBSET Holder
  OBVIOUS
<1>4. (\A h \in Holder : g[h] \in Int) /\ (\A h \in Holder : f[h] \in Int)
  OBVIOUS
<1>5. SumIn(g, Holder) \in Int /\ SumIn(f, Holder) \in Int
  BY <1>1, <1>3, <1>4, SumInt
<1> QED
  BY <1>2, <1>5

(* The hook settles S: nobody is owed more than at the new paramL before,  *)
(* whatever LP those of S have after.                                      *)
LEMMA HookCovered ==
    ASSUME Assumptions, CInv, NEW S \in SUBSET Holder, Settle(S), IInv',
           \A h \in Holder \ S : balanceOf'[h] = balanceOf[h]
    PROVE  /\ NobodyAhead'
           /\ SumIn(OwedAt(paramL)', Holder) <= MULTIPLIER * lastNYield'
           /\ lastNYield' <= yieldHeld'
<1>0. IInv /\ NobodyAhead
  BY DEF CInv
<1>1. CASE S = {}
  <2>1. UNCHANGED <<interestVars, fundVars>> /\ \A h \in Holder : balanceOf'[h] = balanceOf[h]
    BY <1>1 DEF Settle
  <2>2. OwedAt(paramL)' = OwedAt(paramL)
    BY <2>1 DEF OwedAt, interestVars
  <2> QED
    BY <2>1, <2>2 DEF CInv, NobodyAhead, interestVars, fundVars
<1>2. CASE S # {}
  <2>1. /\ UpdateParamL(0)
        /\ lastParamL' = [h \in Holder |-> IF h \in S THEN NewParamL ELSE lastParamL[h]]
        /\ dueInterests' =
             [h \in Holder |-> IF h \in S THEN SettledDue(h, NewParamL) ELSE dueInterests[h]]
    BY <1>2 DEF Settle
  <2>2. NeedUpdateParamL => ParamR >= 0
    BY <2>1 DEF UpdateParamL
  <2>3. PICK L \in Nat, n \in Nat :
           /\ L = NewParamL /\ n = NewNYield /\ paramL <= L
           /\ SumIn(OwedAt(L), Holder) <= MULTIPLIER * n
    BY <2>2, UpdateCovered
  <2>4. paramL' = L /\ lastNYield' = n /\ n <= yieldHeld'
    <3>1. /\ paramL' = L
          /\ lastNYield' = IF 0 <= n THEN n - 0 ELSE 0
          /\ LET balance == IF NeedUpdateParamL THEN CurrentNYield ELSE yieldHeld
             IN  yieldHeld' = IF 0 <= balance THEN balance - 0 ELSE 0
      BY <2>1, <2>3 DEF UpdateParamL
    <3>2. PICK balance \in Nat : /\ balance = IF NeedUpdateParamL THEN CurrentNYield ELSE yieldHeld
                                 /\ n <= balance
      <4>1. CurrentNYield \in Nat /\ yieldHeld \in Nat
        BY <1>0 DEF IInv, InterestOK, CurrentNYield
      <4> QED
        BY <2>3, <4>1 DEF NewNYield, CInv
    <3> QED
      BY <3>1, <3>2
  <2>5. NobodyAhead'
    <3>1. \A h \in Holder : lastParamL'[h] = L \/ lastParamL'[h] = lastParamL[h]
      BY <2>1, <2>3
    <3>2. \A h \in Holder : lastParamL[h] <= L
      <4> TAKE h \in Holder
      <4>1. lastParamL[h] \in Nat /\ paramL \in Nat
        BY <1>0, HolderFacts
      <4> QED
        BY <1>0, <2>3, <4>1 DEF NobodyAhead
    <3> QED
      BY <2>4, <3>1, <3>2 DEF NobodyAhead
  <2>6. PICK f, g : f = OwedAt(L) /\ g = OwedAt(paramL)'
    OBVIOUS
  <2>7. \A h \in Holder : g[h] \in Int /\ f[h] \in Int /\ g[h] <= f[h]
    <3> TAKE h \in Holder
    <3>1. g[h] = MULTIPLIER * dueInterests'[h]
                   + (IF lastParamL'[h] = 0 THEN 0 ELSE balanceOf'[h] * (L - lastParamL'[h]))
      BY <2>4, <2>6 DEF OwedAt
    <3>2. f[h] \in Int
      BY <1>0, <2>3, <2>6, OwedTyped
    <3>3. CASE h \in S
      <4>1. lastParamL'[h] = L /\ dueInterests'[h] = SettledDue(h, L)
        BY <2>1, <2>3, <3>3
      <4>2. PICK b \in Nat : b = balanceOf'[h]
        BY DEF IInv, LpOK
      <4>3. b * (L - L) = 0
        OBVIOUS
      <4>4. PICK d \in Nat, m \in Nat : /\ d = SettledDue(h, L) /\ m = MULTIPLIER
                                        /\ m * d <= f[h]
        BY <1>0, <2>3, <2>6, SettledIsOwed, Numbers
      <4>5. m * d \in Int
        OBVIOUS
      <4> QED
        BY <3>1, <3>2, <4>1, <4>2, <4>3, <4>4, <4>5
    <3>4. CASE h \notin S
      <4>1. /\ lastParamL'[h] = lastParamL[h] /\ dueInterests'[h] = dueInterests[h]
            /\ balanceOf'[h] = balanceOf[h]
        BY <2>1, <3>4
      <4>2. g[h] = f[h]
        BY <2>6, <3>1, <4>1 DEF OwedAt
      <4> QED
        BY <3>2, <4>2
    <3> QED
      BY <3>3, <3>4
  <2>8. /\ SumIn(g, Holder) \in Int /\ SumIn(f, Holder) \in Int
        /\ SumIn(g, Holder) <= SumIn(f, Holder)
    BY <2>7, OwedFalls
  <2>9. PICK m \in Int : m = MULTIPLIER * n
    <3>1. PICK i \in Nat : i = MULTIPLIER
      BY Numbers
    <3>2. i * n \in Int
      OBVIOUS
    <3> QED
      BY <3>1, <3>2
  <2>10. SumIn(g, Holder) <= m
    BY <2>3, <2>6, <2>8, <2>9
  <2> QED
    BY <2>4, <2>5, <2>6, <2>9, <2>10
<1> QED
  BY <1>1, <1>2

(* What a holder is due after an update is within what is recorded.        *)
LEMMA DueIsRecorded ==
    ASSUME Assumptions, CInv, NEW h \in Holder, NeedUpdateParamL => ParamR >= 0
    PROVE  SettledDue(h, NewParamL) \in Nat /\ SettledDue(h, NewParamL) <= NewNYield
<1>0. IInv /\ NobodyAhead /\ IsFiniteSet(Holder)
  BY HoldersFinite DEF CInv
<1>1. PICK L \in Nat, n \in Nat :
         /\ L = NewParamL /\ n = NewNYield /\ paramL <= L
         /\ SumIn(OwedAt(L), Holder) <= MULTIPLIER * n
  BY UpdateCovered
<1>2. PICK m \in Nat \ {0} : m = MULTIPLIER
  BY Numbers
<1>3. PICK f : f = OwedAt(L)
  OBVIOUS
<1>4. PICK due \in Nat : due = SettledDue(h, L) /\ m * due <= f[h]
  BY <1>0, <1>1, <1>2, <1>3, SettledIsOwed
<1>5. \A i \in Holder : f[i] \in Nat
  BY <1>0, <1>1, <1>3, OwedTyped
<1>6. f[h] <= SumIn(f, Holder) /\ SumIn(f, Holder) \in Nat
  BY <1>0, <1>5, SumNat
<1>7. m * due \in Nat /\ m * n \in Nat
  BY NatTimes
<1>8. m * due <= m * n
  BY <1>1, <1>2, <1>3, <1>4, <1>5, <1>6, <1>7
<1>9. due <= n
  BY <1>8, CancelFactor
<1> QED
  BY <1>1, <1>4, <1>9

(* A redemption takes from what is owed at least what it pays, and the     *)
(* market has it.                                                          *)
LEMMA RedeemCovered ==
    ASSUME Assumptions, CInv, NEW h \in Holder, RedeemLpInterests(h), IInv'
    PROVE  /\ NobodyAhead'
           /\ SumIn(OwedAt(paramL)', Holder) <= MULTIPLIER * lastNYield'
           /\ lastNYield' <= yieldHeld'
<1>0. IInv /\ NobodyAhead /\ IsFiniteSet(Holder)
  BY HoldersFinite DEF CInv
<1>1. PICK due : due = SettledDue(h, NewParamL)
  OBVIOUS
<1>2. /\ UpdateParamL(due) /\ balanceOf' = balanceOf
      /\ lastParamL' = [lastParamL EXCEPT ![h] = NewParamL]
      /\ dueInterests' = [dueInterests EXCEPT ![h] = 0]
  BY <1>1 DEF RedeemLpInterests, lpVars
<1>3. NeedUpdateParamL => ParamR >= 0
  BY <1>2 DEF UpdateParamL
<1>4. PICK L \in Nat, n \in Nat :
         /\ L = NewParamL /\ n = NewNYield /\ paramL <= L
         /\ SumIn(OwedAt(L), Holder) <= MULTIPLIER * n
  BY <1>3, UpdateCovered
<1>5. PICK m \in Nat \ {0} : m = MULTIPLIER
  BY Numbers
<1>6. PICK f, g : f = OwedAt(L) /\ g = OwedAt(paramL)'
  OBVIOUS
<1>7. due \in Nat /\ m * due <= f[h]
  BY <1>0, <1>1, <1>4, <1>5, <1>6, SettledIsOwed
<1>8. \A i \in Holder : f[i] \in Nat
  BY <1>0, <1>4, <1>6, OwedTyped
<1>9. f[h] <= SumIn(f, Holder) /\ SumIn(f, Holder) \in Nat
  BY <1>0, <1>8, SumNat
<1>10. m * due \in Nat /\ m * n \in Nat
  BY <1>7, NatTimes
<1>11. due <= n
  BY <1>1, <1>3, <1>4, DueIsRecorded
<1>12. paramL' = L /\ lastNYield' = n - due /\ n - due <= yieldHeld'
  <2>1. /\ paramL' = L
        /\ lastNYield' = IF due <= n THEN n - due ELSE 0
        /\ LET balance == IF NeedUpdateParamL THEN CurrentNYield ELSE yieldHeld
           IN  yieldHeld' = IF due <= balance THEN balance - due ELSE 0
    BY <1>2, <1>4 DEF UpdateParamL
  <2>2. PICK balance \in Nat : /\ balance = IF NeedUpdateParamL THEN CurrentNYield ELSE yieldHeld
                               /\ n <= balance
    <3>1. CurrentNYield \in Nat /\ yieldHeld \in Nat
      BY <1>0 DEF IInv, InterestOK, CurrentNYield
    <3> QED
      BY <1>4, <3>1 DEF NewNYield, CInv
  <2> QED
    BY <1>7, <1>11, <2>1, <2>2
<1>13. \A i \in Holder : /\ lastParamL'[i] = IF i = h THEN L ELSE lastParamL[i]
                         /\ dueInterests'[i] = IF i = h THEN 0 ELSE dueInterests[i]
  BY <1>0, <1>2, <1>4 DEF IInv, InterestOK
<1>14. NobodyAhead'
  <2>1. \A i \in Holder : lastParamL[i] <= L
    <3> TAKE i \in Holder
    <3>1. lastParamL[i] \in Nat /\ paramL \in Nat
      BY <1>0, HolderFacts
    <3> QED
      BY <1>0, <1>4, <3>1 DEF NobodyAhead
  <2> QED
    BY <1>12, <1>13, <2>1 DEF NobodyAhead
<1>15. g[h] = 0 /\ \A i \in Holder \ {h} : g[i] = f[i]
  <2>1. \A i \in Holder :
          g[i] = m * dueInterests'[i]
                   + (IF lastParamL'[i] = 0 THEN 0 ELSE balanceOf[i] * (L - lastParamL'[i]))
    BY <1>2, <1>5, <1>6, <1>12 DEF OwedAt
  <2>2. \A i \in Holder \ {h} : g[i] = f[i]
    BY <1>5, <1>6, <1>13, <2>1 DEF OwedAt
  <2>3. g[h] = 0
    <3>1. PICK b \in Nat : b = balanceOf[h]
      BY <1>0, HolderFacts
    <3>2. b * (L - L) = 0 /\ m * 0 = 0
      OBVIOUS
    <3> QED
      BY <1>13, <2>1, <3>1, <3>2
  <2> QED
    BY <2>2, <2>3
<1>16. SumIn(g, Holder) = SumIn(f, Holder) + (g[h] - f[h])
  <2>1. \A i \in Holder : f[i] \in Int
    BY <1>8
  <2>2. g[h] \in Int
    BY <1>15
  <2>3. \A i \in Holder \ {h} : g[i] = f[i]
    BY <1>15
  <2> QED
    BY ONLY <1>0, h \in Holder, <2>1, <2>2, <2>3, SumChange
<1>17. m * (n - due) = m * n - m * due
  BY <1>7
<1>18. SumIn(g, Holder) <= m * (n - due)
  BY <1>4, <1>5, <1>6, <1>7, <1>8, <1>9, <1>10, <1>15, <1>16, <1>17
<1> QED
  BY <1>5, <1>6, <1>12, <1>14, <1>18

(* Supply follows the balances. *)
LEMMA MintSupply ==
    ASSUME Assumptions, CInv, bootstrapped, NEW u \in Holder, NEW minted \in Int, MintLp(u, minted)
    PROVE  /\ totalSupply' = SumIn(balanceOf', Holder)
           /\ \A h \in Holder : (h # u \/ minted = 0) /\ (h # Treasury \/ FeePayee = {}) =>
                balanceOf'[h] = balanceOf[h]
<1>1. PICK fee \in Int, T \in Holder : fee = FeeLiquidity /\ T = Treasury
  BY FeeLiquidityType, Numbers DEF CInv
<1>2. IsFiniteSet(Holder)
  BY HoldersFinite
<1>3. PICK f, g, b : f = balanceOf /\ g = [f EXCEPT ![T] = @ + fee] /\ b = balanceOf'
  OBVIOUS
<1>4. f \in [Holder -> Int] /\ f \in [Holder -> Nat] /\ totalSupply = SumIn(f, Holder)
  BY <1>3 DEF CInv, IInv, LpOK
<1>5. g \in [Holder -> Int] /\ \A h \in Holder : g[h] = f[h] + (IF h = T THEN fee ELSE 0)
  <2>1. \A h \in Holder : f[h] \in Int
    BY <1>4
  <2> QED
    BY ONLY <1>1, <1>3, <1>4, <2>1
<1>6. b = [h \in Holder |-> f[h] + (IF h = T THEN fee ELSE 0) + (IF h = u THEN minted ELSE 0)]
  BY <1>1, <1>3 DEF MintLp
<1>7. b = [g EXCEPT ![u] = @ + minted]
  <2>1. DOMAIN g = Holder /\ \A h \in Holder : g[h] \in Int /\ f[h] \in Int
    BY <1>4, <1>5
  <2>2. \A h \in Holder : b[h] = (IF h = u THEN g[h] + minted ELSE g[h])
    BY <1>5, <1>6, <2>1
  <2>3. b = [h \in Holder |-> b[h]]
    BY <1>6, Zenon
  <2> QED
    BY <1>5, <2>1, <2>2, <2>3
<1>8. SumIn(g, Holder) = SumIn(f, Holder) + fee
  <2>1. f \in [Holder -> Int]
    BY <1>4
  <2>2. fee \in Int /\ T \in Holder
    BY <1>1
  <2>3. g = [f EXCEPT ![T] = @ + fee]
    BY <1>3
  <2> QED
    BY ONLY <1>2, <2>1, <2>2, <2>3, SumAdded, ZenonT(60)
<1>9. SumIn(b, Holder) = SumIn(g, Holder) + minted
  <2>1. g \in [Holder -> Int]
    BY <1>5
  <2>2. minted \in Int /\ u \in Holder
    OBVIOUS
  <2> QED
    BY ONLY <1>2, <1>7, <2>1, <2>2, SumAdded, ZenonT(60)
<1>10. totalSupply' = totalSupply + fee + minted
  BY <1>1 DEF MintLp, SupplyWithFee
<1>11. FeePayee = {} => fee = 0
  <2>1. FeeLiquidity \in Nat
    BY FeeLiquidityType DEF CInv
  <2> QED
    BY <1>1, <2>1 DEF FeePayee
<1>12. \A h \in Holder : (h # u \/ minted = 0) /\ (h # T \/ fee = 0) => b[h] = f[h]
  <2> TAKE h \in Holder
  <2>1. b[h] = f[h] + (IF h = T THEN fee ELSE 0) + (IF h = u THEN minted ELSE 0)
    BY <1>6
  <2>2. f[h] \in Int
    BY <1>4
  <2> QED
    BY <2>1, <2>2
<1>13. SumIn(f, Holder) \in Int
  BY <1>4 DEF CInv, IInv, LpOK
<1> QED
  BY <1>1, <1>3, <1>4, <1>8, <1>9, <1>10, <1>11, <1>12, <1>13

LEMMA MintCovered ==
    ASSUME Assumptions, CInv, IInv', bootstrapped, bootstrapped',
           NEW u \in Holder, NEW minted \in Int, NEW S \in SUBSET Holder,
           FeePayee \subseteq S, u \in S \/ minted = 0, Settle(S), MintLp(u, minted)
    PROVE  CInv'
<1>1. totalSupply' = SumIn(balanceOf', Holder)
  BY MintSupply
<1>2. \A h \in Holder \ S : balanceOf'[h] = balanceOf[h]
  <2> TAKE h \in Holder \ S
  <2>1. h # u \/ minted = 0
    OBVIOUS
  <2>2. h # Treasury \/ FeePayee = {}
    BY DEF FeePayee
  <2> QED
    BY <2>1, <2>2, MintSupply
<1>3. /\ NobodyAhead'
      /\ SumIn(OwedAt(paramL)', Holder) <= MULTIPLIER * lastNYield'
      /\ lastNYield' <= yieldHeld'
  BY <1>2, HookCovered
<1>4. NothingYet'
  BY DEF NothingYet
<1> QED
  BY <1>1, <1>3, <1>4 DEF CInv

LEMMA BootstrapCovered ==
    ASSUME Assumptions, CInv, IInv', NEW u \in User, NEW xyt \in Amount, NEW token \in Amount,
           NEW lp \in Reserve, Bootstrap(u, xyt, token, lp)
    PROVE  CInv'
<1>0. IInv /\ IsFiniteSet(Holder)
  BY HoldersFinite DEF CInv
<1>1. /\ ~bootstrapped /\ bootstrapped' /\ paramL' = 1
      /\ balanceOf' = [balanceOf EXCEPT ![MinHolder] = MINIMUM_LIQUIDITY,
                                        ![u] = lp - MINIMUM_LIQUIDITY]
      /\ totalSupply' = lp
      /\ lastParamL' = [h \in Holder |-> IF h \in {MinHolder, u} THEN 1 ELSE 0]
      /\ UNCHANGED <<fundVars, dueInterests, lastNYield>>
  BY DEF Bootstrap
<1>2. PICK min \in Int, m \in Holder : /\ min = MINIMUM_LIQUIDITY /\ m = MinHolder /\ m # u
                                       /\ u \in Holder /\ lp \in Int
  BY Numbers DEF Assumptions, HolderAssumption, Reserve
<1>3. PICK f, b : f = balanceOf /\ b = balanceOf'
  OBVIOUS
<1>4. /\ f \in [Holder -> Nat] /\ \A h \in Holder : f[h] = 0 /\ dueInterests[h] = 0
  BY <1>0, <1>1, <1>3 DEF CInv, NothingYet, IInv, LpOK
<1>5. /\ b[m] = min /\ b[u] = lp - min /\ \A h \in Holder \ {m, u} : b[h] = f[h]
  BY <1>1, <1>2, <1>3, <1>4
<1>6. SumIn(b, Holder) = SumIn(f, Holder) + (b[m] - f[m]) + (b[u] - f[u])
  <2>1. \A h \in Holder : f[h] \in Int
    BY <1>4
  <2>2. b[m] \in Int /\ b[u] \in Int /\ m \in Holder /\ u \in Holder /\ m # u
    BY <1>2, <1>5
  <2>3. \A h \in Holder \ {m, u} : b[h] = f[h]
    BY <1>5
  <2> QED
    BY ONLY <1>0, <2>1, <2>2, <2>3, SumChangeTwo
<1>7. SumIn(f, Holder) = 0
  BY <1>0, <1>4, SumZero
<1>8. totalSupply' = SumIn(balanceOf', Holder)
  BY <1>1, <1>2, <1>3, <1>4, <1>5, <1>6, <1>7
<1>9. NobodyAhead'
  BY <1>1 DEF NobodyAhead
<1>10. \A h \in Holder : OwedAt(paramL)'[h] = 0
  <2> TAKE h \in Holder
  <2>1. OwedAt(paramL)'[h] = MULTIPLIER * dueInterests'[h]
          + (IF lastParamL'[h] = 0 THEN 0 ELSE balanceOf'[h] * (paramL' - lastParamL'[h]))
    BY DEF OwedAt
  <2>2. dueInterests'[h] = 0 /\ (lastParamL'[h] = 0 \/ lastParamL'[h] = 1)
    BY <1>1, <1>4
  <2>3. PICK i \in Nat, x \in Nat : i = MULTIPLIER /\ x = balanceOf'[h]
    BY Numbers DEF IInv, LpOK
  <2>4. i * 0 = 0 /\ x * (1 - 1) = 0
    OBVIOUS
  <2> QED
    BY <1>1, <2>1, <2>2, <2>3, <2>4
<1>11. SumIn(OwedAt(paramL)', Holder) = 0
  BY <1>0, <1>10, SumZero
<1>12. PICK i \in Nat, n \in Nat : i = MULTIPLIER /\ n = lastNYield'
  BY Numbers DEF IInv, InterestOK
<1>13. i * n \in Nat
  BY NatTimes
<1>14. lastNYield' <= yieldHeld'
  BY <1>1 DEF CInv, fundVars
<1> QED
  BY <1>1, <1>8, <1>9, <1>11, <1>12, <1>13, <1>14 DEF CInv, NothingYet

LEMMA TransferCovered ==
    ASSUME Assumptions, CInv, IInv', NEW from \in User, NEW to \in Holder, NEW amount \in LpAmount,
           TransferLp(from, to, amount)
    PROVE  CInv'
<1>0. IInv /\ IsFiniteSet(Holder) /\ from \in Holder /\ amount \in Int
  BY HoldersFinite, Numbers DEF CInv
<1>1. /\ bootstrapped /\ bootstrapped' /\ from # to /\ totalSupply' = totalSupply
      /\ Settle({from, to})
      /\ balanceOf' = [balanceOf EXCEPT ![from] = @ - amount, ![to] = @ + amount]
  BY DEF TransferLp
<1>2. PICK f, b : f = balanceOf /\ b = balanceOf'
  OBVIOUS
<1>3. f \in [Holder -> Int] /\ f \in [Holder -> Nat]
  BY <1>0, <1>2 DEF IInv, LpOK
<1>4. b[from] = f[from] - amount /\ b[to] = f[to] + amount
  BY <1>0, <1>1, <1>2, <1>3
<1>5. \A h \in Holder \ {from, to} : b[h] = f[h]
  BY <1>0, <1>1, <1>2, <1>3
<1>6. SumIn(b, Holder) = SumIn(f, Holder)
  <2>1. from \in Holder /\ to \in Holder /\ from # to
    BY <1>0, <1>1
  <2> QED
    BY ONLY <1>0, <1>3, <1>4, <1>5, <2>1, SumMoved
<1>7. {from, to} \in SUBSET Holder
  BY <1>0
<1>8. /\ NobodyAhead'
      /\ SumIn(OwedAt(paramL)', Holder) <= MULTIPLIER * lastNYield'
      /\ lastNYield' <= yieldHeld'
  BY <1>1, <1>2, <1>5, <1>7, HookCovered
<1> QED
  BY <1>1, <1>2, <1>6, <1>8 DEF CInv, NothingYet

(* What leaves LP and the interest of LPs alone. *)
LEMMA OthersCovered ==
    ASSUME Assumptions, CInv, IInv', UNCHANGED <<lpVars, interestVars, bootstrapped>>,
           yieldHeld <= yieldHeld'
    PROVE  CInv'
<1>1. OwedAt(paramL)' = OwedAt(paramL)
  BY DEF OwedAt, lpVars, interestVars
<1>2. lastNYield' <= yieldHeld'
  BY DEF CInv, IInv, InterestOK, interestVars
<1> QED
  BY <1>1, <1>2 DEF CInv, NobodyAhead, NothingYet, lpVars, interestVars

(* The LP that a dual contribution mints.                                  *)
LEMMA DualLpType ==
    ASSUME Assumptions, IInv, bootstrapped, NEW xyt \in Amount, NEW token \in Amount
    PROVE  DualIn(xyt, token).lp \in Nat
<1> USE Numbers
<1>1. /\ xyt \in Nat /\ token \in Nat /\ SupplyWithFee \in Nat
      /\ xytBalance \in Nat \ {0} /\ tokenBalance \in Nat \ {0}
  BY FeeLiquidityType DEF SupplyWithFee, IInv, LpOK, Begun, Reserve
<1>2. xyt * SupplyWithFee \in Nat /\ token * SupplyWithFee \in Nat
  BY <1>1, ProductOfNats
<1>3. /\ (xyt * SupplyWithFee) \div xytBalance \in Nat
      /\ (token * SupplyWithFee) \div tokenBalance \in Nat
  BY <1>1, <1>2, DivisionDef
<1>4. \/ DualIn(xyt, token).lp = (xyt * SupplyWithFee) \div xytBalance
      \/ DualIn(xyt, token).lp = (token * SupplyWithFee) \div tokenBalance
  BY DEF DualIn
<1> QED BY <1>3, <1>4

(* What mints or burns LP for u settles u, and the treasury if it is paid. *)
LEMMA LiquidityCovered ==
    ASSUME Assumptions, CInv, IInv', bootstrapped, bootstrapped', NEW u \in User,
           NEW minted \in Int, Settle(FeePayee \cup {u}), MintLp(u, minted)
    PROVE  CInv'
<1>1. u \in Holder /\ FeePayee \cup {u} \in SUBSET Holder
  BY FeePayeeType DEF Holder
<1>2. FeePayee \subseteq FeePayee \cup {u} /\ u \in FeePayee \cup {u}
  OBVIOUS
<1> QED
  BY <1>1, <1>2, MintCovered

LEMMA SwapCovered ==
    ASSUME Assumptions, CInv, IInv', NEW xyt, NEW token, Swap(xyt, token)
    PROVE  CInv'
<1>1. bootstrapped /\ bootstrapped'
  BY DEF Swap, Allowed
<1>2. CASE NeedCurveShift
  <2>1. Settle(FeePayee) /\ MintLp(Treasury, 0)
    BY <1>2 DEF Swap
  <2>2. Treasury \in Holder /\ FeePayee \in SUBSET Holder /\ FeePayee \subseteq FeePayee
    BY FeePayeeType, Numbers
  <2> QED
    BY <1>1, <2>1, <2>2, MintCovered
<1>3. CASE ~NeedCurveShift
  <2>1. UNCHANGED <<lpVars, interestVars, bootstrapped>> /\ yieldHeld' = yieldHeld
    BY <1>3 DEF Swap, fundVars
  <2>2. yieldHeld <= yieldHeld'
    BY <2>1 DEF CInv, IInv, InterestOK
  <2> QED
    BY <2>1, <2>2, OthersCovered
<1> QED
  BY <1>2, <1>3

(* Every step leaves what everybody is owed covered.                       *)
LEMMA CoveredStep == Assumptions /\ CInv /\ [Next]_vars => CInv'
<1> SUFFICES ASSUME Assumptions, CInv, [Next]_vars PROVE CInv'
  OBVIOUS
<1>0. IInv'
  BY NextInv DEF CInv
<1>1. ASSUME NEW u \in User, NEW xyt \in Amount, NEW token \in Amount, NEW lp \in Reserve,
             Bootstrap(u, xyt, token, lp)
      PROVE  CInv'
  BY <1>0, <1>1, BootstrapCovered
<1>2. ASSUME NEW u \in User, NEW xyt \in Amount, NEW token \in Amount,
             AddMarketLiquidityDual(u, xyt, token)
      PROVE  CInv'
  <2>1. /\ bootstrapped /\ bootstrapped' /\ Settle(FeePayee \cup {u})
        /\ MintLp(u, DualIn(xyt, token).lp)
    BY <1>2 DEF AddMarketLiquidityDual, Allowed
  <2>2. PICK minted \in Int : minted = DualIn(xyt, token).lp
    BY <2>1, DualLpType DEF CInv
  <2> QED
    BY <1>0, <2>1, <2>2, LiquidityCovered
<1>3. ASSUME NEW u \in User, NEW x, NEW t, NEW lp \in LpAmount,
             AddMarketLiquiditySingle(u, x, t, lp)
      PROVE  CInv'
  <2>1. bootstrapped /\ bootstrapped' /\ Settle(FeePayee \cup {u}) /\ MintLp(u, lp) /\ lp \in Int
    BY <1>3, Numbers DEF AddMarketLiquiditySingle, Allowed
  <2> QED
    BY <1>0, <2>1, LiquidityCovered
<1>4. ASSUME NEW u \in User, NEW x, NEW t, NEW lp \in LpAmount,
             RemoveMarketLiquiditySingle(u, x, t, lp)
      PROVE  CInv'
  <2>1. /\ bootstrapped /\ bootstrapped' /\ Settle(FeePayee \cup {u}) /\ MintLp(u, -lp)
        /\ -lp \in Int
    BY <1>4, Numbers DEF RemoveMarketLiquiditySingle, Allowed
  <2> QED
    BY <1>0, <2>1, LiquidityCovered
<1>5. ASSUME NEW u \in User, NEW lp \in LpAmount, RemoveMarketLiquidityDual(u, lp)
      PROVE  CInv'
  <2>1. /\ bootstrapped /\ bootstrapped' /\ Settle(FeePayee \cup {u}) /\ MintLp(u, -lp)
        /\ -lp \in Int
    BY <1>5, Numbers DEF RemoveMarketLiquidityDual, Allowed
  <2> QED
    BY <1>0, <2>1, LiquidityCovered
<1>6. ASSUME NEW in \in Amount, NEW out \in Out, Swap(in, -out) \/ Swap(-out, in)
      PROVE  CInv'
  BY <1>0, <1>6, SwapCovered
<1>7. ASSUME NEW from \in User, NEW to \in Holder, NEW amount \in LpAmount,
             TransferLp(from, to, amount)
      PROVE  CInv'
  BY <1>0, <1>7, TransferCovered
<1>8. ASSUME NEW h \in Holder, RedeemLpInterests(h) PROVE CInv'
  <2>1. bootstrapped' /\ UNCHANGED lpVars
    BY <1>8 DEF RedeemLpInterests, Allowed
  <2>2. totalSupply' = SumIn(balanceOf', Holder)
    BY <2>1 DEF CInv, lpVars
  <2> QED
    BY <1>0, <1>8, <2>1, <2>2, RedeemCovered DEF CInv, NothingYet
<1>9. ASSUME UNCHANGED <<lpVars, interestVars, bootstrapped>>, yieldHeld' = yieldHeld PROVE CInv'
  <2>1. yieldHeld <= yieldHeld'
    BY <1>9 DEF CInv, IInv, InterestOK
  <2> QED
    BY <1>0, <1>9, <2>1, OthersCovered
<1>10. CASE \/ \E market, itsForge \in BOOLEAN : SetPaused(market, itsForge)
            \/ \E fee \in ProtocolFee : SetMarketFees(fee)
            \/ \E d \in Delta : SetInterestUpdateRateDelta(d)
            \/ \E income \in Income : RateRises(income)
            \/ NextBlock
            \/ UNCHANGED vars
  BY <1>9, <1>10 DEF SetPaused, SetMarketFees, SetInterestUpdateRateDelta, RateRises, NextBlock,
                     vars, fundVars
<1>11. CASE RedeemDueInterests
  <2>1. /\ UNCHANGED <<lpVars, interestVars, bootstrapped>>
        /\ yieldHeld' = yieldHeld + accrued
    BY <1>11 DEF RedeemDueInterests, CurrentNYield
  <2>2. yieldHeld <= yieldHeld'
    BY <2>1 DEF CInv, IInv, InterestOK
  <2> QED
    BY <1>0, <2>1, <2>2, OthersCovered
<1> QED
  BY <1>1, <1>2, <1>3, <1>4, <1>5, <1>6, <1>7, <1>8, <1>10, <1>11 DEF Next

LEMMA InitCovered == Assumptions /\ Init => CInv
<1> SUFFICES ASSUME Assumptions, Init PROVE CInv
  OBVIOUS
<1>1. IInv /\ IsFiniteSet(Holder)
  BY InitInv, HoldersFinite
<1>2. /\ balanceOf = [h \in Holder |-> 0] /\ dueInterests = [h \in Holder |-> 0]
      /\ lastParamL = [h \in Holder |-> 0]
      /\ totalSupply = 0 /\ paramL = 0 /\ lastNYield = 0 /\ yieldHeld = 0
  BY DEF Init
<1>3. PICK b, o : b = balanceOf /\ o = OwedAt(paramL)
  OBVIOUS
<1>4. \A h \in Holder : b[h] = 0
  BY <1>2, <1>3
<1>5. PICK m \in Nat : m = MULTIPLIER
  BY Numbers
<1>6. m * 0 = 0
  OBVIOUS
<1>7. \A h \in Holder : o[h] = 0
  BY <1>2, <1>3, <1>5, <1>6 DEF OwedAt
<1>8. SumIn(b, Holder) = 0 /\ SumIn(o, Holder) = 0
  BY <1>1, <1>4, <1>7, SumZero
<1>9. NobodyAhead /\ NothingYet
  BY <1>2 DEF NobodyAhead, NothingYet
<1> QED
  BY <1>1, <1>2, <1>3, <1>5, <1>6, <1>8, <1>9 DEF CInv

(* Whatever the formulas, fees, deltas and amounts, and for any finite set *)
(* of users: the supply of LP is the sum of the balances, what was         *)
(* recorded as shared out covers what every holder is owed, and the market *)
(* has it (PendleMarketBase.sol:655-760).                                  *)
THEOREM LpInterestsAreCovered ==
    ASSUME Assumptions
    PROVE  Spec => []LpInterestsCovered
<1>1. CInv => LpInterestsCovered
  <2> SUFFICES ASSUME CInv PROVE LpInterestsCovered
    OBVIOUS
  <2>0. IInv /\ IsFiniteSet(Holder)
    BY HoldersFinite DEF CInv
  <2>1. PICK m \in Int : m = MULTIPLIER
    BY Numbers
  <2>2. PICK owed, sum, due, unsettled :
           /\ owed = OwedAt(paramL) /\ sum = dueInterests /\ unsettled = Unsettled
           /\ due = [h \in Holder |-> m * dueInterests[h]]
    OBVIOUS
  <2>3. \A h \in Holder : /\ sum[h] \in Int /\ due[h] = m * sum[h] /\ due[h] \in Int
                          /\ unsettled[h] \in Int /\ owed[h] = due[h] + unsettled[h]
    <3> TAKE h \in Holder
    <3>1. PICK b \in Int, l \in Int, d \in Int, p \in Int :
             b = balanceOf[h] /\ l = lastParamL[h] /\ d = sum[h] /\ p = paramL
      BY <2>0, <2>2, HolderFacts
    <3>2. m * d \in Int /\ b * (p - l) \in Int
      OBVIOUS
    <3> QED
      BY <2>1, <2>2, <3>1, <3>2 DEF OwedAt, Unsettled
  <2>4. \A f : SumOver(f) = SumIn(f, Holder)
    BY DEF SumOver, SumIn
  <2>5. SumIn(due, Holder) = m * SumIn(sum, Holder)
    BY <2>0, <2>3, SumTimes
  <2>6. SumIn(owed, Holder) = SumIn(due, Holder) + SumIn(unsettled, Holder)
    BY <2>0, <2>3, SumPlus
  <2>7. TypeOK
    BY <2>0, TypeParts
  <2>8. m * SumIn(sum, Holder) + SumIn(unsettled, Holder) <= m * lastNYield
    BY <2>1, <2>2, <2>5, <2>6 DEF CInv
  <2> QED
    BY <2>1, <2>2, <2>4, <2>7, <2>8 DEF CInv, LpInterestsCovered
<1> QED
  BY <1>1, InitCovered, CoveredStep, PTL DEF Spec

-----------------------------------------------------------------------------
(* What a holder has received and can claim.                               *)
HasAtLeast(h) == wallet'[h] + Claim(h)' >= wallet[h] + Claim(h)

(* paramL never makes a claim fall.                                        *)
LEMMA ClaimGrows ==
    ASSUME Assumptions, IInv, NobodyAhead, NEW h \in Holder, NEW L \in Nat, paramL <= L
    PROVE  /\ Claim(h) \in Nat /\ SettledDue(h, L) \in Nat /\ Claim(h) <= SettledDue(h, L)
           /\ wallet[h] \in Nat
<1>1. PICK b \in Nat, l \in Nat, d \in Nat, m \in Nat \ {0}, p \in Nat :
         /\ b = balanceOf[h] /\ l = lastParamL[h] /\ d = dueInterests[h] /\ m = MULTIPLIER
         /\ p = paramL
  BY HolderFacts
<1>2. p <= L /\ l <= p /\ p - l \in Nat /\ L - l \in Nat /\ L - p \in Nat
  BY <1>1 DEF NobodyAhead
<1>3. b * (p - l) \in Nat /\ b * (L - l) \in Nat /\ b * (L - p) \in Nat
  BY <1>2, NatTimes
<1>4. b * (L - l) = b * (p - l) + b * (L - p)
  OBVIOUS
<1>5. PICK x \in Nat, y \in Nat : x = b * (p - l) /\ y = b * (L - l) /\ x <= y
  BY <1>3, <1>4
<1>6. x \div m \in Nat /\ y \div m \in Nat /\ x \div m <= y \div m
  BY <1>5, DivisionDef, DivisionMonotone
<1>7. /\ Claim(h) = d + (IF l = 0 THEN 0 ELSE x \div m)
      /\ SettledDue(h, L) = d + (IF l = 0 THEN 0 ELSE y \div m)
  BY <1>1, <1>5 DEF Claim, SettledDue, InterestFromLp
<1>8. wallet[h] \in Nat
  BY DEF IInv, InterestOK
<1> QED
  BY <1>6, <1>7, <1>8

(* A holder settled at the current paramL can claim what is due to him.    *)
LEMMA SettledClaim ==
    ASSUME Assumptions, IInv', NEW h \in Holder,
           lastParamL'[h] = paramL' \/ lastParamL'[h] = 0
    PROVE  Claim(h)' = dueInterests'[h]
<1>1. PICK b \in Nat, d \in Nat, m \in Nat \ {0}, p \in Nat :
         b = balanceOf'[h] /\ d = dueInterests'[h] /\ m = MULTIPLIER /\ p = paramL'
  BY Numbers DEF IInv, LpOK, InterestOK
<1>2. Claim(h)' = dueInterests'[h] + (IF lastParamL'[h] = 0 THEN 0
                    ELSE (balanceOf'[h] * (paramL' - lastParamL'[h])) \div MULTIPLIER)
  BY DEF Claim, SettledDue, InterestFromLp
<1>3. b * (p - p) = 0 /\ 0 \div m = 0
  OBVIOUS
<1> QED
  BY <1>1, <1>2, <1>3

(* The hook settles S at the new paramL, and leaves the others their LP.   *)
LEMMA HookKeeps ==
    ASSUME Assumptions, CInv, NEW S \in SUBSET Holder, Settle(S), IInv',
           \A h \in Holder \ S : balanceOf'[h] = balanceOf[h]
    PROVE  \A h \in Holder : HasAtLeast(h)
<1>0. IInv /\ NobodyAhead
  BY DEF CInv
<1> TAKE h \in Holder
<1>1. CASE S = {}
  <2>1. UNCHANGED interestVars /\ wallet' = wallet /\ balanceOf'[h] = balanceOf[h]
    BY <1>1 DEF Settle, fundVars
  <2>2. Claim(h)' = Claim(h)
    BY <2>1 DEF Claim, SettledDue, InterestFromLp, interestVars
  <2>3. paramL \in Nat /\ paramL <= paramL
    BY <1>0, HolderFacts
  <2>4. Claim(h) \in Nat /\ wallet[h] \in Nat
    BY <1>0, <2>3, ClaimGrows
  <2> QED
    BY <2>1, <2>2, <2>4 DEF HasAtLeast
<1>2. CASE S # {}
  <2>1. /\ UpdateParamL(0) /\ wallet' = wallet
        /\ lastParamL' = [i \in Holder |-> IF i \in S THEN NewParamL ELSE lastParamL[i]]
        /\ dueInterests' =
             [i \in Holder |-> IF i \in S THEN SettledDue(i, NewParamL) ELSE dueInterests[i]]
    BY <1>2 DEF Settle
  <2>2. PICK L \in Nat : L = NewParamL /\ paramL <= L /\ paramL' = L
    <3>1. NeedUpdateParamL => ParamR >= 0
      BY <2>1 DEF UpdateParamL
    <3> QED
      BY <2>1, <3>1, UpdateCovered DEF UpdateParamL
  <2>3. Claim(h) \in Nat /\ SettledDue(h, L) \in Nat /\ Claim(h) <= SettledDue(h, L)
        /\ wallet[h] \in Nat
    BY <1>0, <2>2, ClaimGrows
  <2>4. Claim(h)' = SettledDue(h, L)
    <3>1. CASE h \in S
      <4>1. lastParamL'[h] = paramL' /\ dueInterests'[h] = SettledDue(h, L)
        BY <2>1, <2>2, <3>1
      <4> QED
        BY <4>1, SettledClaim
    <3>2. CASE h \notin S
      <4>1. /\ lastParamL'[h] = lastParamL[h] /\ dueInterests'[h] = dueInterests[h]
            /\ balanceOf'[h] = balanceOf[h]
        BY <2>1, <3>2
      <4> QED
        BY <2>2, <4>1 DEF Claim, SettledDue, InterestFromLp
    <3> QED
      BY <3>1, <3>2
  <2> QED
    BY <2>1, <2>3, <2>4 DEF HasAtLeast
<1> QED
  BY <1>1, <1>2

LEMMA MintKeeps ==
    ASSUME Assumptions, CInv, IInv', bootstrapped,
           NEW u \in Holder, NEW minted \in Int, NEW S \in SUBSET Holder,
           FeePayee \subseteq S, u \in S \/ minted = 0, Settle(S), MintLp(u, minted)
    PROVE  \A h \in Holder : HasAtLeast(h)
<1>1. \A h \in Holder \ S : balanceOf'[h] = balanceOf[h]
  <2> TAKE h \in Holder \ S
  <2>1. h # u \/ minted = 0
    OBVIOUS
  <2>2. h # Treasury \/ FeePayee = {}
    BY DEF FeePayee
  <2> QED
    BY <2>1, <2>2, MintSupply
<1> QED
  BY <1>1, HookKeeps

LEMMA BootstrapKeeps ==
    ASSUME Assumptions, CInv, IInv', NEW u \in User, NEW xyt \in Amount, NEW token \in Amount,
           NEW lp \in Reserve, Bootstrap(u, xyt, token, lp)
    PROVE  \A h \in Holder : HasAtLeast(h)
<1> TAKE h \in Holder
<1>1. /\ ~bootstrapped /\ paramL' = 1 /\ dueInterests' = dueInterests /\ wallet' = wallet
      /\ lastParamL' = [i \in Holder |-> IF i \in {MinHolder, u} THEN 1 ELSE 0]
  BY DEF Bootstrap, fundVars
<1>2. dueInterests[h] = 0 /\ balanceOf[h] = 0
  BY <1>1 DEF CInv, NothingYet
<1>3. Claim(h) = 0
  <2>1. PICK m \in Nat \ {0}, i \in Int : m = MULTIPLIER /\ i = paramL - lastParamL[h]
    BY HolderFacts DEF CInv
  <2>2. 0 * i = 0 /\ 0 \div m = 0
    OBVIOUS
  <2> QED
    BY <1>2, <2>1, <2>2 DEF Claim, SettledDue, InterestFromLp
<1>4. Claim(h)' = 0
  <2>1. lastParamL'[h] = paramL' \/ lastParamL'[h] = 0
    BY <1>1
  <2> QED
    BY <1>1, <1>2, <2>1, SettledClaim
<1>5. wallet[h] \in Nat
  BY DEF CInv, IInv, InterestOK
<1> QED
  BY <1>1, <1>3, <1>4, <1>5 DEF HasAtLeast

(* A redemption pays all that is due, for the market has it.               *)
LEMMA RedeemKeeps ==
    ASSUME Assumptions, CInv, IInv', NEW u \in Holder, RedeemLpInterests(u)
    PROVE  \A h \in Holder : HasAtLeast(h)
<1>0. IInv /\ NobodyAhead
  BY DEF CInv
<1> TAKE h \in Holder
<1>1. PICK due : due = SettledDue(u, NewParamL)
  OBVIOUS
<1>2. /\ UpdateParamL(due) /\ balanceOf' = balanceOf
      /\ lastParamL' = [lastParamL EXCEPT ![u] = NewParamL]
      /\ dueInterests' = [dueInterests EXCEPT ![u] = 0]
      /\ wallet' = [wallet EXCEPT ![u] = @ + CurrentNYield - (yieldHeld' + accrued')]
  BY <1>1 DEF RedeemLpInterests, lpVars
<1>3. NeedUpdateParamL => ParamR >= 0
  BY <1>2 DEF UpdateParamL
<1>4. PICK L \in Nat, n \in Nat : L = NewParamL /\ n = NewNYield /\ paramL <= L /\ paramL' = L
  BY <1>2, <1>3, UpdateCovered DEF UpdateParamL
<1>5. due \in Nat /\ due <= n
  BY <1>1, <1>3, <1>4, DueIsRecorded
<1>6. CurrentNYield - (yieldHeld' + accrued') = due
  <2>1. PICK y \in Nat, a \in Nat : y = yieldHeld /\ a = accrued /\ CurrentNYield = y + a
    BY <1>0 DEF IInv, InterestOK, CurrentNYield
  <2>2. n <= IF NeedUpdateParamL THEN y + a ELSE y
    BY <1>4, <2>1 DEF NewNYield, CInv
  <2>3. /\ accrued' = IF NeedUpdateParamL THEN 0 ELSE a
        /\ LET balance == IF NeedUpdateParamL THEN y + a ELSE y
           IN  yieldHeld' = IF due <= balance THEN balance - due ELSE 0
    BY <1>2, <2>1 DEF UpdateParamL
  <2> QED
    BY <1>5, <2>1, <2>2, <2>3
<1>7. /\ Claim(h) \in Nat /\ SettledDue(h, L) \in Nat /\ Claim(h) <= SettledDue(h, L)
      /\ wallet[h] \in Nat /\ wallet \in [Holder -> Nat]
      /\ lastParamL \in [Holder -> Nat] /\ dueInterests \in [Holder -> Nat]
  BY <1>0, <1>4, ClaimGrows DEF IInv, InterestOK
<1>8. CASE h = u
  <2>1. lastParamL'[h] = paramL' /\ dueInterests'[h] = 0
    BY <1>2, <1>4, <1>7, <1>8
  <2>2. Claim(h)' = 0
    BY <2>1, SettledClaim
  <2>3. PICK w \in Nat, c \in Int :
           w = wallet[h] /\ c = CurrentNYield - (yieldHeld' + accrued') /\ c = due
    BY <1>5, <1>6, <1>7
  <2>4. wallet'[h] = wallet[h] + CurrentNYield - (yieldHeld' + accrued')
    BY <1>2, <1>7, <1>8
  <2>5. wallet'[h] = w + due
    <3>1. CurrentNYield \in Int /\ yieldHeld' \in Int /\ accrued' \in Int
      BY <1>0 DEF IInv, InterestOK, CurrentNYield
    <3> QED
      BY <1>5, <2>3, <2>4, <3>1
  <2> QED
    BY <1>1, <1>4, <1>5, <1>7, <1>8, <2>2, <2>3, <2>5 DEF HasAtLeast
<1>9. CASE h # u
  <2>1. /\ lastParamL'[h] = lastParamL[h] /\ dueInterests'[h] = dueInterests[h]
        /\ wallet'[h] = wallet[h]
    BY <1>2, <1>7, <1>9
  <2>2. Claim(h)' = SettledDue(h, L)
    BY <1>2, <1>4, <2>1 DEF Claim, SettledDue, InterestFromLp
  <2> QED
    BY <1>7, <2>1, <2>2 DEF HasAtLeast
<1> QED
  BY <1>8, <1>9

LEMMA OthersKeep ==
    ASSUME Assumptions, CInv, UNCHANGED <<lpVars, interestVars, wallet>>
    PROVE  \A h \in Holder : HasAtLeast(h)
<1> TAKE h \in Holder
<1>1. Claim(h)' = Claim(h) /\ wallet' = wallet
  BY DEF Claim, SettledDue, InterestFromLp, lpVars, interestVars
<1>2. paramL \in Nat /\ paramL <= paramL
  BY HolderFacts DEF CInv
<1>3. Claim(h) \in Nat /\ wallet[h] \in Nat
  BY <1>2, ClaimGrows DEF CInv
<1> QED
  BY <1>1, <1>3 DEF HasAtLeast

LEMMA KeepStep ==
    Assumptions /\ CInv /\ [Next]_vars => \A h \in Holder : HasAtLeast(h)
<1> SUFFICES ASSUME Assumptions, CInv, [Next]_vars PROVE \A h \in Holder : HasAtLeast(h)
  OBVIOUS
<1>0. IInv'
  BY NextInv DEF CInv
<1>1. ASSUME NEW u \in User, NEW xyt \in Amount, NEW token \in Amount, NEW lp \in Reserve,
             Bootstrap(u, xyt, token, lp)
      PROVE  \A h \in Holder : HasAtLeast(h)
  BY <1>0, <1>1, BootstrapKeeps
<1>2. ASSUME bootstrapped, NEW u \in User, NEW minted \in Int,
             Settle(FeePayee \cup {u}), MintLp(u, minted)
      PROVE  \A h \in Holder : HasAtLeast(h)
  <2>1. u \in Holder /\ FeePayee \cup {u} \in SUBSET Holder
    BY FeePayeeType DEF Holder
  <2>2. FeePayee \subseteq FeePayee \cup {u} /\ u \in FeePayee \cup {u}
    OBVIOUS
  <2> QED
    BY <1>0, <1>2, <2>1, <2>2, MintKeeps
<1>3. ASSUME NEW u \in User, NEW xyt \in Amount, NEW token \in Amount,
             AddMarketLiquidityDual(u, xyt, token)
      PROVE  \A h \in Holder : HasAtLeast(h)
  <2>1. bootstrapped /\ Settle(FeePayee \cup {u}) /\ MintLp(u, DualIn(xyt, token).lp)
    BY <1>3 DEF AddMarketLiquidityDual, Allowed
  <2>2. PICK minted \in Int : minted = DualIn(xyt, token).lp
    BY <2>1, DualLpType DEF CInv
  <2> QED
    BY <1>2, <2>1, <2>2
<1>4. ASSUME NEW u \in User, NEW x, NEW t, NEW lp \in LpAmount,
             AddMarketLiquiditySingle(u, x, t, lp)
      PROVE  \A h \in Holder : HasAtLeast(h)
  <2>1. bootstrapped /\ Settle(FeePayee \cup {u}) /\ MintLp(u, lp) /\ lp \in Int
    BY <1>4, Numbers DEF AddMarketLiquiditySingle, Allowed
  <2> QED
    BY <1>2, <2>1
<1>5. ASSUME NEW u \in User, NEW x, NEW t, NEW lp \in LpAmount,
             \/ RemoveMarketLiquiditySingle(u, x, t, lp)
             \/ RemoveMarketLiquidityDual(u, lp)
      PROVE  \A h \in Holder : HasAtLeast(h)
  <2>1. bootstrapped /\ Settle(FeePayee \cup {u}) /\ MintLp(u, -lp) /\ -lp \in Int
    BY <1>5, Numbers DEF RemoveMarketLiquiditySingle, RemoveMarketLiquidityDual, Allowed
  <2> QED
    BY <1>2, <2>1
<1>6. ASSUME UNCHANGED <<lpVars, interestVars, wallet>>
      PROVE  \A h \in Holder : HasAtLeast(h)
  BY <1>6, OthersKeep
<1>7. ASSUME NEW xyt, NEW token, Swap(xyt, token) PROVE \A h \in Holder : HasAtLeast(h)
  <2>1. CASE NeedCurveShift
    <3>1. bootstrapped /\ Settle(FeePayee) /\ MintLp(Treasury, 0)
      BY <1>7, <2>1 DEF Swap, Allowed
    <3>2. Treasury \in Holder /\ FeePayee \in SUBSET Holder /\ FeePayee \subseteq FeePayee
      BY FeePayeeType, Numbers
    <3> QED
      BY <1>0, <3>1, <3>2, MintKeeps
  <2>2. CASE ~NeedCurveShift
    BY <1>6, <1>7, <2>2 DEF Swap, fundVars
  <2> QED
    BY <2>1, <2>2
<1>8. ASSUME NEW from \in User, NEW to \in Holder, NEW amount \in LpAmount,
             TransferLp(from, to, amount)
      PROVE  \A h \in Holder : HasAtLeast(h)
  <2>1. {from, to} \in SUBSET Holder
    BY DEF Holder
  <2>2. Settle({from, to}) /\ \A h \in Holder \ {from, to} : balanceOf'[h] = balanceOf[h]
    BY <1>8 DEF TransferLp, CInv, IInv, LpOK
  <2> QED
    BY <1>0, <2>1, <2>2, HookKeeps
<1>9. ASSUME NEW h \in Holder, RedeemLpInterests(h)
      PROVE  \A i \in Holder : HasAtLeast(i)
  BY <1>0, <1>9, RedeemKeeps
<1>10. CASE \/ \E market, itsForge \in BOOLEAN : SetPaused(market, itsForge)
            \/ \E fee \in ProtocolFee : SetMarketFees(fee)
            \/ \E d \in Delta : SetInterestUpdateRateDelta(d)
            \/ \E income \in Income : RateRises(income)
            \/ RedeemDueInterests
            \/ NextBlock
            \/ UNCHANGED vars
  BY <1>6, <1>10 DEF SetPaused, SetMarketFees, SetInterestUpdateRateDelta, RateRises,
                     RedeemDueInterests, NextBlock, vars, fundVars
<1> QED
  BY <1>1, <1>3, <1>4, <1>5, <1>7, <1>8, <1>9, <1>10 DEF Next

(* Whatever is added, removed, swapped or transferred and whoever redeems  *)
(* for whom, under any formulas, fees, deltas and amounts: what a holder   *)
(* of LP has received and can claim never falls, for a redemption pays all *)
(* that is due (PendleMarketBase.sol:655-680).                             *)
THEOREM LpInterestsKept ==
    ASSUME Assumptions
    PROVE  Spec => LpInterestsAreKept
<1>1. CInv /\ [Next]_vars =>
        [\A h \in Holder : wallet'[h] + Claim(h)' >= wallet[h] + Claim(h)]_vars
  BY KeepStep DEF HasAtLeast
<1> QED
  BY <1>1, InitCovered, CoveredStep, PTL DEF Spec, LpInterestsAreKept
-----------------------------------------------------------------------------
(* The protocol fee is of the growth of paramK by swaps.  Multiplying out  *)
(* what _mintProtocolFees divides.                                         *)
LEMMA ThreeFactors == \A a, b, c \in Int : a * b * c = b * (a * c)
OBVIOUS

LEMMA TimesSum ==
    \A a, b, c, d \in Int : a * (b * (c + d)) = c * (a * b) + d * (a * b)
OBVIOUS

(* The arithmetic of _mintProtocolFees, with the fee f out of r of the     *)
(* growth g from l to k, and the supply s.                                 *)
LEMMA FeeArithmetic ==
    ASSUME NEW r \in Nat, NEW f \in Nat \ {0}, f <= r, NEW k \in Nat, NEW l \in Nat \ {0},
           NEW g \in Nat, k = l + g, NEW s \in Nat,
           NEW fee, fee = (s * g) \div (((r - f) * k) \div f + l)
    PROVE  /\ fee \in Nat
           /\ fee > 0 => r * fee * k < f * (g * (s + fee) + fee)
           /\ ~(r * (fee + 1) * k <= f * (g * (s + (fee + 1))))
<1>1. PICK a \in Nat : a = (r - f) * k
  BY NatTimes
<1>2. PICK q \in Nat : q = a \div f /\ f * q <= a /\ a < f * q + f
  BY DivisionDef
<1>3. PICK d \in Nat \ {0} : d = q + l
  BY <1>2
<1>4. PICK p \in Nat : p = s * g
  BY NatTimes
<1>5. fee \in Nat /\ d * fee <= p /\ p < d * fee + d
  <2>1. fee = p \div d
    BY <1>1, <1>2, <1>3, <1>4
  <2> QED
    BY <2>1, DivisionDef
<1>6. PICK x \in Nat, y \in Nat, z \in Nat : x = r * k /\ y = f * g /\ z = f * d
  BY <1>3, NatTimes
<1>7. z <= x - y /\ x - y - f < z
  <2>1. a = r * k - f * k
    BY <1>1
  <2>2. f * k = f * l + f * g
    OBVIOUS
  <2>3. f * d = f * q + f * l
    BY <1>2, <1>3
  <2>4. PICK fk \in Int, fl \in Int, fq \in Int : fk = f * k /\ fl = f * l /\ fq = f * q
    BY <1>2
  <2> QED
    BY <1>2, <1>6, <2>1, <2>2, <2>3, <2>4
<1>8. fee * z = f * (d * fee) /\ (fee + 1) * z = f * (d * fee + d) /\ f * p = s * y
  BY <1>3, <1>4, <1>5, <1>6
<1>9. f * (d * fee) <= f * p /\ f * p < f * (d * fee + d)
  BY <1>3, <1>4, <1>5
<1>10. ASSUME fee > 0 PROVE r * fee * k < f * (g * (s + fee) + fee)
  <2>1. PICK t \in Int : t = z + (y + f)
    BY <1>6
  <2>2. x + 1 <= t
    BY <1>6, <1>7, <2>1
  <2>3. fee * (x + 1) <= fee * t
    BY <1>5, <1>6, <2>1, <2>2
  <2>4. fee * (x + 1) = fee * x + fee /\ fee * t = fee * z + (fee * y + fee * f)
    <3>1. fee * (x + 1) = fee * x + fee
      BY <1>5, <1>6
    <3>2. fee * (z + (y + f)) = fee * z + (fee * y + fee * f)
      <4>1. fee \in Int /\ z \in Int /\ y \in Int /\ f \in Int
        BY <1>5, <1>6
      <4> QED
        BY ONLY <4>1
    <3> QED
      BY <2>1, <3>1, <3>2, Zenon
  <2>5. r * fee * k = fee * x
    BY <1>5, <1>6
  <2>6. f * (g * (s + fee) + fee) = s * y + fee * y + fee * f
    BY <1>5, <1>6
  <2>7. PICK fx \in Int, fy \in Int, ff \in Int, sy \in Int :
           fx = fee * x /\ fy = fee * y /\ ff = fee * f /\ sy = s * y
    BY <1>5, <1>6
  <2>8. PICK fz \in Int : fz = fee * z /\ fz <= sy
    BY <1>5, <1>6, <1>8, <1>9, <2>7
  <2> QED
    BY <1>5, <1>10, <2>3, <2>4, <2>5, <2>6, <2>7, <2>8
<1>11. ~(r * (fee + 1) * k <= f * (g * (s + (fee + 1))))
  <2>1. PICK n \in Nat : n = fee + 1
    BY <1>5
  <2>2. n * z <= n * (x - y)
    BY <1>6, <1>7, <2>1
  <2>3. n * (x - y) = n * x - n * y
    BY <1>6, <2>1
  <2>4. r * n * k = n * x /\ f * (g * (s + n)) = s * y + n * y
    <3>1. r * n * k = n * (r * k)
      BY <2>1, ThreeFactors
    <3>2. f * (g * (s + n)) = s * (f * g) + n * (f * g)
      BY <2>1, TimesSum
    <3> QED
      BY <1>6, <3>1, <3>2, Zenon
  <2>5. s * y < n * z
    BY <1>8, <1>9, <2>1
  <2>6. PICK nx \in Int, ny \in Int, sy \in Int, nz \in Int :
           nx = n * x /\ ny = n * y /\ sy = s * y /\ nz = n * z
    BY <1>6, <2>1
  <2>7. r * n * k > f * (g * (s + n))
    BY <2>2, <2>3, <2>4, <2>5, <2>6
  <2>8. r * n * k \in Int /\ f * (g * (s + n)) \in Int
    BY <2>1
  <2> QED
    BY <2>1, <2>7, <2>8
<1> QED
  BY <1>5, <1>10, <1>11

-----------------------------------------------------------------------------
(* lastParamK, when it is set, is the paramK that swaps have started from. *)
MeasuredFromLast == lastParamK = 0 \/ lastParamK = paramKBefore

MInv == IInv /\ MeasuredFromLast

Charged == protocolSwapFee > 0 /\ lastParamK > 0 /\ SwapGrowth > 0

(* What FeesAreOfSwapGrowth says of a step that mints these fees.          *)
FeesFit(fees) ==
    /\ fees > 0 => Charged /\ FeesWithinRounding(fees)
    /\ Charged => ~FeesAtMost(fees + 1)

LEMMA FeeLiquidityFits ==
    ASSUME Assumptions, MInv, bootstrapped
    PROVE  FeeLiquidity \in Nat /\ FeesFit(FeeLiquidity)
<1>1. PICK k \in Nat, l \in Nat, f \in Nat, s \in Nat, r \in Nat, fee \in Nat :
         /\ k = CurrentParamK /\ l = lastParamK /\ f = protocolSwapFee /\ s = totalSupply
         /\ r = RONE /\ fee = FeeLiquidity /\ f <= r
  BY FeeLiquidityType, Numbers DEF MInv, IInv, FeeOK, LpOK, SettingOK
<1>2. paramKBefore \in Nat
  BY DEF MInv, IInv, FeeOK
<1>3. CASE f = 0 \/ l = 0 \/ k <= l
  <2>1. fee = 0
    BY <1>1, <1>3 DEF FeeLiquidity
  <2>2. ~Charged
    BY <1>1, <1>2, <1>3 DEF Charged, SwapGrowth, MInv, MeasuredFromLast
  <2> QED
    BY <1>1, <2>1, <2>2 DEF FeesFit
<1>4. CASE ~(f = 0 \/ l = 0 \/ k <= l)
  <2>1. PICK g \in Nat : g = k - l /\ k = l + g /\ g > 0
    BY <1>1, <1>4
  <2>2. SwapGrowth = g /\ Charged
    BY <1>1, <1>2, <1>4, <2>1 DEF Charged, SwapGrowth, MInv, MeasuredFromLast
  <2>3. fee = (s * g) \div (((r - f) * k) \div f + l)
    BY <1>1, <1>4, <2>1 DEF FeeLiquidity
  <2>4. /\ fee > 0 => r * fee * k < f * (g * (s + fee) + fee)
        /\ ~(r * (fee + 1) * k <= f * (g * (s + (fee + 1))))
    <3>1. /\ r \in Nat /\ f \in Nat \ {0} /\ f <= r /\ k \in Nat /\ l \in Nat \ {0}
          /\ g \in Nat /\ k = l + g /\ s \in Nat
      BY <1>1, <1>4, <2>1
    <3> QED
      BY ONLY <2>3, <3>1, FeeArithmetic, Zenon
  <2>5. FeesWithinRounding(fee) <=> r * fee * k < f * (g * (s + fee) + fee)
    BY <1>1, <2>2 DEF FeesWithinRounding
  <2>6. FeesAtMost(fee + 1) <=> r * (fee + 1) * k <= f * (g * (s + (fee + 1)))
    BY <1>1, <2>2 DEF FeesAtMost
  <2> QED
    BY <1>1, <2>2, <2>4, <2>5, <2>6 DEF FeesFit
<1> QED
  BY <1>3, <1>4

(* What _mintProtocolFees mints is what the treasury gets.                 *)
LEMMA MintedAreFees ==
    ASSUME Assumptions, MInv, bootstrapped, NEW u \in Holder, NEW minted \in Int,
           u = Treasury => minted = 0, MintLp(u, minted)
    PROVE  FeesFit(Fees)
<1>1. PICK n \in Nat : n = FeeLiquidity /\ FeesFit(n)
  BY FeeLiquidityFits
<1>2. Treasury \in Holder /\ balanceOf[Treasury] \in Int
  BY Numbers DEF MInv, IInv, LpOK, Holder
<1>3. balanceOf'[Treasury] = balanceOf[Treasury] + n + (IF Treasury = u THEN minted ELSE 0)
  BY <1>1, <1>2 DEF MintLp
<1>4. Fees = n
  BY <1>2, <1>3 DEF Fees
<1> QED
  BY <1>1, <1>4

(* A step that changes the pool or the supply.                             *)
FeesStep ==
    <<poolVars, totalSupply>>' # <<poolVars, totalSupply>> /\ bootstrapped =>
       LET charged == protocolSwapFee > 0 /\ lastParamK > 0 /\ SwapGrowth > 0
       IN  /\ Fees > 0 => charged /\ FeesWithinRounding(Fees)
           /\ <<lastCurveShiftBlock, totalSupply>>' # <<lastCurveShiftBlock, totalSupply>>
                => (charged => ~FeesAtMost(Fees + 1))

LEMMA FittingStep == FeesFit(Fees) => FeesStep
BY DEF FeesFit, FeesStep, Charged

LEMMA UpdateMeasures == UpdateLastParamK => MeasuredFromLast'
BY DEF UpdateLastParamK, MeasuredFromLast

LEMMA LiquidityMeasured ==
    ASSUME Assumptions, MInv, bootstrapped, NEW u \in User, NEW minted \in Int,
           UpdateLastParamK, MintLp(u, minted)
    PROVE  MeasuredFromLast' /\ FeesStep
<1>1. u \in Holder /\ u # Treasury
  BY DEF Assumptions, HolderAssumption, Holder
<1> QED
  BY <1>1, MintedAreFees, FittingStep, UpdateMeasures

LEMMA SwapMeasured ==
    ASSUME Assumptions, MInv, NEW xyt, NEW token, Swap(xyt, token)
    PROVE  MeasuredFromLast' /\ FeesStep
<1>1. bootstrapped /\ CurveShift
  BY DEF Swap, Allowed, SwapBy
<1>2. CASE NeedCurveShift
  <2>1. MintLp(Treasury, 0) /\ Treasury \in Holder
    BY <1>2, Numbers DEF Swap
  <2>2. FeesFit(Fees)
    BY <1>1, <2>1, MintedAreFees
  <2>3. MeasuredFromLast'
    BY <1>2 DEF Swap, MeasuredFromLast
  <2> QED
    BY <2>2, <2>3, FittingStep
<1>3. CASE ~NeedCurveShift
  <2>1. UNCHANGED <<feeVars, lpVars, lastCurveShiftBlock>>
    BY <1>1, <1>3 DEF Swap, CurveShift
  <2>2. Fees = 0
    BY <2>1, Numbers DEF Fees, lpVars, MInv, IInv, LpOK
  <2>3. MeasuredFromLast'
    BY <2>1 DEF MInv, MeasuredFromLast, feeVars
  <2>4. UNCHANGED <<lastCurveShiftBlock, totalSupply>>
    BY <2>1 DEF lpVars
  <2> QED
    BY <2>2, <2>3, <2>4 DEF FeesStep
<1> QED
  BY <1>2, <1>3

LEMMA MeasuredStep == Assumptions /\ MInv /\ [Next]_vars => MInv' /\ FeesStep
<1> SUFFICES ASSUME Assumptions, MInv, [Next]_vars PROVE MeasuredFromLast' /\ FeesStep
  BY NextInv DEF MInv
<1>1. ASSUME NEW u, NEW xyt, NEW token, NEW lp, Bootstrap(u, xyt, token, lp)
      PROVE  MeasuredFromLast' /\ FeesStep
  BY <1>1, UpdateMeasures DEF Bootstrap, FeesStep
<1>2. ASSUME NEW u \in User, NEW xyt \in Amount, NEW token \in Amount,
             AddMarketLiquidityDual(u, xyt, token)
      PROVE  MeasuredFromLast' /\ FeesStep
  <2>1. bootstrapped /\ UpdateLastParamK /\ MintLp(u, DualIn(xyt, token).lp)
    BY <1>2 DEF AddMarketLiquidityDual, Allowed
  <2>2. PICK minted \in Int : minted = DualIn(xyt, token).lp
    BY <2>1, DualLpType DEF MInv
  <2> QED
    BY <2>1, <2>2, LiquidityMeasured
<1>3. ASSUME NEW u \in User, NEW x, NEW t, NEW lp \in LpAmount,
             \/ AddMarketLiquiditySingle(u, x, t, lp)
             \/ RemoveMarketLiquiditySingle(u, x, t, lp)
             \/ RemoveMarketLiquidityDual(u, lp)
      PROVE  MeasuredFromLast' /\ FeesStep
  <2>1. /\ bootstrapped /\ UpdateLastParamK /\ lp \in Int /\ -lp \in Int
        /\ MintLp(u, lp) \/ MintLp(u, -lp)
    BY <1>3, Numbers DEF AddMarketLiquiditySingle, RemoveMarketLiquiditySingle,
                         RemoveMarketLiquidityDual, Allowed
  <2> QED
    BY <2>1, LiquidityMeasured
<1>4. ASSUME NEW xyt, NEW token, Swap(xyt, token) PROVE MeasuredFromLast' /\ FeesStep
  BY <1>4, SwapMeasured
<1>5. CASE UNCHANGED <<poolVars, feeVars, totalSupply>>
  BY <1>5 DEF MInv, MeasuredFromLast, FeesStep, feeVars
<1>6. CASE \/ \E from \in User, to \in Holder, amount \in LpAmount : TransferLp(from, to, amount)
           \/ \E h \in Holder : RedeemLpInterests(h)
           \/ \E market, itsForge \in BOOLEAN : SetPaused(market, itsForge)
           \/ \E fee \in ProtocolFee : SetMarketFees(fee)
           \/ \E d \in Delta : SetInterestUpdateRateDelta(d)
           \/ \E income \in Income : RateRises(income)
           \/ RedeemDueInterests
           \/ NextBlock
           \/ UNCHANGED vars
  BY <1>5, <1>6 DEF TransferLp, RedeemLpInterests, SetPaused, SetMarketFees,
                    SetInterestUpdateRateDelta, RateRises, RedeemDueInterests, NextBlock, vars,
                    lpVars
<1> QED
  BY <1>1, <1>2, <1>3, <1>4, <1>6 DEF Next

(* Under any formula for paramK, any fees and any amounts: the treasury    *)
(* gets LP only for what swaps have added to paramK, the part of it that   *)
(* protocolSwapFee is, rounded, however the fee was changed meanwhile, and *)
(* no growth is left uncharged when the supply or the weights change       *)
(* (PendleMarketBase.sol:763-793).                                         *)
THEOREM FeesOfSwapGrowth ==
    ASSUME Assumptions
    PROVE  Spec => FeesAreOfSwapGrowth
<1>1. Init => MInv
  BY InitInv DEF Init, MInv, MeasuredFromLast
<1>2. MInv /\ [Next]_vars => MInv'
  BY MeasuredStep
<1>3. MInv /\ [Next]_vars =>
        [<<poolVars, totalSupply>>' # <<poolVars, totalSupply>> /\ bootstrapped =>
          LET charged == protocolSwapFee > 0 /\ lastParamK > 0 /\ SwapGrowth > 0
          IN  /\ Fees > 0 => charged /\ FeesWithinRounding(Fees)
              /\ <<lastCurveShiftBlock, totalSupply>>' # <<lastCurveShiftBlock, totalSupply>>
                   => (charged => ~FeesAtMost(Fees + 1)) ]_vars
  BY MeasuredStep DEF FeesStep
<1> QED
  BY <1>1, <1>2, <1>3, PTL DEF Spec, FeesAreOfSwapGrowth
=============================================================================
