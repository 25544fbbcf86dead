------------------------ MODULE RewardManager_proofs ------------------------
(***************************************************************************)
(* Proofs about RewardManager: paramL never falls behind a user (the       *)
(* inductive invariant IInv), so no settlement reverts, nobody loses       *)
(* rewards, and (CInv) what everybody is owed is in the holder and is      *)
(* shared equally.  At the end, what is proved of CompoundMarket, which    *)
(* shares income with the same device, for the pair of MCAccumulators.     *)
(***************************************************************************)
EXTENDS MCAccumulators, Sums

USE UserAssumption, MultiplierAssumption, BoundAssumption, FrequencyAssumption

-----------------------------------------------------------------------------
(* The invariant: nobody was settled at a paramL still to come, and what   *)
(* is recorded as distributed is in the holder.                            *)
IInv ==
    /\ TypeOK
    /\ \A u \in User : lastParamL[u] <= paramL
    /\ lastRewardBalance <= held

LEMMA NewParamLGrows ==
    ASSUME IInv, NEW manual \in BOOLEAN
    PROVE  NewParamL(manual) \in Nat /\ paramL <= NewParamL(manual)
<1>1. NewRewards \in Nat
  BY DEF IInv, TypeOK, NewRewards, CurrentRewardBalance
<1>2. paramL \in Nat /\ totalOT \in Nat
  BY DEF IInv, TypeOK
<1>3. CASE totalOT = 0
  BY <1>2, <1>3 DEF NewParamL
<1>4. CASE totalOT # 0
  <2> DEFINE second == (NewRewards * MULTIPLIER) \div totalOT
  <2>1. NewRewards * MULTIPLIER \in Nat
    BY <1>1
  <2>2. second \in Nat
    BY <2>1, <1>2, <1>4, DivisionDef
  <2>3. NewParamL(manual) = paramL \/ NewParamL(manual) = (IF paramL = 0 THEN 1 ELSE paramL) + second
    BY <1>4 DEF NewParamL
  <2> HIDE DEF second
  <2> QED BY <1>2, <2>2, <2>3
<1> QED BY <1>3, <1>4

LEMMA SettledRewardsGrow ==
    ASSUME IInv, NEW u \in User, NEW L \in Nat, paramL <= L
    PROVE  SettledRewards(u, L) \in Nat /\ Claim(u) \in Nat /\ Claim(u) <= SettledRewards(u, L)
<1> DEFINE m == lastParamL[u]
<1> DEFINE a == ot[u] * (paramL - m)
<1> DEFINE b == ot[u] * (L - m)
<1>1. m \in Nat /\ m <= paramL /\ paramL \in Nat /\ ot[u] \in Nat /\ dueRewards[u] \in Nat
  BY DEF IInv, TypeOK
<1>2. a \in Nat /\ b \in Nat /\ a <= b
  <2>1. paramL - m \in Nat /\ L - m \in Nat /\ paramL - m <= L - m
    BY <1>1
  <2> QED BY <1>1, <2>1
<1> HIDE DEF a, b
<1>3. a \div MULTIPLIER \in Nat /\ b \div MULTIPLIER \in Nat /\ a \div MULTIPLIER <= b \div MULTIPLIER
  BY <1>2, DivisionDef, DivisionMonotone
<1>4. /\ RewardsFromOT(u, paramL) = IF m = 0 THEN 0 ELSE a \div MULTIPLIER
      /\ RewardsFromOT(u, L) = IF m = 0 THEN 0 ELSE b \div MULTIPLIER
  BY DEF RewardsFromOT, a, b
<1> QED BY <1>1, <1>3, <1>4 DEF SettledRewards, Claim

(* What bringing paramL up to date leaves behind. *)
LEMMA Updating ==
    ASSUME IInv, NEW manual \in BOOLEAN, NEW paid \in Nat, UpdateParamL(manual, paid),
           UNCHANGED block
    PROVE  /\ paramL' \in Nat /\ paramL <= paramL'
           /\ lastRewardBalance' \in Nat /\ lastRewardBalance' <= held'
           /\ held' \in Nat /\ unclaimed' \in Nat /\ lastUpdated' \in Nat
<1>1. paramL' \in Nat /\ paramL <= paramL'
  BY NewParamLGrows DEF UpdateParamL
<1>2. lastUpdated' \in Nat /\ unclaimed' \in Nat
  BY DEF UpdateParamL, IInv, TypeOK
<1>3. /\ lastRewardBalance' \in Nat /\ lastRewardBalance' <= held'
      /\ held' \in Nat
  BY DEF UpdateParamL, Accounted, CurrentRewardBalance, IInv, TypeOK
<1> QED BY <1>1, <1>2, <1>3

LEMMA InitHolds == Init => IInv
<1> SUFFICES ASSUME Init PROVE IInv
  OBVIOUS
<1>1. skippingRewards \in BOOLEAN
  BY Zenon DEF Init
<1> QED BY <1>1 DEF Init, IInv, TypeOK

(* The hook of the OT settles S; then the OT moves. *)
LEMMA HookStep ==
    ASSUME IInv, NEW S \in SUBSET User, UpdatePendingRewards(S),
           UNCHANGED <<block, wallet, settingVars>>,
           ot' \in [User -> Nat], totalOT' \in Nat
    PROVE  IInv'
<1>1. UpdateParamL(FALSE, 0) /\ block' = block
  BY DEF UpdatePendingRewards
<1>2. lastParamL' \in [User -> Nat] /\ \A u \in User : lastParamL'[u] <= paramL'
  <2>1. paramL' \in Nat /\ paramL <= paramL' /\ paramL \in Nat
    BY <1>1, Updating DEF IInv, TypeOK
  <2>2. lastParamL' = [u \in User |-> IF u \in S THEN paramL' ELSE lastParamL[u]]
    BY DEF UpdatePendingRewards
  <2>3. \A u \in User : lastParamL[u] \in Nat /\ lastParamL[u] <= paramL
    BY DEF IInv, TypeOK
  <2> QED BY <2>1, <2>2, <2>3
<1>3. dueRewards' \in [User -> Nat]
  <2>1. \A u \in User : SettledRewards(u, paramL') \in Nat /\ dueRewards[u] \in Nat
    BY <1>1, Updating, SettledRewardsGrow DEF IInv, TypeOK
  <2> QED BY <2>1 DEF UpdatePendingRewards
<1> QED BY <1>1, <1>2, <1>3, Updating DEF IInv, TypeOK, settingVars

LEMMA RedeemRewardsStep ==
    ASSUME IInv, NEW u \in User, RedeemRewards(u)
    PROVE  IInv'
<1> DEFINE L == NewParamL(FALSE)
<1> DEFINE paid == SettledRewards(u, L)
<1>1. L \in Nat /\ paramL <= L
  BY NewParamLGrows
<1>2. paid \in Nat
  BY <1>1, SettledRewardsGrow
<1>3. /\ UpdateParamL(FALSE, paid) /\ paramL' = L
      /\ lastParamL' = [lastParamL EXCEPT ![u] = L]
      /\ dueRewards' = [dueRewards EXCEPT ![u] = 0]
      /\ wallet' = [wallet EXCEPT ![u] = @ + paid]
      /\ UNCHANGED <<block, ot, totalOT, settingVars>>
  BY DEF RedeemRewards, UpdateParamL
<1> HIDE DEF L, paid
<1>4. lastParamL' \in [User -> Nat] /\ \A w \in User : lastParamL'[w] <= paramL'
  BY <1>1, <1>3 DEF IInv, TypeOK
<1>5. dueRewards' \in [User -> Nat] /\ wallet' \in [User -> Nat]
  BY <1>2, <1>3 DEF IInv, TypeOK
<1> QED BY <1>2, <1>3, <1>4, <1>5, Updating DEF IInv, TypeOK, settingVars

LEMMA NextHolds == IInv /\ [Next]_vars => IInv'
<1> SUFFICES ASSUME IInv, [Next]_vars PROVE IInv'
  OBVIOUS
<1>1. ASSUME NEW u \in User, RedeemRewards(u) PROVE IInv'
  BY <1>1, RedeemRewardsStep
<1>2. CASE UpdateParamLManual
  <2>1. /\ UpdateParamL(TRUE, 0)
        /\ UNCHANGED <<block, ot, totalOT, wallet, settingVars, lastParamL, dueRewards>>
    BY <1>2 DEF UpdateParamLManual
  <2>2. /\ paramL' \in Nat /\ paramL <= paramL'
        /\ lastRewardBalance' \in Nat /\ lastRewardBalance' <= held'
        /\ held' \in Nat /\ unclaimed' \in Nat /\ lastUpdated' \in Nat
    BY <2>1, Updating
  <2>3. \A u \in User : lastParamL'[u] <= paramL'
    BY <2>1, <2>2 DEF IInv, TypeOK
  <2> QED BY <2>1, <2>2, <2>3 DEF IInv, TypeOK, settingVars
<1>3. ASSUME NEW to \in User, NEW amount \in 1..MaxOT, MintOt(to, amount) PROVE IInv'
  <2>1. ot' \in [User -> Nat] /\ totalOT' \in Nat
    BY <1>3 DEF MintOt, IInv, TypeOK
  <2> QED BY <1>3, <2>1, HookStep DEF MintOt
<1>4. ASSUME NEW u \in User, NEW amount \in 1..MaxOT, BurnOt(u, amount) PROVE IInv'
  <2>1. ot' \in [User -> Nat] /\ totalOT' \in Nat
    BY <1>4 DEF BurnOt, IInv, TypeOK
  <2> QED BY <1>4, <2>1, HookStep DEF BurnOt
<1>5. ASSUME NEW from \in User, NEW to \in User, NEW amount \in 0..MaxOT,
             TransferOt(from, to, amount)
      PROVE  IInv'
  <2>1. ot' \in [User -> Nat] /\ totalOT' \in Nat
    BY <1>5 DEF TransferOt, IInv, TypeOK
  <2> QED BY <1>5, <2>1, HookStep DEF TransferOt
<1>6. CASE \/ \E frequency \in Frequency : SetUpdateFrequency(frequency)
           \/ \E b \in BOOLEAN : SetSkippingRewards(b)
  <2>1. ASSUME NEW frequency \in Frequency, SetUpdateFrequency(frequency) PROVE IInv'
    BY <2>1 DEF SetUpdateFrequency, IInv, TypeOK, fundVars, rewardData
  <2>2. ASSUME NEW b \in BOOLEAN, SetSkippingRewards(b) PROVE IInv'
    <3>1. skippingRewards' \in BOOLEAN
      BY <2>2, Zenon DEF SetSkippingRewards
    <3> QED BY <2>2, <3>1 DEF SetSkippingRewards, IInv, TypeOK, fundVars, rewardData
  <2> QED BY <1>6, <2>1, <2>2
<1>7. CASE ClaimForHolder \/ NextBlock \/ \E amount \in 1..MaxReward : Accrue(amount)
  BY <1>7 DEF Accrue, ClaimForHolder, NextBlock, IInv, TypeOK, fundVars, settingVars, rewardData
<1>8. CASE UNCHANGED vars
  BY <1>8 DEF vars, IInv, TypeOK, fundVars, settingVars, rewardData
<1> QED BY <1>1, <1>2, <1>3, <1>4, <1>5, <1>6, <1>7, <1>8 DEF Next

THEOREM InvariantHolds == Spec => []IInv
BY InitHolds, NextHolds, PTL DEF Spec

-----------------------------------------------------------------------------
(* Every reachable state of the reward manager is well typed: neither a    *)
(* reward nor what is recorded as distributed becomes negative.            *)
THEOREM TypeCorrect == Spec => []TypeOK
BY InvariantHolds, PTL DEF IInv

(* A settlement of u before his OT changes: what he had a claim to is due. *)
LEMMA HookKeepsClaims ==
    ASSUME IInv, NEW S \in SUBSET User, UpdatePendingRewards(S), UNCHANGED <<block, wallet>>,
           ot' \in [User -> Nat], NEW u \in User, u \notin S => ot'[u] = ot[u]
    PROVE  wallet'[u] + Claim(u)' >= wallet[u] + Claim(u)
<1>1. /\ UpdateParamL(FALSE, 0)
      /\ lastParamL' = [w \in User |-> IF w \in S THEN paramL' ELSE lastParamL[w]]
      /\ dueRewards' = [w \in User |-> IF w \in S THEN SettledRewards(w, paramL') ELSE dueRewards[w]]
  BY DEF UpdatePendingRewards
<1>2. paramL' \in Nat /\ paramL <= paramL'
  BY <1>1, Updating
<1>3. /\ SettledRewards(u, paramL') \in Nat
      /\ Claim(u) \in Nat
      /\ Claim(u) <= SettledRewards(u, paramL')
  BY <1>2, SettledRewardsGrow
<1>4. Claim(u)' = SettledRewards(u, paramL')
  <2>1. Claim(u)' = dueRewards'[u] + (IF lastParamL'[u] = 0 THEN 0
                                      ELSE (ot'[u] * (paramL' - lastParamL'[u])) \div MULTIPLIER)
    BY DEF Claim, SettledRewards, RewardsFromOT
  <2>2. CASE u \in S
    <3>1. lastParamL'[u] = paramL' /\ dueRewards'[u] = SettledRewards(u, paramL')
      BY <1>1, <2>2
    <3>2. ot'[u] * (paramL' - lastParamL'[u]) = 0
      BY <1>2, <3>1
    <3>3. 0 \div MULTIPLIER = 0
      OBVIOUS
    <3> QED BY <1>3, <2>1, <3>1, <3>2, <3>3
  <2>3. CASE u \notin S
    BY <1>1, <2>1, <2>3 DEF SettledRewards, RewardsFromOT
  <2> QED BY <2>2, <2>3
<1> QED BY <1>3, <1>4 DEF IInv, TypeOK

(* Nobody loses rewards, for any supply, multiplier and frequency: however *)
(* OT moves and whoever redeems, what a user has received and can claim    *)
(* never falls.                                                            *)
THEOREM NobodyLosesRewards == Spec => RewardsAreKept
<1> DEFINE Kept == \A u \in User : wallet'[u] + Claim(u)' >= wallet[u] + Claim(u)
<1>1. ASSUME IInv, Next PROVE Kept
  <2> SUFFICES ASSUME NEW u \in User
               PROVE  wallet'[u] + Claim(u)' >= wallet[u] + Claim(u)
    OBVIOUS
  <2>0. /\ wallet[u] \in Nat /\ Claim(u) \in Nat /\ paramL \in Nat
        /\ ot \in [User -> Nat]
    BY <1>1, SettledRewardsGrow DEF IInv, TypeOK
  <2>1. ASSUME NEW w \in User, RedeemRewards(w)
        PROVE  wallet'[u] + Claim(u)' >= wallet[u] + Claim(u)
    <3> DEFINE L == NewParamL(FALSE)
    <3>1. L \in Nat /\ paramL <= L
      BY <1>1, NewParamLGrows
    <3>2. /\ SettledRewards(u, L) \in Nat /\ Claim(u) <= SettledRewards(u, L)
          /\ SettledRewards(w, L) \in Nat
      BY <1>1, <3>1, SettledRewardsGrow
    <3>3. /\ paramL' = L /\ ot' = ot
          /\ lastParamL' = [lastParamL EXCEPT ![w] = L]
          /\ dueRewards' = [dueRewards EXCEPT ![w] = 0]
          /\ wallet' = [wallet EXCEPT ![w] = @ + SettledRewards(w, L)]
      BY <2>1 DEF RedeemRewards, UpdateParamL
    <3>4. Claim(u)' = dueRewards'[u] + (IF lastParamL'[u] = 0 THEN 0
                                        ELSE (ot'[u] * (paramL' - lastParamL'[u])) \div MULTIPLIER)
      BY DEF Claim, SettledRewards, RewardsFromOT
    <3> HIDE DEF L
    <3>5. CASE u = w
      <4>1. lastParamL'[u] = L /\ dueRewards'[u] = 0 /\ wallet'[u] = wallet[u] + SettledRewards(u, L)
        BY <1>1, <3>3, <3>5 DEF IInv, TypeOK
      <4>2. ot'[u] * (paramL' - lastParamL'[u]) = 0 /\ 0 \div MULTIPLIER = 0
        BY <2>0, <3>1, <3>3, <4>1
      <4>3. Claim(u)' = 0
        BY <3>4, <4>1, <4>2
      <4> QED BY <2>0, <3>2, <4>1, <4>3
    <3>6. CASE u # w
      <4>1. Claim(u)' = SettledRewards(u, L) /\ wallet'[u] = wallet[u]
        BY <1>1, <3>3, <3>4, <3>6 DEF SettledRewards, RewardsFromOT, IInv, TypeOK
      <4> QED BY <2>0, <3>2, <4>1
    <3> QED BY <3>5, <3>6
  <2>2. CASE UpdateParamLManual
    <3>1. /\ UpdateParamL(TRUE, 0) /\ UNCHANGED <<block, ot, wallet, lastParamL, dueRewards>>
      BY <2>2 DEF UpdateParamLManual
    <3>2. paramL' \in Nat /\ paramL <= paramL'
      BY <1>1, <3>1, Updating
    <3>3. SettledRewards(u, paramL') \in Nat /\ Claim(u) <= SettledRewards(u, paramL')
      BY <1>1, <3>2, SettledRewardsGrow
    <3>4. Claim(u)' = SettledRewards(u, paramL')
      BY <3>1 DEF Claim, SettledRewards, RewardsFromOT
    <3> QED BY <2>0, <3>1, <3>3, <3>4
  <2>3. ASSUME NEW S \in SUBSET User, UpdatePendingRewards(S), UNCHANGED <<block, wallet>>,
               ot' \in [User -> Nat], u \notin S => ot'[u] = ot[u]
        PROVE  wallet'[u] + Claim(u)' >= wallet[u] + Claim(u)
    BY <1>1, <2>3, HookKeepsClaims
  <2>4. ASSUME NEW to \in User, NEW amount \in 1..MaxOT, MintOt(to, amount)
        PROVE  wallet'[u] + Claim(u)' >= wallet[u] + Claim(u)
    <3>1. ot' \in [User -> Nat] /\ (u \notin {to} => ot'[u] = ot[u])
      BY <2>0, <2>4 DEF MintOt
    <3> QED BY <2>3, <2>4, <3>1 DEF MintOt
  <2>5. ASSUME NEW w \in User, NEW amount \in 1..MaxOT, BurnOt(w, amount)
        PROVE  wallet'[u] + Claim(u)' >= wallet[u] + Claim(u)
    <3>1. ot' \in [User -> Nat] /\ (u \notin {w} => ot'[u] = ot[u])
      BY <2>0, <2>5 DEF BurnOt
    <3> QED BY <2>3, <2>5, <3>1 DEF BurnOt
  <2>6. ASSUME NEW from \in User, NEW to \in User, NEW amount \in 0..MaxOT,
               TransferOt(from, to, amount)
        PROVE  wallet'[u] + Claim(u)' >= wallet[u] + Claim(u)
    <3>1. ot' \in [User -> Nat] /\ (u \notin {from, to} => ot'[u] = ot[u])
      BY <2>0, <2>6 DEF TransferOt
    <3> QED BY <2>3, <2>6, <3>1 DEF TransferOt
  <2>7. ASSUME UNCHANGED <<ot, wallet, rewardData>>
        PROVE  wallet'[u] + Claim(u)' >= wallet[u] + Claim(u)
    <3>1. Claim(u)' = Claim(u) /\ wallet' = wallet
      BY <2>7 DEF Claim, SettledRewards, RewardsFromOT, rewardData
    <3> QED BY <2>0, <3>1
  <2>8. \/ \E w \in User : RedeemRewards(w)
        \/ UpdateParamLManual
        \/ \E to \in User : \E amount \in 1..MaxOT : MintOt(to, amount)
        \/ \E w \in User : \E amount \in 1..MaxOT : BurnOt(w, amount)
        \/ \E from, to \in User : \E amount \in 0..MaxOT : TransferOt(from, to, amount)
        \/ UNCHANGED <<ot, wallet, rewardData>>
    BY <1>1 DEF Next, SetUpdateFrequency, SetSkippingRewards, Accrue, ClaimForHolder, NextBlock, fundVars
  <2> QED BY <2>1, <2>2, <2>4, <2>5, <2>6, <2>7, <2>8
<1>2. IInv /\ [Next]_vars => [Kept]_vars
  BY <1>1
<1> QED BY <1>2, InvariantHolds, PTL DEF Spec, RewardsAreKept

-----------------------------------------------------------------------------
(* What is owed is covered.  The sums over the users in RewardsCovered are  *)
(* one sum, of what each is owed at a paramL, scaled up by MULTIPLIER.      *)
OwedAt(L) ==
    [u \in User |-> MULTIPLIER * dueRewards[u]
                      + (IF lastParamL[u] = 0 THEN 0 ELSE ot[u] * (L - lastParamL[u]))]

(* RewardsCovered, with nobody settled at a paramL to come.                *)
CInv ==
    /\ IInv
    /\ totalOT = SumIn(ot, User)
    /\ SumIn(OwedAt(paramL), User) <= MULTIPLIER * lastRewardBalance

LEMMA OwedTyped ==
    ASSUME IInv, NEW L \in Nat, paramL <= L
    PROVE  /\ \A u \in User : OwedAt(L)[u] \in Nat
           /\ SumIn(OwedAt(L), User) \in Nat
<1>1. ASSUME NEW u \in User PROVE OwedAt(L)[u] \in Nat
  <2>1. /\ dueRewards[u] \in Nat /\ lastParamL[u] \in Nat /\ ot[u] \in Nat
        /\ L - lastParamL[u] \in Nat
    BY DEF IInv, TypeOK
  <2>2. MULTIPLIER * dueRewards[u] \in Nat /\ ot[u] * (L - lastParamL[u]) \in Nat
    BY <2>1
  <2> QED
    BY <2>2 DEF OwedAt
<1> QED
  BY <1>1, SumNat

(* Nobody is owed more by a rise of paramL than his OT times the rise.     *)
LEMMA OwedRises ==
    ASSUME IInv, NEW u \in User, NEW d \in Nat
    PROVE  OwedAt(paramL + d)[u] <= OwedAt(paramL)[u] + d * ot[u]
<1>1. PICK a \in Nat, b \in Nat, m \in Nat, p \in Nat :
         a = MULTIPLIER * dueRewards[u] /\ b = ot[u] /\ m = lastParamL[u] /\ p = paramL
  BY DEF IInv, TypeOK
<1>2. /\ OwedAt(paramL + d)[u] = a + (IF m = 0 THEN 0 ELSE b * ((p + d) - m))
      /\ OwedAt(paramL)[u] = a + (IF m = 0 THEN 0 ELSE b * (p - m))
  BY <1>1 DEF OwedAt
<1>3. b * ((p + d) - m) = b * (p - m) + d * b /\ d * b \in Nat /\ b * (p - m) \in Int
  OBVIOUS
<1>4. a + (IF m = 0 THEN 0 ELSE b * ((p + d) - m)) <= a + (IF m = 0 THEN 0 ELSE b * (p - m)) + d * b
  BY <1>3
<1> QED
  BY <1>1, <1>2, <1>4

(* An update of paramL owes no more than it records as distributed.        *)
LEMMA UpdateCovered ==
    ASSUME CInv, NEW manual \in BOOLEAN
    PROVE  SumIn(OwedAt(NewParamL(manual)), User) <= MULTIPLIER * Accounted(manual)
<1> DEFINE N == NewRewards
           L == NewParamL(manual)
           d == (N * MULTIPLIER) \div totalOT
<1>1. /\ paramL \in Nat /\ totalOT \in Nat /\ N \in Nat /\ lastRewardBalance \in Nat
      /\ CurrentRewardBalance = lastRewardBalance + N
  BY DEF CInv, IInv, TypeOK, NewRewards, CurrentRewardBalance
<1>2. SumIn(OwedAt(paramL), User) \in Nat
  BY <1>1, OwedTyped DEF CInv
<1>3. CASE ~NeedUpdateParamL(manual)
  BY <1>3 DEF NewParamL, Accounted, CInv
<1>4. CASE NeedUpdateParamL(manual)
  <2>1. Accounted(manual) = lastRewardBalance + N
    BY <1>1, <1>4 DEF Accounted
  <2>2. MULTIPLIER * (lastRewardBalance + N) = MULTIPLIER * lastRewardBalance + N * MULTIPLIER
        /\ MULTIPLIER * lastRewardBalance \in Nat /\ N * MULTIPLIER \in Nat
    BY <1>1
  <2>3. CASE paramL = 0 \/ totalOT = 0
    <3>1. \A u \in User : OwedAt(L)[u] = OwedAt(paramL)[u]
      <4>1. CASE paramL = 0
        <5>1. \A u \in User : lastParamL[u] = 0
          BY <4>1 DEF CInv, IInv, TypeOK
        <5> QED
          BY <5>1 DEF OwedAt
      <4>2. CASE paramL # 0 /\ totalOT = 0
        <5>1. L = paramL
          BY <1>1, <1>4, <4>2 DEF NewParamL
        <5> QED
          BY <5>1
      <4> QED
        BY <2>3, <4>1, <4>2
    <3>2. SumIn(OwedAt(L), User) = SumIn(OwedAt(paramL), User)
      <4>1. \A u \in User : OwedAt(paramL)[u] \in Int
        BY <1>1, OwedTyped DEF CInv
      <4> HIDE DEF L
      <4> QED
        BY <3>1, <4>1, SumSame
    <3> HIDE DEF N
    <3> QED
      BY <1>1, <1>2, <2>1, <2>2, <3>2 DEF CInv
  <2>4. CASE paramL # 0 /\ totalOT # 0
    <3>1. d \in Nat /\ totalOT * d <= N * MULTIPLIER
      BY <1>1, <2>2, <2>4, DivisionDef
    <3>2. L = paramL + d
      BY <1>4, <2>4 DEF NewParamL
    <3> HIDE DEF N, L, d
    <3> DEFINE more == [u \in User |-> d * ot[u]]
               bound == [u \in User |-> OwedAt(paramL)[u] + more[u]]
    <3>3. \A u \in User : /\ ot[u] \in Nat /\ more[u] = d * ot[u] /\ more[u] \in Nat
                          /\ bound[u] = OwedAt(paramL)[u] + more[u]
                          /\ OwedAt(paramL)[u] \in Nat /\ bound[u] \in Nat
                          /\ OwedAt(L)[u] \in Nat /\ OwedAt(L)[u] <= bound[u]
      <4> SUFFICES ASSUME NEW u \in User
                   PROVE  /\ ot[u] \in Nat /\ more[u] = d * ot[u] /\ more[u] \in Nat
                          /\ bound[u] = OwedAt(paramL)[u] + more[u]
                          /\ OwedAt(paramL)[u] \in Nat /\ bound[u] \in Nat
                          /\ OwedAt(L)[u] \in Nat /\ OwedAt(L)[u] <= bound[u]
        OBVIOUS
      <4>1. ot[u] \in Nat
        BY DEF CInv, IInv, TypeOK
      <4>2. d * ot[u] \in Nat
        BY <3>1, <4>1
      <4>3. OwedAt(paramL)[u] \in Nat /\ OwedAt(L)[u] \in Nat
        BY <1>1, <3>1, <3>2, OwedTyped DEF CInv
      <4>4. OwedAt(L)[u] <= OwedAt(paramL)[u] + d * ot[u]
        BY <3>1, <3>2, OwedRises DEF CInv
      <4> QED
        BY <4>1, <4>2, <4>3, <4>4
    <3> HIDE DEF more, bound
    <3>4. SumIn(OwedAt(L), User) <= SumIn(bound, User)
      BY <3>3, SumMonotone
    <3>5. SumIn(bound, User) = SumIn(OwedAt(paramL), User) + SumIn(more, User)
      BY <3>3, SumPlus
    <3>6. SumIn(more, User) = d * SumIn(ot, User)
      BY <3>1, <3>3, SumTimes
    <3>7. SumIn(more, User) = totalOT * d
      BY <1>1, <3>1, <3>6 DEF CInv
    <3>8. SumIn(OwedAt(L), User) \in Nat
      BY <1>1, <3>1, <3>2, OwedTyped DEF CInv
    <3>9. totalOT * d \in Nat
      BY <1>1, <3>1
    <3> QED
      BY <1>2, <2>1, <2>2, <3>1, <3>4, <3>5, <3>7, <3>8, <3>9 DEF CInv, L
  <2> QED
    BY <1>1, <2>3, <2>4
<1> QED
  BY <1>3, <1>4

(* Settling u at L leaves him no more than he was owed.                    *)
LEMMA SettledIsOwed ==
    ASSUME IInv, NEW u \in User, NEW L \in Nat, paramL <= L
    PROVE  MULTIPLIER * SettledRewards(u, L) <= OwedAt(L)[u]
<1> DEFINE x == IF lastParamL[u] = 0 THEN 0 ELSE ot[u] * (L - lastParamL[u])
<1>1. x \in Nat /\ dueRewards[u] \in Nat
  <2>1. lastParamL[u] \in Nat /\ ot[u] \in Nat /\ L - lastParamL[u] \in Nat
    BY DEF IInv, TypeOK
  <2>2. ot[u] * (L - lastParamL[u]) \in Nat
    BY <2>1
  <2> QED
    BY <2>2 DEF IInv, TypeOK
<1>2. RewardsFromOT(u, L) = x \div MULTIPLIER
  <2>1. 0 \div MULTIPLIER = 0
    OBVIOUS
  <2> QED
    BY <2>1 DEF RewardsFromOT
<1>3. OwedAt(L)[u] = MULTIPLIER * dueRewards[u] + x
  BY DEF OwedAt
<1> HIDE DEF x
<1>4. PICK q : q = x \div MULTIPLIER
  OBVIOUS
<1>5. q \in Nat /\ MULTIPLIER * q <= x
  BY <1>1, <1>4, DivisionDef
<1>6. MULTIPLIER * (dueRewards[u] + q) = MULTIPLIER * dueRewards[u] + MULTIPLIER * q
      /\ MULTIPLIER * dueRewards[u] \in Nat /\ MULTIPLIER * q \in Nat
  BY <1>1, <1>5
<1> QED
  BY <1>1, <1>2, <1>3, <1>4, <1>5, <1>6 DEF SettledRewards

(* The same, with names for what the update leaves.                        *)
LEMMA AccountedCovers ==
    ASSUME CInv
    PROVE  \A manual \in BOOLEAN : \E L \in Nat, acc \in Nat :
              /\ L = NewParamL(manual) /\ acc = Accounted(manual)
              /\ paramL <= L
              /\ SumIn(OwedAt(L), User) <= MULTIPLIER * acc
<1> SUFFICES ASSUME NEW manual \in BOOLEAN
             PROVE  \E L \in Nat, acc \in Nat :
                       /\ L = NewParamL(manual) /\ acc = Accounted(manual)
                       /\ paramL <= L
                       /\ SumIn(OwedAt(L), User) <= MULTIPLIER * acc
  OBVIOUS
<1>1. CurrentRewardBalance \in Nat /\ lastRewardBalance \in Nat
  BY DEF CurrentRewardBalance, CInv, IInv, TypeOK
<1>2. Accounted(manual) \in Nat
  BY <1>1, Zenon DEF Accounted
<1> QED
  BY <1>2, UpdateCovered, NewParamLGrows DEF CInv

(* The hook of the OT settles S: nobody is owed more than at the new       *)
(* paramL before, whatever OT those of S have after.                       *)
LEMMA HookCovered ==
    ASSUME CInv, NEW S \in SUBSET User, UpdatePendingRewards(S), IInv',
           \A u \in User \ S : ot'[u] = ot[u]
    PROVE  SumIn(OwedAt(paramL)', User) <= MULTIPLIER * lastRewardBalance'
<1>1. PICK L \in Nat, acc \in Nat :
         /\ L = NewParamL(FALSE) /\ acc = Accounted(FALSE)
         /\ paramL <= L
         /\ SumIn(OwedAt(L), User) <= MULTIPLIER * acc
  BY AccountedCovers, Zenon
<1>2. /\ paramL' = L /\ lastRewardBalance' = acc
      /\ lastParamL' = [u \in User |-> IF u \in S THEN L ELSE lastParamL[u]]
      /\ dueRewards' = [u \in User |-> IF u \in S THEN SettledRewards(u, L) ELSE dueRewards[u]]
  <2>1. /\ paramL' = NewParamL(FALSE) /\ lastRewardBalance' = Accounted(FALSE) - 0
        /\ lastParamL' = [u \in User |-> IF u \in S THEN paramL' ELSE lastParamL[u]]
        /\ dueRewards' = [u \in User |-> IF u \in S THEN SettledRewards(u, paramL') ELSE dueRewards[u]]
    BY Zenon DEF UpdatePendingRewards, UpdateParamL
  <2>2. acc - 0 = acc
    OBVIOUS
  <2> QED
    BY <1>1, <2>1, <2>2, Zenon
<1>3. L \in Nat /\ paramL <= L
  BY <1>1, Zenon
<1>4. PICK owed : owed = OwedAt(paramL)'
  OBVIOUS
<1>5. ASSUME NEW u \in User
      PROVE  OwedAt(L)[u] \in Nat /\ owed[u] \in Int /\ owed[u] <= OwedAt(L)[u]
  <2>1. owed[u] = MULTIPLIER * dueRewards'[u]
                    + (IF lastParamL'[u] = 0 THEN 0 ELSE ot'[u] * (L - lastParamL'[u]))
    BY <1>2, <1>4 DEF OwedAt
  <2>2. OwedAt(L)[u] \in Nat
    BY <1>3, OwedTyped DEF CInv
  <2>3. CASE u \in S
    <3>1. lastParamL'[u] = L /\ dueRewards'[u] = SettledRewards(u, L)
      BY <1>2, <2>3
    <3>2. ot'[u] \in Nat
      BY DEF IInv, TypeOK
    <3>3. ot'[u] * (L - L) = 0
      BY <1>3, <3>2
    <3>4. SettledRewards(u, L) \in Nat /\ MULTIPLIER * SettledRewards(u, L) <= OwedAt(L)[u]
      BY <1>3, SettledRewardsGrow, SettledIsOwed DEF CInv
    <3>5. MULTIPLIER * SettledRewards(u, L) \in Nat
      BY <3>4
    <3>6. owed[u] = MULTIPLIER * SettledRewards(u, L)
      BY <2>1, <3>1, <3>3, <3>5
    <3> QED
      BY <2>2, <3>4, <3>5, <3>6
  <2>4. CASE u \notin S
    <3>1. lastParamL'[u] = lastParamL[u] /\ dueRewards'[u] = dueRewards[u] /\ ot'[u] = ot[u]
      BY <1>2, <2>4
    <3>2. owed[u] = OwedAt(L)[u]
      BY <2>1, <3>1 DEF OwedAt
    <3> QED
      BY <2>2, <3>2
  <2> QED
    BY <2>3, <2>4
<1>6. SumIn(owed, User) <= SumIn(OwedAt(L), User)
  BY <1>5, SumMonotone
<1>7. SumIn(owed, User) \in Int /\ SumIn(OwedAt(L), User) \in Int
  BY <1>5, SumInt
<1>8. SumIn(OwedAt(L), User) <= MULTIPLIER * acc
  BY <1>1, Zenon
<1>9. SumIn(owed, User) <= MULTIPLIER * acc
  BY <1>6, <1>7, <1>8
<1> QED
  BY <1>2, <1>4, <1>9

(* A redemption takes from what is owed at least what it pays.             *)
LEMMA RedeemCovered ==
    ASSUME CInv, NEW u \in User, RedeemRewards(u), IInv'
    PROVE  SumIn(OwedAt(paramL)', User) <= MULTIPLIER * lastRewardBalance'
<1>1. PICK L \in Nat, acc \in Nat :
         /\ L = NewParamL(FALSE) /\ acc = Accounted(FALSE)
         /\ paramL <= L
         /\ SumIn(OwedAt(L), User) <= MULTIPLIER * acc
  BY AccountedCovers, Zenon
<1>2. PICK paid : paid = SettledRewards(u, L)
  OBVIOUS
<1>3. /\ L = paramL' /\ ot' = ot
      /\ lastRewardBalance' = acc - paid
      /\ lastParamL' = [lastParamL EXCEPT ![u] = L]
      /\ dueRewards' = [dueRewards EXCEPT ![u] = 0]
  BY <1>1, <1>2, Zenon DEF RedeemRewards, UpdateParamL
<1>4. L \in Nat /\ paramL <= L
  BY <1>1, Zenon
<1>5. paid \in Nat /\ MULTIPLIER * paid <= OwedAt(L)[u]
  BY <1>2, <1>4, SettledRewardsGrow, SettledIsOwed DEF CInv
<1>6. PICK owed : owed = OwedAt(paramL)'
  OBVIOUS
<1>7. \A w \in User : OwedAt(L)[w] \in Int
  BY <1>4, OwedTyped DEF CInv
<1>8. \A w \in User : ot[w] \in Nat /\ lastParamL[w] \in Nat /\ dueRewards[w] \in Nat
  BY DEF CInv, IInv, TypeOK
<1>9. /\ owed[u] = 0
      /\ \A w \in User \ {u} : owed[w] = OwedAt(L)[w]
  <2>1. \A w \in User :
          owed[w] = MULTIPLIER * dueRewards'[w]
                      + (IF lastParamL'[w] = 0 THEN 0 ELSE ot[w] * (L - lastParamL'[w]))
    BY <1>3, <1>6 DEF OwedAt
  <2>2. lastParamL'[u] = L /\ dueRewards'[u] = 0
    BY <1>3 DEF CInv, IInv, TypeOK
  <2>3. ot[u] * (L - L) = 0
    BY <1>4, <1>8
  <2>4. \A w \in User \ {u} : lastParamL'[w] = lastParamL[w] /\ dueRewards'[w] = dueRewards[w]
    BY <1>3 DEF CInv, IInv, TypeOK
  <2>5. owed[u] = 0
    BY <2>1, <2>2, <2>3
  <2> QED
    BY <2>1, <2>4, <2>5 DEF OwedAt
<1>10. SumIn(owed, User) = SumIn(OwedAt(L), User) + (owed[u] - OwedAt(L)[u])
  <2>1. PICK f : f = OwedAt(L)
    OBVIOUS
  <2>2. /\ \A w \in User : f[w] \in Int
        /\ owed[u] \in Int
        /\ \A w \in User \ {u} : owed[w] = f[w]
    BY <1>7, <1>9, <2>1
  <2>3. SumIn(owed, User) = SumIn(f, User) + (owed[u] - f[u])
    BY <2>2, SumChange
  <2> QED
    BY <2>1, <2>3
<1>11. SumIn(OwedAt(L), User) <= MULTIPLIER * acc
  BY <1>1, Zenon
<1>12. SumIn(OwedAt(L), User) \in Int /\ OwedAt(L)[u] \in Int
  BY <1>7, SumInt
<1>13. /\ MULTIPLIER * (acc - paid) = MULTIPLIER * acc - MULTIPLIER * paid
       /\ MULTIPLIER * acc \in Int /\ MULTIPLIER * paid \in Int
  BY <1>5
<1>14. SumIn(owed, User) <= MULTIPLIER * acc - MULTIPLIER * paid
  BY <1>5, <1>9, <1>10, <1>11, <1>12, <1>13
<1> QED
  BY <1>3, <1>6, <1>13, <1>14

(* Every step of the reward manager keeps the supply the sum of the        *)
(* balances, and what is owed covered.                                     *)
LEMMA CoveredStep ==
    ASSUME CInv, [Next]_vars, IInv'
    PROVE  CInv'
<1>0. /\ \A u \in User : ot[u] \in Int
      /\ totalOT \in Int /\ totalOT = SumIn(ot, User) /\ ot \in [User -> Nat]
  BY DEF CInv, IInv, TypeOK
<1>1. ASSUME NEW u \in User, RedeemRewards(u) PROVE CInv'
  BY <1>1, RedeemCovered DEF RedeemRewards, CInv
<1>2. CASE UpdateParamLManual
  <2>1. PICK L \in Nat, acc \in Nat :
           /\ L = NewParamL(TRUE) /\ acc = Accounted(TRUE)
           /\ paramL <= L
           /\ SumIn(OwedAt(L), User) <= MULTIPLIER * acc
    BY AccountedCovers, Zenon
  <2>2. L = paramL' /\ lastRewardBalance' = acc
    <3>1. paramL' = NewParamL(TRUE) /\ lastRewardBalance' = Accounted(TRUE) - 0
      BY <1>2, Zenon DEF UpdateParamLManual, UpdateParamL
    <3>2. acc - 0 = acc
      OBVIOUS
    <3> QED
      BY <2>1, <3>1, <3>2, Zenon
  <2>3. OwedAt(paramL)' = OwedAt(L)
    BY <1>2, <2>2 DEF UpdateParamLManual, OwedAt
  <2>4. SumIn(OwedAt(L), User) <= MULTIPLIER * acc
    BY <2>1, Zenon
  <2> QED
    BY <1>2, <2>2, <2>3, <2>4 DEF UpdateParamLManual, CInv
<1>3. ASSUME NEW to \in User, NEW amount \in 1..MaxOT, MintOt(to, amount) PROVE CInv'
  <2>1. PICK o : o = ot'
    OBVIOUS
  <2>2. o[to] = ot[to] + amount /\ \A w \in User \ {to} : o[w] = ot[w]
    BY <1>0, <1>3, <2>1 DEF MintOt
  <2>3. SumIn(o, User) = SumIn(ot, User) + (o[to] - ot[to])
    <3>1. o[to] \in Int
      BY <1>0, <2>2
    <3> QED
      BY <1>0, <2>2, <3>1, SumChange
  <2>4. totalOT' = SumIn(ot', User)
    BY <1>0, <1>3, <2>1, <2>2, <2>3 DEF MintOt
  <2> QED
    BY <1>3, <2>1, <2>2, <2>4, HookCovered DEF MintOt, CInv
<1>4. ASSUME NEW u \in User, NEW amount \in 1..MaxOT, BurnOt(u, amount) PROVE CInv'
  <2>1. PICK o : o = ot'
    OBVIOUS
  <2>2. o[u] = ot[u] - amount /\ \A w \in User \ {u} : o[w] = ot[w]
    BY <1>0, <1>4, <2>1 DEF BurnOt
  <2>3. SumIn(o, User) = SumIn(ot, User) + (o[u] - ot[u])
    <3>1. o[u] \in Int
      BY <1>0, <2>2
    <3> QED
      BY <1>0, <2>2, <3>1, SumChange
  <2>4. totalOT' = SumIn(ot', User)
    BY <1>0, <1>4, <2>1, <2>2, <2>3 DEF BurnOt
  <2> QED
    BY <1>4, <2>1, <2>2, <2>4, HookCovered DEF BurnOt, CInv
<1>5. ASSUME NEW from \in User, NEW to \in User, NEW amount \in 0..MaxOT,
             TransferOt(from, to, amount)
      PROVE  CInv'
  <2>1. PICK o : o = ot'
    OBVIOUS
  <2>2. /\ from # to /\ o[from] = ot[from] - amount /\ o[to] = ot[to] + amount
        /\ \A w \in User \ {from, to} : o[w] = ot[w]
    BY <1>0, <1>5, <2>1 DEF TransferOt
  <2>3. SumIn(o, User) = SumIn(ot, User)
    <3>1. PICK f : f = ot
      OBVIOUS
    <3>2. /\ f \in [User -> Int] /\ amount \in Int /\ from # to
          /\ o[from] = f[from] - amount /\ o[to] = f[to] + amount
      BY <1>0, <2>2, <3>1
    <3>3. \A w \in User \ {from, to} : o[w] = f[w]
      BY <2>2, <3>1
    <3>4. SumIn(o, User) = SumIn(f, User)
      BY ONLY UserAssumption, from \in User, to \in User, <3>2, <3>3, SumMoved
    <3> QED
      BY <3>1, <3>4
  <2>4. totalOT' = SumIn(ot', User)
    BY <1>0, <1>5, <2>1, <2>2, <2>3 DEF TransferOt
  <2> QED
    BY <1>5, <2>1, <2>2, <2>4, HookCovered DEF TransferOt, CInv
<1>6. CASE UNCHANGED <<ot, totalOT, rewardData>>
  <2>1. OwedAt(paramL)' = OwedAt(paramL)
    BY <1>6 DEF OwedAt, rewardData
  <2> QED
    BY <1>6, <2>1 DEF CInv, rewardData
<1>7. \/ \E u \in User : RedeemRewards(u)
      \/ UpdateParamLManual
      \/ \E to \in User : \E amount \in 1..MaxOT : MintOt(to, amount)
      \/ \E u \in User : \E amount \in 1..MaxOT : BurnOt(u, amount)
      \/ \E from, to \in User : \E amount \in 0..MaxOT : TransferOt(from, to, amount)
      \/ UNCHANGED <<ot, totalOT, rewardData>>
  BY DEF Next, vars, SetUpdateFrequency, SetSkippingRewards, Accrue, ClaimForHolder, NextBlock,
         fundVars
<1> QED
  BY <1>1, <1>2, <1>3, <1>4, <1>5, <1>6, <1>7

LEMMA InitCovered == Init => CInv
<1> SUFFICES ASSUME Init PROVE CInv
  OBVIOUS
<1>1. \A u \in User : ot[u] = 0 /\ OwedAt(paramL)[u] = 0
  BY DEF Init, OwedAt
<1>2. SumIn(ot, User) = 0 /\ SumIn(OwedAt(paramL), User) = 0
  BY <1>1, SumZero
<1>3. IInv
  BY InitHolds
<1> QED
  BY <1>2, <1>3 DEF CInv, Init

LEMMA CoveredHolds == Spec => []CInv
<1>1. CInv /\ [Next]_vars => CInv'
  BY NextHolds, CoveredStep DEF CInv
<1> QED
  BY <1>1, InitCovered, PTL DEF Spec

(* The rewards are covered, for any finite set of users: the supply is the *)
(* sum of the balances, and what was recorded as distributed covers what   *)
(* everybody is owed and is in the holder.                                 *)
THEOREM RewardsAreCovered == Spec => []RewardsCovered
<1>1. CInv => RewardsCovered
  <2> SUFFICES ASSUME CInv PROVE RewardsCovered
    OBVIOUS
  <2> DEFINE due == [u \in User |-> MULTIPLIER * dueRewards[u]]
             unsettled == [u \in User |-> Unsettled(u)]
  <2>1. \A u \in User : /\ due[u] = MULTIPLIER * dueRewards[u] /\ dueRewards[u] \in Nat
                        /\ due[u] \in Nat /\ unsettled[u] \in Int
                        /\ OwedAt(paramL)[u] = due[u] + unsettled[u]
    BY DEF CInv, IInv, TypeOK, OwedAt, Unsettled
  <2>2. SumOver(ot) = SumIn(ot, User) /\ SumOver(dueRewards) = SumIn(dueRewards, User)
        /\ SumOver(unsettled) = SumIn(unsettled, User)
    BY DEF SumOver, SumIn
  <2> HIDE DEF due, unsettled
  <2>3. SumIn(due, User) = MULTIPLIER * SumIn(dueRewards, User)
    BY <2>1, SumTimes
  <2>4. SumIn(OwedAt(paramL), User) = SumIn(due, User) + SumIn(unsettled, User)
    BY <2>1, SumPlus
  <2> QED
    BY <2>2, <2>3, <2>4 DEF CInv, IInv, RewardsCovered, unsettled
<1> QED
  BY <1>1, CoveredHolds, PTL

-----------------------------------------------------------------------------
(* What each gets.                                                         *)
(* N rewards among T OT raise paramL by (N * c) \div T, and give o OT its  *)
(* share of them, within what the rounding of paramL takes.                *)
LEMMA ShareOf ==
    ASSUME NEW N \in Nat, NEW o \in Nat, NEW T \in Nat \ {0}, NEW c \in Nat \ {0}
    PROVE  LET d == (N * c) \div T
               share == (N * o) \div T
           IN  (o * d) \div c \in (share - 1 - (o \div c))..share
<1>1. N * c \in Nat /\ N * o \in Nat
  OBVIOUS
<1>2. PICK d \in Nat, s \in Nat, e \in Nat :
         d = (N * c) \div T /\ s = (N * o) \div T /\ e = o \div c
  BY <1>1, DivisionDef
<1>3. PICK y \in Nat : y = o * d
  OBVIOUS
<1>4. PICK q \in Nat : q = y \div c
  BY DivisionDef
<1>5. /\ T * d <= N * c /\ N * c < T * d + T
      /\ T * s <= N * o /\ N * o < T * s + T
      /\ c * e <= o /\ o < c * e + c
      /\ c * q <= y /\ y < c * q + c
  BY <1>1, <1>2, <1>4, DivisionDef
<1>6. q <= s
  <2>1. o * (T * d) <= o * (N * c)
    <3>1. CASE o = 0
      BY <3>1
    <3>2. CASE o # 0
      <4>1. T * d \in Int /\ N * c \in Int
        OBVIOUS
      <4> QED
        BY <1>5, <3>2, <4>1, CancelFactor
    <3> QED
      BY <3>1, <3>2
  <2>2. T * y = o * (T * d) /\ o * (N * c) = c * (N * o)
    BY <1>3
  <2>3. T * (c * q) <= T * y
    <3>1. c * q \in Int
      OBVIOUS
    <3> QED
      BY <1>5, <3>1, CancelFactor
  <2>4. T * (c * q) = c * (T * q)
    OBVIOUS
  <2>5. T * q \in Int /\ c * (T * q) \in Int /\ c * (N * o) \in Int /\ T * y \in Int
    BY <1>1
  <2>6. c * (T * q) <= c * (N * o)
    BY <2>1, <2>2, <2>3, <2>4, <2>5
  <2>7. T * q <= N * o
    BY <1>1, <2>5, <2>6, CancelFactor
  <2>8. T * (s + 1) = T * s + T /\ T * s \in Int
    OBVIOUS
  <2>9. T * q < T * (s + 1)
    BY <1>1, <1>5, <2>5, <2>7, <2>8
  <2>10. q < s + 1
    BY <2>9, CancelFactor
  <2> QED
    BY <2>10
<1>7. s - 1 - e <= q
  <2>1. o * (N * c) <= o * (T * d + T)
    <3>1. CASE o = 0
      BY <3>1
    <3>2. CASE o # 0
      <4>1. T * d + T \in Int /\ N * c \in Int /\ N * c <= T * d + T
        BY <1>5
      <4> QED
        BY <3>2, <4>1, CancelFactor
    <3> QED
      BY <3>1, <3>2
  <2>2. o * (N * c) = c * (N * o) /\ o * (T * d + T) = T * (y + o)
    BY <1>3
  <2>3. c * (T * s) <= c * (N * o)
    <3>1. T * s \in Int
      OBVIOUS
    <3> QED
      BY <1>1, <1>5, <3>1, CancelFactor
  <2>4. c * (T * s) = T * (c * s) /\ T * (c * s) \in Int /\ c * (N * o) \in Int /\ T * (y + o) \in Int
    OBVIOUS
  <2>5. T * (c * s) <= T * (y + o)
    BY <2>1, <2>2, <2>3, <2>4
  <2>6. c * s <= y + o
    <3>1. c * s \in Int /\ y + o \in Int
      OBVIOUS
    <3> QED
      BY <2>5, <3>1, CancelFactor
  <2>7. c * (q + e + 2) = c * q + c * e + c + c /\ c * q \in Int /\ c * e \in Int /\ c * s \in Int
    OBVIOUS
  <2>8. c * s < c * (q + e + 2)
    BY <1>5, <2>6, <2>7
  <2>9. s < q + e + 2
    BY <2>8, CancelFactor
  <2> QED
    BY <2>9
<1>8. q \in (s - 1 - e)..s
  BY <1>6, <1>7
<1> QED
  BY <1>2, <1>3, <1>4, <1>8, Zenon

(* An update adds to a user's claim his share of what it records.          *)
LEMMA ShareOfUpdate ==
    ASSUME CInv, NEW manual \in BOOLEAN, NEW u \in User, lastParamL[u] # 0, totalOT > 0
    PROVE  SettledRewards(u, NewParamL(manual)) - Claim(u) \in
              ((((Accounted(manual) - lastRewardBalance) * ot[u]) \div totalOT) - (1 + ot[u] \div MULTIPLIER))
              ..((((Accounted(manual) - lastRewardBalance) * ot[u]) \div totalOT) + 1)
<1>1. PICK N \in Nat, o \in Nat, T \in Nat \ {0}, p \in Nat, m \in Nat, due \in Nat :
         /\ N = NewRewards /\ o = ot[u] /\ T = totalOT /\ p = paramL
         /\ m = lastParamL[u] /\ due = dueRewards[u]
  <2>1. NewRewards \in Nat
    BY DEF CInv, IInv, TypeOK, NewRewards, CurrentRewardBalance
  <2>2. /\ ot[u] \in Nat /\ totalOT \in Nat \ {0} /\ paramL \in Nat
        /\ lastParamL[u] \in Nat /\ dueRewards[u] \in Nat
    BY DEF CInv, IInv, TypeOK
  <2> QED
    BY <2>1, <2>2, Zenon
<1>2. /\ m # 0 /\ m <= p /\ lastRewardBalance \in Nat
      /\ CurrentRewardBalance = lastRewardBalance + N
  BY <1>1 DEF CInv, IInv, TypeOK, NewRewards, CurrentRewardBalance
<1>3. PICK e \in Nat : e = o \div MULTIPLIER
  BY DivisionDef
<1>4. PICK x \in Nat : x = o * (p - m)
  <2>1. p - m \in Nat
    BY <1>2
  <2> QED
    BY <2>1
<1>5. Claim(u) = due + x \div MULTIPLIER
  BY <1>1, <1>2, <1>4 DEF Claim, SettledRewards, RewardsFromOT
<1>6. x \div MULTIPLIER \in Nat
  BY DivisionDef
<1>7. CASE ~NeedUpdateParamL(manual)
  <2>1. NewParamL(manual) = paramL /\ Accounted(manual) = lastRewardBalance
    BY <1>7 DEF NewParamL, Accounted
  <2>2. SettledRewards(u, NewParamL(manual)) - Claim(u) = 0
    BY <1>5, <1>6, <2>1 DEF Claim
  <2>3. ((Accounted(manual) - lastRewardBalance) * ot[u]) \div totalOT = 0
    <3>1. (lastRewardBalance - lastRewardBalance) * o = 0 /\ 0 \div T = 0
      BY <1>2
    <3> QED
      BY <1>1, <2>1, <3>1
  <2>4. 0 \in (0 - (1 + e))..(0 + 1)
    OBVIOUS
  <2> QED
    BY <1>1, <1>3, <2>2, <2>3, <2>4
<1>8. CASE NeedUpdateParamL(manual)
  <2>1. PICK d \in Nat : d = (N * MULTIPLIER) \div T
    <3>1. N * MULTIPLIER \in Nat
      OBVIOUS
    <3> QED
      BY <3>1, DivisionDef
  <2>2. PICK s \in Nat : s = (N * o) \div T
    <3>1. N * o \in Nat
      OBVIOUS
    <3> QED
      BY <3>1, DivisionDef
  <2>3. NewParamL(manual) = p + d
    BY <1>1, <1>2, <1>8, <2>1 DEF NewParamL
  <2>4. PICK y \in Nat : y = o * d
    OBVIOUS
  <2>5. SettledRewards(u, NewParamL(manual)) = due + (x + y) \div MULTIPLIER
    <3>1. o * ((p + d) - m) = x + y
      BY <1>4, <2>4
    <3> QED
      BY <1>1, <1>2, <2>3, <3>1 DEF SettledRewards, RewardsFromOT
  <2>6. PICK q \in Nat : q = y \div MULTIPLIER
    BY DivisionDef
  <2>7. (x + y) \div MULTIPLIER - x \div MULTIPLIER \in q..(q + 1)
    BY <2>6, DivisionOfSum
  <2>8. (x + y) \div MULTIPLIER \in Nat
    <3>1. x + y \in Nat
      OBVIOUS
    <3> QED
      BY <3>1, DivisionDef
  <2>9. q \in (s - 1 - e)..s
    BY <1>3, <2>1, <2>2, <2>4, <2>6, ShareOf
  <2>10. Accounted(manual) - lastRewardBalance = N
    BY <1>2, <1>8 DEF Accounted
  <2>11. PICK gain : gain = (x + y) \div MULTIPLIER - x \div MULTIPLIER
    OBVIOUS
  <2>12. gain = SettledRewards(u, NewParamL(manual)) - Claim(u)
    <3>1. PICK j \in Nat, k \in Nat : j = (x + y) \div MULTIPLIER /\ k = x \div MULTIPLIER
      BY <1>6, <2>8
    <3>2. (due + j) - (due + k) = j - k
      OBVIOUS
    <3> QED
      BY <1>5, <2>5, <2>11, <3>1, <3>2, Zenon
  <2>13. gain \in (s - (1 + e))..(s + 1)
    BY <2>7, <2>9, <2>11
  <2> QED
    BY <1>1, <1>3, <2>2, <2>10, <2>12, <2>13, Zenon
<1> QED
  BY <1>7, <1>8

LEMMA SumOverIsSum == \A f : SumOver(f) = SumIn(f, User)
BY DEF SumOver, SumIn

(* How a step moves a user's claim: as its update of paramL does.          *)
LEMMA GainOfStep ==
    ASSUME CInv, CInv', Next, NEW u \in User
    PROVE  \/ \E manual \in BOOLEAN :
                 /\ wallet'[u] + Claim(u)' = wallet[u] + SettledRewards(u, NewParamL(manual))
                 /\ Distributed' = Accounted(manual) + SumOver(wallet)
           \/ wallet'[u] + Claim(u)' = wallet[u] + Claim(u) /\ Distributed' = Distributed
<1> DEFINE Goal ==
      \/ \E manual \in BOOLEAN :
            /\ wallet'[u] + Claim(u)' = wallet[u] + SettledRewards(u, NewParamL(manual))
            /\ Distributed' = Accounted(manual) + SumOver(wallet)
      \/ wallet'[u] + Claim(u)' = wallet[u] + Claim(u) /\ Distributed' = Distributed
<1>0. /\ IInv /\ IInv'
      /\ \A w \in User : wallet[w] \in Nat /\ wallet'[w] \in Nat
      /\ \A w \in User : lastParamL[w] \in Nat /\ ot'[w] \in Nat
  BY DEF CInv, IInv, TypeOK
<1>1. ASSUME NEW w \in User, RedeemRewards(w) PROVE Goal
  <2>1. PICK L \in Nat, acc \in Nat :
           /\ L = NewParamL(FALSE) /\ acc = Accounted(FALSE)
           /\ paramL <= L
           /\ SumIn(OwedAt(L), User) <= MULTIPLIER * acc
    BY AccountedCovers, Zenon
  <2>2. PICK paid : paid = SettledRewards(w, L)
    OBVIOUS
  <2>3. /\ L = paramL' /\ ot' = ot
        /\ lastRewardBalance' = acc - paid
        /\ lastParamL' = [lastParamL EXCEPT ![w] = L]
        /\ dueRewards' = [dueRewards EXCEPT ![w] = 0]
        /\ wallet' = [wallet EXCEPT ![w] = @ + paid]
    BY <1>1, <2>1, <2>2, Zenon DEF RedeemRewards, UpdateParamL
  <2>4. paid \in Nat /\ SettledRewards(u, L) \in Nat
    BY <1>0, <2>1, <2>2, SettledRewardsGrow
  <2>5. Claim(u)' = dueRewards'[u] + (IF lastParamL'[u] = 0 THEN 0
                                      ELSE (ot'[u] * (paramL' - lastParamL'[u])) \div MULTIPLIER)
    BY DEF Claim, SettledRewards, RewardsFromOT
  <2>6. wallet'[u] + Claim(u)' = wallet[u] + SettledRewards(u, L)
    <3>1. CASE u = w
      <4>1. lastParamL'[u] = L /\ dueRewards'[u] = 0 /\ wallet'[u] = wallet[u] + paid
        BY <2>3, <3>1 DEF CInv, IInv, TypeOK
      <4>2. ot'[u] * (L - L) = 0 /\ 0 \div MULTIPLIER = 0
        BY <1>0
      <4>3. Claim(u)' = 0
        BY <2>3, <2>5, <4>1, <4>2
      <4> QED
        BY <1>0, <2>2, <2>4, <3>1, <4>1, <4>3
    <3>2. CASE u # w
      <4>1. /\ lastParamL'[u] = lastParamL[u] /\ dueRewards'[u] = dueRewards[u]
            /\ wallet'[u] = wallet[u]
        BY <2>3, <3>2 DEF CInv, IInv, TypeOK
      <4> QED
        BY <2>3, <2>5, <4>1 DEF SettledRewards, RewardsFromOT
    <3> QED
      BY <3>1, <3>2
  <2>7. SumOver(wallet)' = SumOver(wallet) + paid
    <3>1. PICK f : f = wallet'
      OBVIOUS
    <3>2. f[w] = wallet[w] + paid /\ f[w] \in Int /\ \A z \in User \ {w} : f[z] = wallet[z]
      BY <1>0, <2>3, <2>4, <3>1 DEF CInv, IInv, TypeOK
    <3>3. SumIn(f, User) = SumIn(wallet, User) + (f[w] - wallet[w])
      <4>1. PICK g : g = wallet
        OBVIOUS
      <4>2. (\A z \in User : g[z] \in Int) /\ \A z \in User \ {w} : f[z] = g[z]
        BY <1>0, <3>2, <4>1
      <4>3. SumIn(f, User) = SumIn(g, User) + (f[w] - g[w])
        BY <3>2, <4>2, SumChange
      <4> QED
        BY <4>1, <4>3
    <3>4. SumIn(f, User) = SumIn(wallet, User) + paid
      <4>1. SumIn(wallet, User) \in Int
        BY <1>0, SumInt
      <4> QED
        BY <1>0, <2>4, <3>2, <3>3, <4>1
    <3> QED
      BY <3>1, <3>4, SumOverIsSum, Zenon
  <2>8. SumOver(wallet) \in Int
    <3>1. SumIn(wallet, User) \in Int
      BY <1>0, SumInt
    <3> QED
      BY <3>1, SumOverIsSum, Zenon
  <2>9. Distributed' = acc + SumOver(wallet)
    BY <2>3, <2>4, <2>7, <2>8 DEF Distributed
  <2> QED
    BY <2>1, <2>6, <2>9, Zenon
<1>2. CASE UpdateParamLManual
  <2>1. PICK L \in Nat, acc \in Nat :
           /\ L = NewParamL(TRUE) /\ acc = Accounted(TRUE)
           /\ paramL <= L
           /\ SumIn(OwedAt(L), User) <= MULTIPLIER * acc
    BY AccountedCovers, Zenon
  <2>2. /\ L = paramL' /\ lastRewardBalance' = acc - 0
        /\ UNCHANGED <<ot, wallet, lastParamL, dueRewards>>
    BY <1>2, <2>1, Zenon DEF UpdateParamLManual, UpdateParamL
  <2>3. wallet'[u] + Claim(u)' = wallet[u] + SettledRewards(u, L)
    BY <2>2 DEF Claim, SettledRewards, RewardsFromOT
  <2>4. Distributed' = acc + SumOver(wallet)
    <3>1. acc - 0 = acc
      OBVIOUS
    <3> QED
      BY <2>2, <3>1, Zenon DEF Distributed
  <2> QED
    BY <2>1, <2>3, <2>4, Zenon
<1>3. ASSUME NEW S \in SUBSET User, UpdatePendingRewards(S), wallet' = wallet,
             u \notin S => ot'[u] = ot[u]
      PROVE  Goal
  <2>1. PICK L \in Nat, acc \in Nat :
           /\ L = NewParamL(FALSE) /\ acc = Accounted(FALSE)
           /\ paramL <= L
           /\ SumIn(OwedAt(L), User) <= MULTIPLIER * acc
    BY AccountedCovers, Zenon
  <2>2. /\ paramL' = L /\ lastRewardBalance' = acc - 0
        /\ lastParamL' = [w \in User |-> IF w \in S THEN paramL' ELSE lastParamL[w]]
        /\ dueRewards' = [w \in User |-> IF w \in S THEN SettledRewards(w, paramL') ELSE dueRewards[w]]
    BY <1>3, <2>1, Zenon DEF UpdatePendingRewards, UpdateParamL
  <2>3. SettledRewards(u, L) \in Nat
    BY <1>0, <2>1, SettledRewardsGrow
  <2>4. Claim(u)' = dueRewards'[u] + (IF lastParamL'[u] = 0 THEN 0
                                      ELSE (ot'[u] * (paramL' - lastParamL'[u])) \div MULTIPLIER)
    BY DEF Claim, SettledRewards, RewardsFromOT
  <2>5. Claim(u)' = SettledRewards(u, L)
    <3>1. CASE u \in S
      <4>1. lastParamL'[u] = L /\ dueRewards'[u] = SettledRewards(u, L)
        BY <2>2, <3>1
      <4>2. ot'[u] * (L - L) = 0 /\ 0 \div MULTIPLIER = 0
        BY <1>0
      <4> QED
        BY <2>2, <2>3, <2>4, <4>1, <4>2
    <3>2. CASE u \notin S
      <4>1. lastParamL'[u] = lastParamL[u] /\ dueRewards'[u] = dueRewards[u] /\ ot'[u] = ot[u]
        BY <1>3, <2>2, <3>2
      <4> QED
        BY <2>2, <2>4, <4>1 DEF SettledRewards, RewardsFromOT
    <3> QED
      BY <3>1, <3>2
  <2>6. Distributed' = acc + SumOver(wallet)
    <3>1. acc - 0 = acc
      OBVIOUS
    <3> QED
      BY <1>3, <2>2, <3>1, Zenon DEF Distributed
  <2> QED
    BY <1>3, <2>1, <2>5, <2>6, Zenon
<1>4. ASSUME NEW to \in User, NEW amount \in 1..MaxOT, MintOt(to, amount) PROVE Goal
  <2>1. u \notin {to} => ot'[u] = ot[u]
    BY <1>4 DEF MintOt, CInv, IInv, TypeOK
  <2> QED
    BY <1>3, <1>4, <2>1 DEF MintOt
<1>5. ASSUME NEW w \in User, NEW amount \in 1..MaxOT, BurnOt(w, amount) PROVE Goal
  <2>1. u \notin {w} => ot'[u] = ot[u]
    BY <1>5 DEF BurnOt, CInv, IInv, TypeOK
  <2> QED
    BY <1>3, <1>5, <2>1 DEF BurnOt
<1>6. ASSUME NEW from \in User, NEW to \in User, NEW amount \in 0..MaxOT,
             TransferOt(from, to, amount)
      PROVE  Goal
  <2>1. u \notin {from, to} => ot'[u] = ot[u]
    BY <1>6 DEF TransferOt, CInv, IInv, TypeOK
  <2> QED
    BY <1>3, <1>6, <2>1 DEF TransferOt
<1>7. CASE UNCHANGED <<ot, wallet, rewardData>>
  <2>1. UNCHANGED <<ot, wallet, paramL, lastRewardBalance, lastParamL, dueRewards>>
    BY <1>7 DEF rewardData
  <2>2. Claim(u)' = Claim(u) /\ wallet' = wallet
    BY <2>1 DEF Claim, SettledRewards, RewardsFromOT
  <2>3. Distributed' = Distributed
    BY <2>1, Zenon DEF Distributed
  <2> QED
    BY <2>2, <2>3, Zenon
<1>8. \/ \E w \in User : RedeemRewards(w)
      \/ UpdateParamLManual
      \/ \E to \in User : \E amount \in 1..MaxOT : MintOt(to, amount)
      \/ \E w \in User : \E amount \in 1..MaxOT : BurnOt(w, amount)
      \/ \E from, to \in User : \E amount \in 0..MaxOT : TransferOt(from, to, amount)
      \/ UNCHANGED <<ot, wallet, rewardData>>
  BY DEF Next, SetUpdateFrequency, SetSkippingRewards, Accrue, ClaimForHolder, NextBlock, fundVars
<1> QED
  BY <1>1, <1>2, <1>4, <1>5, <1>6, <1>7, <1>8

(* New rewards go to the holders by their OT, for any finite set of users  *)
(* and whatever the step: nobody who was settled before gets less or more  *)
(* than his share but for the rounding.                                    *)
THEOREM HoldersShareEqually == Spec => EqualShares
<1> DEFINE Share(u) == ((Distributed' - Distributed) * ot[u]) \div totalOT
           Gain(u) == (wallet'[u] + Claim(u)') - (wallet[u] + Claim(u))
           Rounding(u) == 1 + ot[u] \div MULTIPLIER
           Fair == totalOT > 0 =>
                     \A u \in User :
                        lastParamL[u] # 0 => Gain(u) \in (Share(u) - Rounding(u))..(Share(u) + 1)
<1>1. ASSUME CInv, CInv', Next PROVE Fair
  <2> SUFFICES ASSUME NEW u \in User, totalOT > 0, lastParamL[u] # 0
               PROVE  Gain(u) \in (Share(u) - Rounding(u))..(Share(u) + 1)
    OBVIOUS
  <2>0. /\ wallet[u] \in Nat /\ ot[u] \in Nat /\ totalOT \in Nat \ {0} /\ IInv
        /\ lastRewardBalance \in Nat /\ paramL \in Nat
        /\ \A w \in User : wallet[w] \in Int
    BY <1>1 DEF CInv, IInv, TypeOK
  <2>1. SumOver(wallet) \in Int
    <3>1. SumIn(wallet, User) \in Int
      BY <2>0, SumInt
    <3> QED
      BY <3>1, SumOverIsSum, Zenon
  <2>2. Claim(u) \in Nat
    BY <2>0, SettledRewardsGrow
  <2>3. ASSUME NEW manual \in BOOLEAN,
               wallet'[u] + Claim(u)' = wallet[u] + SettledRewards(u, NewParamL(manual)),
               Distributed' = Accounted(manual) + SumOver(wallet)
        PROVE  Gain(u) \in (Share(u) - Rounding(u))..(Share(u) + 1)
    <3>1. PICK L \in Nat, acc \in Nat :
             /\ L = NewParamL(manual) /\ acc = Accounted(manual)
             /\ paramL <= L
             /\ SumIn(OwedAt(L), User) <= MULTIPLIER * acc
      BY <1>1, AccountedCovers, Zenon
    <3>2. SettledRewards(u, NewParamL(manual)) \in Nat
      BY <2>0, <3>1, SettledRewardsGrow
    <3>3. Gain(u) = SettledRewards(u, NewParamL(manual)) - Claim(u)
      BY <2>0, <2>2, <2>3, <3>2
    <3>4. Distributed' - Distributed = Accounted(manual) - lastRewardBalance
      <4>1. Distributed' = acc + SumOver(wallet)
        BY <2>3, <3>1, Zenon
      <4>2. PICK w \in Int : w = SumOver(wallet)
        BY <2>1
      <4>3. (acc + w) - (lastRewardBalance + w) = acc - lastRewardBalance
        BY <2>0
      <4> QED
        BY <3>1, <4>1, <4>2, <4>3, Zenon DEF Distributed
    <3> QED
      BY <1>1, <3>3, <3>4, ShareOfUpdate, Zenon
  <2>4. ASSUME wallet'[u] + Claim(u)' = wallet[u] + Claim(u), Distributed' = Distributed
        PROVE  Gain(u) \in (Share(u) - Rounding(u))..(Share(u) + 1)
    <3>1. Gain(u) = 0
      BY <2>0, <2>2, <2>4
    <3>2. Distributed \in Int
      BY <2>0, <2>1 DEF Distributed
    <3>3. Share(u) = 0
      <4>1. PICK D \in Int : D = Distributed
        BY <3>2
      <4>2. (D - D) * ot[u] = 0 /\ 0 \div totalOT = 0
        BY <2>0
      <4> QED
        BY <2>4, <4>1, <4>2, Zenon
    <3>4. ot[u] \div MULTIPLIER \in Nat
      BY <2>0, DivisionDef
    <3>5. 0 \in (0 - Rounding(u))..(0 + 1)
      BY <3>4
    <3> QED
      BY <3>1, <3>3, <3>5, Zenon
  <2> QED
    BY <1>1, <2>3, <2>4, GainOfStep
<1>2. CInv /\ CInv' /\ [Next]_vars => [Fair]_vars
  BY <1>1
<1> QED
  BY <1>2, CoveredHolds, PTL DEF Spec, EqualShares

-----------------------------------------------------------------------------
(***************************************************************************)
(* The market beside it: MCAccumulators only restricts its steps, and what *)
(* CompoundMarket_proofs proves of every market holds there.               *)
(***************************************************************************)
LEMMA AccumulatorsHaveMarket == MCSpec => Market!Spec
<1>1. MCInit => Market!Init
  BY DEF MCInit
<1>2. [MCNext]_<<vars, marketVars, component, steps>> => [Market!Next]_(Market!vars)
  BY DEF MCNext, MarketNext, marketVars, Market!vars, Market!pauseVars, Market!settingVars,
         Market!poolVars, Market!feeVars, Market!lpVars, Market!fundVars, Market!interestVars
<1> QED
  BY <1>1, <1>2, PTL DEF MCSpec, Market!Spec

(* What _updateParamL of PendleMarketBase.sol has recorded as shared out   *)
(* covers what every provider is owed, settled or not, and the market has  *)
(* it: the caps of subMax0 and _safeTransferYieldToken take from nobody.   *)
THEOREM MarketCoversInterests == MCSpec => []LpInterestsCovered
<1>1. Market!Spec => []Market!LpInterestsCovered
  BY MarketAssumption, Market!LpInterestsAreCovered
<1>2. Market!LpInterestsCovered => LpInterestsCovered
  BY DEF LpInterestsCovered
<1> QED
  BY <1>1, <1>2, AccumulatorsHaveMarket, PTL

(* Adding, removing, swapping and transferring LP, and redeeming for       *)
(* somebody else, never lower what a provider has received and can claim.  *)
THEOREM MarketKeepsInterests == MCSpec => LpInterestsAreKept
BY MarketAssumption, Market!LpInterestsKept, AccumulatorsHaveMarket DEF LpInterestsAreKept

(* When LP moves, all but a last rise of the exchange rate within          *)
(* interestUpdateRateDeltaForMarket has been shared out (checkNeedUpdateParamL). *)
THEOREM MarketLossWithinDelta == MCSpec => LossIsWithinDelta
BY MarketAssumption, Market!LossStaysWithinDelta, AccumulatorsHaveMarket DEF LossIsWithinDelta

(* The treasury gets LP only for what swaps have added to paramK, and all  *)
(* of its part when the supply or the weights change (_mintProtocolFees).  *)
THEOREM MarketFeesAreOfGrowth == MCSpec => FeesAreOfSwapGrowth
BY MarketAssumption, Market!FeesOfSwapGrowth, AccumulatorsHaveMarket DEF FeesAreOfSwapGrowth
=============================================================================
