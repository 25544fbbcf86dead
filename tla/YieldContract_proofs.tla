------------------------ MODULE YieldContract_proofs ------------------------
(***************************************************************************)
(* Proofs about YieldContract: the rates of a yield contract stay in       *)
(* order (the inductive invariant IInv), so that no settlement and no      *)
(* redemption of OT can revert, and XYT earn nothing after the expiry; and *)
(* on sums over the users (SInv), that the holder has what everybody is    *)
(* owed, the surplus of every rounding, and nobody's interest is lost.     *)
(***************************************************************************)
EXTENDS YieldContract, Sums

USE UserAssumption, RateAssumption, FeeAssumption, NumberAssumption

-----------------------------------------------------------------------------
(* Integer division. *)
(* A product divided by one factor of it, or by less, is not less than the *)
(* other factor.                                                           *)
LEMMA DivisionAtLeast ==
    ASSUME NEW p \in Nat, NEW c \in Nat, NEW v \in Nat \ {0}, v <= c
    PROVE  (p * c) \div v >= p
<1> DEFINE q == (p * c) \div v
<1>1. p * c \in Nat
  OBVIOUS
<1>2. q \in Nat /\ p * c < v * q + v
  BY <1>1, DivisionDef
<1>3. p * v <= p * c
  OBVIOUS
<1>4. SUFFICES ASSUME q + 1 <= p PROVE FALSE
  BY <1>2
<1>5. v * (q + 1) <= v * p
  BY <1>2, <1>4
<1> QED BY <1>2, <1>3, <1>5

(* A fee of at most one takes at most the amount. *)
LEMMA FeeBound ==
    ASSUME NEW x \in Nat, NEW y \in 0..RONE
    PROVE  rmul(x, y) \in 0..x
<1> DEFINE a == RONE \div 2 + x * y
<1> DEFINE q == a \div RONE
<1>0. x * y \in Nat /\ RONE \div 2 \in Nat /\ RONE \div 2 < RONE
  OBVIOUS
<1>1. a \in Nat
  BY <1>0
<1>2. q \in Nat /\ RONE * q <= a
  BY <1>1, DivisionDef
<1>3. x * y <= x * RONE
  OBVIOUS
<1>4. a < x * RONE + RONE
  BY <1>0, <1>3
<1>5. SUFFICES ASSUME x + 1 <= q PROVE FALSE
  BY <1>2 DEF rmul
<1>6. RONE * (x + 1) <= RONE * q
  BY <1>2, <1>5
<1>7. RONE * (x + 1) = x * RONE + RONE
  OBVIOUS
<1>8. RONE * q \in Nat /\ x * RONE \in Nat /\ RONE * (x + 1) \in Nat
  BY <1>2
<1> HIDE DEF a, q
<1> QED BY <1>1, <1>2, <1>4, <1>6, <1>7, <1>8

-----------------------------------------------------------------------------
(* The invariant: the rates of the users are behind the last rate before   *)
(* the expiry, which is behind the current rate as long as it moves, and   *)
(* is known when there is OT.                                              *)
RatesInOrder ==
    /\ \A u \in User : lastRate[u] <= lastRateBeforeExpiry
    /\ now <= Expiry => lastRateBeforeExpiry <= rate

RedeemableOT == \A u \in User : ot[u] > 0 => lastRateBeforeExpiry # 0

IInv == TypeOK /\ RatesInOrder /\ RedeemableOT

LEMMA RateBeforeExpiryType ==
    ASSUME IInv
    PROVE  /\ RateBeforeExpiry \in Rate \cup {0}
           /\ RateBeforeExpiry \in Nat
           /\ lastRateBeforeExpiry <= RateBeforeExpiry
           /\ now <= Expiry => RateBeforeExpiry = rate
           /\ \A u \in User : lastRate[u] \in Nat /\ lastRate[u] <= RateBeforeExpiry
<1>1. Rate \cup {0} \subseteq Nat
  OBVIOUS
<1>2. /\ rate \in Rate
      /\ lastRateBeforeExpiry \in Rate \cup {0}
      /\ lastRate \in [User -> Rate \cup {0}]
      /\ now \in Nat
  BY DEF IInv, TypeOK
<1>3. \A u \in User : lastRate[u] \in Nat /\ lastRate[u] <= lastRateBeforeExpiry
  BY <1>1, <1>2 DEF IInv, RatesInOrder
<1>4. CASE now > Expiry
  BY <1>1, <1>2, <1>3, <1>4 DEF RateBeforeExpiry
<1>5. CASE now <= Expiry
  <2>1. RateBeforeExpiry = rate /\ lastRateBeforeExpiry <= rate
    BY <1>5, <1>2 DEF RateBeforeExpiry, IInv, RatesInOrder
  <2> QED BY <1>1, <1>2, <1>3, <2>1, <1>5
<1> QED BY <1>2, <1>4, <1>5

LEMMA SettledDueType ==
    ASSUME IInv, NEW u \in User
    PROVE  /\ SettledDue(u) \in Nat
           /\ FeeOf(u) \in Nat
           /\ NetInterest(u) \in Nat
<1> DEFINE c == RateBeforeExpiry
<1> DEFINE v == lastRate[u]
<1> DEFINE p == xyt[u]
<1>1. c \in Nat /\ v \in Nat /\ p \in Nat /\ v <= c /\ dueInterests[u] \in Nat
  BY RateBeforeExpiryType DEF IInv, TypeOK
<1>2. InterestFromXyt(p, v, c) \in Nat
  <2> HIDE DEF c, v, p
  <2>1. CASE v = 0 \/ v = c
    BY <2>1 DEF InterestFromXyt
  <2>2. CASE ~(v = 0 \/ v = c)
    <3> DEFINE i == (p * c) \div v - p
    <3>1. p * c \in Nat
      BY <1>1
    <3>2. (p * c) \div v \in Nat
      BY <3>1, <1>1, <2>2, DivisionDef
    <3>3. i \in Nat
      BY <3>2, <1>1, <2>2, DivisionAtLeast
    <3>4. i * InitialRate \in Nat
      <4> HIDE DEF i
      <4> QED BY <3>3
    <3>5. (i * InitialRate) \div c \in Nat
      <4> HIDE DEF i
      <4> QED BY <3>4, <1>1, <2>2, DivisionDef
    <3> QED BY <3>5, <2>2 DEF InterestFromXyt
  <2> QED BY <2>1, <2>2
<1>3. SettledDue(u) \in Nat
  BY <1>1, <1>2 DEF SettledDue
<1>4. forgeFee \in 0..RONE
  BY DEF IInv, TypeOK
<1>5. FeeOf(u) \in 0..SettledDue(u)
  BY <1>3, <1>4, FeeBound DEF FeeOf
<1> QED BY <1>3, <1>5 DEF NetInterest

(* Nobody's settlement reverts. *)
LEMMA SettlementPossible == IInv => SettlementNeverReverts
BY RateBeforeExpiryType DEF SettlementNeverReverts, CanSettle

(* What a settlement does to the interest books. *)
LEMMA Settling ==
    ASSUME IInv, NEW S \in SUBSET User, NEW paid \in SUBSET User,
           UpdateDueInterests(S, paid), UNCHANGED <<now, rate>>
    PROVE  /\ lastRate' \in [User -> Rate \cup {0}]
           /\ lastRateBeforeExpiry' \in Rate \cup {0}
           /\ dueInterests' \in [User -> Nat]
           /\ RatesInOrder'
           /\ lastRateBeforeExpiry # 0 => lastRateBeforeExpiry' # 0
           /\ now <= Expiry => lastRateBeforeExpiry' = rate
<1>1. lastRate' \in [User -> Rate \cup {0}] /\ lastRateBeforeExpiry' \in Rate \cup {0}
  BY RateBeforeExpiryType DEF UpdateDueInterests, RatesAfterSettling, IInv, TypeOK
<1>2. dueInterests' \in [User -> Nat]
  <2>1. \A u \in User : dueInterests[u] \in Nat /\ SettledDue(u) \in Nat
    BY SettledDueType DEF IInv, TypeOK
  <2>2. dueInterests' = DuesAfterSettling(S, paid)
    BY DEF UpdateDueInterests
  <2>3. ASSUME NEW u \in User
        PROVE  (CASE u \in paid -> 0
                  [] u \in S \ paid -> SettledDue(u)
                  [] OTHER -> dueInterests[u]) \in Nat
    <3>1. CASE u \in paid
      BY <3>1, Zenon
    <3>2. CASE u \in S \ paid
      BY <3>2, <2>1, Zenon
    <3>3. CASE u \notin paid /\ u \notin S \ paid
      BY <3>3, <2>1, Zenon
    <3> QED BY <3>1, <3>2, <3>3
  <2> QED BY <2>2, <2>3, Zenon DEF DuesAfterSettling
<1>3. \A u \in User : lastRate'[u] <= lastRateBeforeExpiry'
  BY RateBeforeExpiryType DEF UpdateDueInterests, RatesAfterSettling
<1>4. lastRateBeforeExpiry' = RateBeforeExpiry
  BY DEF UpdateDueInterests
<1> QED BY <1>1, <1>2, <1>3, <1>4, RateBeforeExpiryType DEF RatesInOrder, IInv, TypeOK

(* A payout leaves balances in Nat. *)
LEMMA Paying ==
    ASSUME TypeOK, NEW u \in User, NEW amount \in Nat, PayOut(u, amount)
    PROVE  /\ held' \in Nat
           /\ cToken' \in [User -> Nat]
           /\ treasury' \in Nat
BY DEF PayOut, Minimum, TypeOK

-----------------------------------------------------------------------------
LEMMA InitHolds == Init => IInv
<1> SUFFICES ASSUME Init PROVE IInv
  OBVIOUS
<1>1. TypeOK
  <2>1. spenderApproved \in BOOLEAN
    BY Zenon DEF Init
  <2> QED BY <2>1 DEF Init, TypeOK
<1>2. RatesInOrder
  <2>1. rate \in Nat
    BY DEF Init
  <2> QED BY <2>1 DEF Init, RatesInOrder
<1>3. RedeemableOT
  BY DEF Init, RedeemableOT
<1> QED BY <1>1, <1>2, <1>3 DEF IInv

(* The invariant after an action that settles interest, from what the      *)
(* action does to the balances.                                            *)
LEMMA AfterSettling ==
    ASSUME IInv, NEW S \in SUBSET User, NEW paid \in SUBSET User,
           UpdateDueInterests(S, paid), UNCHANGED environmentVars,
           held' \in Nat, treasury' \in Nat, cToken' \in [User -> Nat],
           ot' \in [User -> Nat], xyt' \in [User -> Nat], totalFee' \in Nat,
           \A u \in User : ot'[u] > ot[u] => now < Expiry
    PROVE  IInv'
<1>1. TypeOK'
  BY Settling DEF TypeOK, IInv, environmentVars
<1>2. RatesInOrder'
  BY Settling DEF environmentVars
<1>3. RedeemableOT'
  <2> SUFFICES ASSUME NEW u \in User, ot'[u] > 0
               PROVE  lastRateBeforeExpiry' # 0
    BY DEF RedeemableOT
  <2>1. UNCHANGED <<now, rate>> /\ now \in Nat /\ rate \in Rate
    BY DEF environmentVars, IInv, TypeOK
  <2>2. CASE ot'[u] > ot[u]
    <3>1. lastRateBeforeExpiry' = rate
      BY <2>1, <2>2, Settling
    <3> QED BY <2>1, <3>1
  <2>3. CASE ~(ot'[u] > ot[u])
    <3>1. ot[u] > 0
      BY <2>3 DEF IInv, TypeOK
    <3> QED BY <2>1, <3>1, Settling DEF IInv, RedeemableOT
  <2> QED BY <2>2, <2>3
<1> QED BY <1>1, <1>2, <1>3 DEF IInv

LEMMA TokenizeYieldStep ==
    ASSUME IInv, NEW u \in User, NEW to \in User, NEW amount \in 1..cToken[u],
           TokenizeYield(u, amount, to)
    PROVE  IInv'
<1> DEFINE minted == (amount * rate) \div InitialRate
<1>1. cToken[u] \in Nat /\ amount \in Nat /\ rate \in Nat \ {0} /\ InitialRate \in Nat \ {0}
  BY DEF IInv, TypeOK
<1>2. amount * rate \in Nat
  BY <1>1
<1>3. minted \in Nat
  BY <1>1, <1>2, DivisionDef
<1>4. ot' = [ot EXCEPT ![to] = @ + minted] /\ xyt' = [xyt EXCEPT ![to] = @ + minted]
  BY DEF TokenizeYield
<1> HIDE DEF minted
<1>5. ot' \in [User -> Nat] /\ xyt' \in [User -> Nat]
  BY <1>3, <1>4 DEF IInv, TypeOK
<1>6. /\ UpdateDueInterests({to}, {})
      /\ UNCHANGED <<environmentVars, treasury, totalFee>>
      /\ now < Expiry
      /\ held' = held + amount
      /\ cToken' = [cToken EXCEPT ![u] = @ - amount]
  BY DEF TokenizeYield
<1>7. held' \in Nat /\ cToken' \in [User -> Nat] /\ treasury' \in Nat /\ totalFee' \in Nat
  BY <1>1, <1>6 DEF IInv, TypeOK
<1> QED BY <1>5, <1>6, <1>7, AfterSettling

LEMMA RedeemUnderlyingStep ==
    ASSUME IInv, NEW u \in User, NEW amount \in 1..ot[u], RedeemUnderlying(u, amount)
    PROVE  IInv'
<1> DEFINE redeemed == (amount * InitialRate) \div rate
<1>1. ot[u] \in Nat /\ amount \in Nat /\ rate \in Nat \ {0} /\ InitialRate \in Nat \ {0}
  BY DEF IInv, TypeOK
<1>2. amount * InitialRate \in Nat
  BY <1>1
<1>3. redeemed \in Nat
  BY <1>1, <1>2, DivisionDef
<1>4. PayOut(u, redeemed + NetInterest(u))
  BY DEF RedeemUnderlying
<1> HIDE DEF redeemed
<1>5. held' \in Nat /\ cToken' \in [User -> Nat] /\ treasury' \in Nat
  BY <1>3, <1>4, SettledDueType, Paying DEF IInv
<1>6. totalFee' \in Nat
  BY SettledDueType DEF RedeemUnderlying, IInv, TypeOK
<1>7. /\ ot' = [ot EXCEPT ![u] = @ - amount] /\ amount <= ot[u]
      /\ xyt' = [xyt EXCEPT ![u] = @ - amount] /\ amount <= xyt[u]
      /\ UpdateDueInterests({u}, {u})
      /\ UNCHANGED environmentVars
  BY DEF RedeemUnderlying
<1>8. ot' \in [User -> Nat] /\ xyt' \in [User -> Nat] /\ \A w \in User : ~(ot'[w] > ot[w])
  BY <1>1, <1>7 DEF IInv, TypeOK
<1> QED BY <1>5, <1>6, <1>7, <1>8, AfterSettling

(* The last rate is not zero when there is OT to redeem. *)
LEMMA RedeemAfterExpiryStep ==
    ASSUME IInv, NEW u \in User, RedeemAfterExpiry(u)
    PROVE  IInv'
<1> DEFINE redeemed == (ot[u] * InitialRate) \div lastRateBeforeExpiry
<1>1. ot[u] \in Nat /\ InitialRate \in Nat
  BY DEF IInv, TypeOK
<1>2. lastRateBeforeExpiry \in Nat \ {0}
  BY DEF RedeemAfterExpiry, IInv, TypeOK, RedeemableOT
<1>3. ot[u] * InitialRate \in Nat
  BY <1>1
<1>4. redeemed \in Nat
  BY <1>2, <1>3, DivisionDef
<1>5. PayOut(u, redeemed + NetInterest(u))
  BY DEF RedeemAfterExpiry
<1> HIDE DEF redeemed
<1>6. held' \in Nat /\ cToken' \in [User -> Nat] /\ treasury' \in Nat
  BY <1>4, <1>5, SettledDueType, Paying DEF IInv
<1>7. totalFee' \in Nat
  BY SettledDueType DEF RedeemAfterExpiry, IInv, TypeOK
<1>8. /\ ot' = [ot EXCEPT ![u] = 0]
      /\ UpdateDueInterests({u}, {u})
      /\ UNCHANGED <<environmentVars, xyt>>
  BY DEF RedeemAfterExpiry
<1>9. ot' \in [User -> Nat] /\ xyt' \in [User -> Nat] /\ \A w \in User : ~(ot'[w] > ot[w])
  BY <1>1, <1>8 DEF IInv, TypeOK
<1> QED BY <1>6, <1>7, <1>8, <1>9, AfterSettling

LEMMA RedeemDueInterestsStep ==
    ASSUME IInv, NEW u \in User, RedeemDueInterests(u)
    PROVE  IInv'
<1>1. held' \in Nat /\ cToken' \in [User -> Nat] /\ treasury' \in Nat
  BY SettledDueType, Paying DEF IInv, RedeemDueInterests
<1>2. totalFee' \in Nat
  BY SettledDueType DEF RedeemDueInterests, IInv, TypeOK
<1>3. UpdateDueInterests({u}, {u}) /\ UNCHANGED <<environmentVars, ot, xyt>>
  BY DEF RedeemDueInterests
<1>4. ot' \in [User -> Nat] /\ xyt' \in [User -> Nat] /\ \A w \in User : ~(ot'[w] > ot[w])
  BY <1>3 DEF IInv, TypeOK
<1> QED BY <1>1, <1>2, <1>3, <1>4, AfterSettling

LEMMA TransferXytStep ==
    ASSUME IInv, NEW from \in User, NEW to \in User, NEW amount \in 0..xyt[from],
           TransferXyt(from, to, amount)
    PROVE  IInv'
<1>1. /\ UpdateDueInterests({from, to}, {})
      /\ xyt' = [xyt EXCEPT ![from] = @ - amount, ![to] = @ + amount]
      /\ amount <= xyt[from] /\ from # to
      /\ UNCHANGED <<environmentVars, cToken, held, treasury, ot, totalFee>>
  BY DEF TransferXyt
<1>2. /\ held' \in Nat /\ cToken' \in [User -> Nat] /\ treasury' \in Nat /\ totalFee' \in Nat
      /\ ot' \in [User -> Nat] /\ \A w \in User : ~(ot'[w] > ot[w])
  BY <1>1 DEF IInv, TypeOK
<1>3. xyt' \in [User -> Nat]
  BY <1>1 DEF IInv, TypeOK
<1> QED BY <1>1, <1>2, <1>3, AfterSettling

(* The balance of OT moves; OT was somewhere before. *)
LEMMA TransferOtStep ==
    ASSUME IInv, NEW from \in User, NEW to \in User, NEW amount \in 0..ot[from],
           TransferOt(from, to, amount)
    PROVE  IInv'
<1>1. /\ ot' = [ot EXCEPT ![from] = @ - amount, ![to] = @ + amount]
      /\ amount <= ot[from] /\ from # to
      /\ UNCHANGED <<environmentVars, cToken, held, treasury, xyt, interestVars>>
  BY DEF TransferOt
<1>2. ot' \in [User -> Nat]
  BY <1>1 DEF IInv, TypeOK
<1>3. TypeOK'
  BY <1>1, <1>2 DEF IInv, TypeOK, environmentVars, interestVars
<1>4. RatesInOrder'
  BY <1>1 DEF IInv, RatesInOrder, environmentVars, interestVars
<1>5. RedeemableOT'
  <2> SUFFICES ASSUME NEW u \in User, ot'[u] > 0
               PROVE  lastRateBeforeExpiry # 0
    BY <1>1 DEF RedeemableOT, interestVars
  <2>1. ot[u] > 0 \/ ot[from] > 0
    BY <1>1 DEF IInv, TypeOK
  <2> QED BY <2>1 DEF IInv, RedeemableOT
<1> QED BY <1>3, <1>4, <1>5 DEF IInv

LEMMA WithdrawForgeFeeStep ==
    ASSUME IInv, WithdrawForgeFee
    PROVE  IInv'
<1>1. held' \in Nat /\ treasury' \in Nat
  BY DEF WithdrawForgeFee, Minimum, IInv, TypeOK
<1> QED BY <1>1 DEF WithdrawForgeFee, IInv, TypeOK, RatesInOrder, RedeemableOT, environmentVars

LEMMA SpenderWithdrawStep ==
    ASSUME IInv, NEW u \in User, NEW amount \in 1..held, SpenderWithdraw(u, amount)
    PROVE  IInv'
<1>1. held' \in Nat /\ cToken' \in [User -> Nat]
  BY DEF SpenderWithdraw, IInv, TypeOK
<1> QED BY <1>1 DEF SpenderWithdraw, IInv, TypeOK, RatesInOrder, RedeemableOT,
                    environmentVars, interestVars

(* What the surroundings do leaves the books alone; the rate only grows,   *)
(* and the clock only moves away from the expiry.                          *)
LEMMA SurroundingsStep ==
    ASSUME IInv,
           \/ SetUpEmergencyMode
           \/ \E fee \in ForgeFee : SetForgeFee(fee)
           \/ \E new \in {"live", "paused", "locked"} : SetStatus(new)
           \/ \E new \in Rate : AccrueInterest(new)
           \/ Tick
    PROVE  IInv'
<1> USE DEF IInv, TypeOK, RatesInOrder, RedeemableOT, tokenVars, interestVars
<1>1. CASE SetUpEmergencyMode
  BY <1>1 DEF SetUpEmergencyMode
<1>2. ASSUME NEW fee \in ForgeFee, SetForgeFee(fee) PROVE IInv'
  BY <1>2 DEF SetForgeFee
<1>3. ASSUME NEW new \in {"live", "paused", "locked"}, SetStatus(new) PROVE IInv'
  BY <1>3 DEF SetStatus
<1>4. ASSUME NEW new \in Rate, AccrueInterest(new) PROVE IInv'
  BY <1>4 DEF AccrueInterest
<1>5. CASE Tick
  BY <1>5 DEF Tick
<1> QED BY <1>1, <1>2, <1>3, <1>4, <1>5

LEMMA NextHolds == IInv /\ [Next]_vars => IInv'
<1> SUFFICES ASSUME IInv, [Next]_vars PROVE IInv'
  OBVIOUS
<1>1. CASE \E u, to \in User : \E amount \in 1..cToken[u] : TokenizeYield(u, amount, to)
  BY <1>1, TokenizeYieldStep
<1>2. CASE \E u \in User : \E amount \in 1..ot[u] : RedeemUnderlying(u, amount)
  BY <1>2, RedeemUnderlyingStep
<1>3. CASE \E u \in User : RedeemAfterExpiry(u)
  BY <1>3, RedeemAfterExpiryStep
<1>4. CASE \E u \in User : RedeemDueInterests(u)
  BY <1>4, RedeemDueInterestsStep
<1>5. CASE \E from, to \in User : \E amount \in 0..xyt[from] : TransferXyt(from, to, amount)
  BY <1>5, TransferXytStep
<1>6. CASE \E from, to \in User : \E amount \in 0..ot[from] : TransferOt(from, to, amount)
  BY <1>6, TransferOtStep
<1>7. CASE WithdrawForgeFee
  BY <1>7, WithdrawForgeFeeStep
<1>8. CASE \E u \in User : \E amount \in 1..held : SpenderWithdraw(u, amount)
  BY <1>8, SpenderWithdrawStep
<1>9. CASE UNCHANGED vars
  BY <1>9 DEF vars, environmentVars, tokenVars, interestVars, IInv, TypeOK, RatesInOrder, RedeemableOT
<1> QED BY <1>1, <1>2, <1>3, <1>4, <1>5, <1>6, <1>7, <1>8, <1>9, SurroundingsStep DEF Next

THEOREM InvariantHolds == Spec => []IInv
BY InitHolds, NextHolds, PTL DEF Spec

-----------------------------------------------------------------------------
(* Every reachable state of a yield contract is well typed: no balance     *)
(* becomes negative, no amount is divided by zero.                         *)
THEOREM TypeCorrect == Spec => []TypeOK
BY InvariantHolds, PTL DEF IInv

(* No settlement of interest ever reverts, for any number of users, any    *)
(* rates, any order of operations before and after the expiry.             *)
THEOREM SettlementsSucceed == Spec => []SettlementNeverReverts
BY InvariantHolds, SettlementPossible, PTL

(* While the contract is paused nobody's balance or interest changes; only *)
(* the emergency handler moves tokens.                                     *)
THEOREM PauseFreezes == Spec => PausedFreezes
<1> DEFINE Frozen == /\ UNCHANGED <<ot, xyt, interestVars>>
                     /\ spenderApproved \/ UNCHANGED tokenVars
<1>1. ASSUME Next, status # "live" PROVE Frozen
  BY <1>1 DEF Next, TokenizeYield, RedeemUnderlying, RedeemAfterExpiry, RedeemDueInterests,
              TransferXyt, TransferOt, WithdrawForgeFee, SetUpEmergencyMode, SpenderWithdraw,
              SetForgeFee, SetStatus, AccrueInterest, Tick, NotPaused, tokenVars
<1>2. [Next]_vars => [status # "live" => Frozen]_vars
  BY <1>1
<1> QED BY <1>2, PTL DEF Spec, PausedFreezes

(* A settlement after the expiry adds nothing to what a user is entitled   *)
(* to, whether his XYT move in the same step or not.                       *)
LEMMA SettlingAfterExpiry ==
    ASSUME IInv, now > Expiry, NEW S \in SUBSET User, NEW paid \in SUBSET S,
           UpdateDueInterests(S, paid), UNCHANGED now,
           NEW u \in User, u \notin S => xyt'[u] = xyt[u]
    PROVE  Entitlement(u)' <= Entitlement(u)
<1>1. /\ RateBeforeExpiry = lastRateBeforeExpiry
      /\ lastRateBeforeExpiry' = lastRateBeforeExpiry
      /\ RateBeforeExpiry' = lastRateBeforeExpiry
  BY DEF RateBeforeExpiry, UpdateDueInterests
<1>2. SettledDue(u) \in Nat /\ dueInterests[u] \in Nat
  BY SettledDueType DEF IInv, TypeOK
<1>3. CASE u \in S
  <2>1. lastRate'[u] = RateBeforeExpiry'
    BY <1>1, <1>3 DEF UpdateDueInterests, RatesAfterSettling
  <2>2. SettledDue(u)' = dueInterests'[u] + 0
    BY <2>1 DEF SettledDue, InterestFromXyt
  <2>3. dueInterests'[u] = 0 \/ dueInterests'[u] = SettledDue(u)
    <3>1. dueInterests' = DuesAfterSettling(S, paid)
      BY DEF UpdateDueInterests
    <3>2. CASE u \in paid
      <4>1. dueInterests'[u] = 0
        BY <3>1, <3>2, Zenon DEF DuesAfterSettling
      <4> QED BY <4>1
    <3>3. CASE u \in S \ paid
      <4>1. dueInterests'[u] = SettledDue(u)
        BY <3>1, <3>3, Zenon DEF DuesAfterSettling
      <4> QED BY <4>1
    <3> QED BY <1>3, <3>2, <3>3
  <2> QED BY <1>2, <2>2, <2>3 DEF Entitlement
<1>4. CASE u \notin S
  <2>1. lastRate'[u] = lastRate[u] /\ xyt'[u] = xyt[u]
    BY <1>4 DEF UpdateDueInterests, RatesAfterSettling
  <2>2. dueInterests'[u] = dueInterests[u]
    BY <1>4, Zenon DEF UpdateDueInterests, DuesAfterSettling
  <2>3. SettledDue(u)' = SettledDue(u)
    BY <1>1, <2>1, <2>2 DEF SettledDue, InterestFromXyt
  <2> QED BY <1>2, <2>3 DEF Entitlement
<1> QED BY <1>3, <1>4

(* A step that touches neither XYT nor the interest books changes nobody's *)
(* entitlement after the expiry: it does not depend on the rate any more.  *)
LEMMA BooksAloneAfterExpiry ==
    ASSUME IInv, now > Expiry, now' \in Nat, now' >= now, UNCHANGED <<xyt, interestVars>>,
           NEW u \in User
    PROVE  Entitlement(u)' <= Entitlement(u)
<1>1. RateBeforeExpiry' = RateBeforeExpiry
  BY DEF RateBeforeExpiry, interestVars, IInv, TypeOK
<1>2. SettledDue(u)' = SettledDue(u)
  BY <1>1 DEF SettledDue, InterestFromXyt, interestVars
<1> QED BY <1>2, SettledDueType DEF Entitlement

(* XYT earn nothing after the expiry, whatever the rate of the cToken does *)
(* and whoever acts.                                                       *)
THEOREM InterestStopsAtExpiry == Spec => NoInterestAfterExpiry
<1> DEFINE Stopped == now > Expiry => \A u \in User : Entitlement(u)' <= Entitlement(u)
<1>1. ASSUME IInv, Next PROVE Stopped
  <2> SUFFICES ASSUME now > Expiry, NEW u \in User
               PROVE  Entitlement(u)' <= Entitlement(u)
    OBVIOUS
  <2>0. now \in Nat /\ IInv
    BY <1>1 DEF IInv, TypeOK
  <2>1. ASSUME NEW w \in User, RedeemAfterExpiry(w) \/ RedeemDueInterests(w)
        PROVE  Entitlement(u)' <= Entitlement(u)
    <3>1. UpdateDueInterests({w}, {w}) /\ UNCHANGED <<now, xyt>>
      BY <2>1 DEF RedeemAfterExpiry, RedeemDueInterests, environmentVars
    <3> QED BY <3>1, <2>0, SettlingAfterExpiry
  <2>2. ASSUME NEW from \in User, NEW to \in User, NEW amount \in 0..xyt[from],
               TransferXyt(from, to, amount)
        PROVE  Entitlement(u)' <= Entitlement(u)
    <3>1. UpdateDueInterests({from, to}, {}) /\ UNCHANGED now
      BY <2>2 DEF TransferXyt, environmentVars
    <3>2. u \notin {from, to} => xyt'[u] = xyt[u]
      BY <2>0, <2>2 DEF TransferXyt, IInv, TypeOK
    <3> QED BY <3>1, <3>2, <2>0, SettlingAfterExpiry
  <2>3. ASSUME /\ UNCHANGED <<xyt, interestVars>>
               /\ now' = now \/ now' = now + 1
        PROVE  Entitlement(u)' <= Entitlement(u)
    BY <2>0, <2>3, BooksAloneAfterExpiry
  <2>4. CASE WithdrawForgeFee
    <3>1. UNCHANGED <<now, xyt, lastRate, lastRateBeforeExpiry, dueInterests>>
      BY <2>4 DEF WithdrawForgeFee, environmentVars
    <3>2. SettledDue(u)' = SettledDue(u)
      BY <2>0, <3>1 DEF SettledDue, InterestFromXyt, RateBeforeExpiry
    <3> QED BY <2>0, <3>2, SettledDueType DEF Entitlement
  <2>5. \/ \E w \in User : RedeemAfterExpiry(w) \/ RedeemDueInterests(w)
        \/ \E from, to \in User : \E amount \in 0..xyt[from] : TransferXyt(from, to, amount)
        \/ WithdrawForgeFee
        \/ UNCHANGED <<xyt, interestVars>> /\ (now' = now \/ now' = now + 1)
    <3>1. ~(now < Expiry)
      BY <2>0
    <3> QED BY <1>1, <3>1 DEF Next, TokenizeYield, RedeemUnderlying, TransferOt,
               SetUpEmergencyMode, SpenderWithdraw, SetForgeFee, SetStatus, AccrueInterest,
               Tick, environmentVars, tokenVars
  <2> QED BY <2>1, <2>2, <2>3, <2>4, <2>5
<1>2. IInv /\ [Next]_vars => [Stopped]_vars
  BY <1>1
<1> QED BY <1>2, InvariantHolds, PTL DEF Spec, NoInterestAfterExpiry

-----------------------------------------------------------------------------
(* Solvency.  The obligations are one sum over the users, of what each is  *)
(* owed when the last rate seen is r; Quotient(r) is what a unit of the    *)
(* initial rate is worth then, in cTokens times Scale.                     *)
Quotient(r) == IF r = 0 THEN 0 ELSE Scale \div r

OwedAt(r) ==
    [u \in User |-> Scale * dueInterests[u]
                      + InitialRate * (ot[u] * Quotient(r)
                                       + xyt[u] * (Quotient(lastRate[u]) - Quotient(r)))]

(* Whoever has XYT was settled, and the handler spends of a locked contract. *)
SInv ==
    /\ IInv
    /\ \A u \in User : xyt[u] > 0 => lastRate[u] # 0
    /\ spenderApproved => status = "locked"
    /\ OTMatchesXYT

LEMMA QuotientDef ==
    /\ \A r \in Rate : /\ r \in Nat \ {0} /\ Quotient(r) \in Nat
                       /\ r * Quotient(r) = Scale /\ Quotient(r) # 0
    /\ Quotient(0) = 0
<1>1. ASSUME NEW r \in Rate
      PROVE  r \in Nat \ {0} /\ Quotient(r) \in Nat /\ r * Quotient(r) = Scale /\ Quotient(r) # 0
  <2>1. r \in Nat \ {0}
    OBVIOUS
  <2>2. PICK q \in Nat : q = Scale \div r
    BY <2>1, DivisionDef
  <2>3. Scale = r * q + (Scale % r)
    BY <2>1, <2>2
  <2>4. Scale % r = 0
    BY ScaleAssumption
  <2>5. r * q = Scale
    BY <2>1, <2>3, <2>4
  <2>6. q # 0
    BY <2>1, <2>5
  <2> QED
    BY <2>1, <2>2, <2>5, <2>6 DEF Quotient
<1> QED
  BY <1>1 DEF Quotient

LEMMA SumOverIsSum == \A f : SumOver(f) = SumIn(f, User)
BY DEF SumOver, SumIn

(* The types of all that is summed.                                        *)
LEMMA SumTypes ==
    ASSUME IInv, NEW r \in Rate \cup {0}
    PROVE  /\ \A u \in User : /\ ot[u] \in Nat /\ xyt[u] \in Nat /\ dueInterests[u] \in Nat
                              /\ Quotient(lastRate[u]) \in Nat /\ OwedAt(r)[u] \in Int
           /\ Quotient(r) \in Nat
           /\ SumIn(ot, User) \in Nat /\ SumIn(xyt, User) \in Nat /\ SumIn(OwedAt(r), User) \in Int
<1>1. Quotient(r) \in Nat
  BY QuotientDef
<1>2. ASSUME NEW u \in User
      PROVE  /\ ot[u] \in Nat /\ xyt[u] \in Nat /\ dueInterests[u] \in Nat
             /\ Quotient(lastRate[u]) \in Nat
  <2>1. lastRate[u] \in Rate \cup {0}
    BY DEF IInv, TypeOK
  <2>2. Quotient(lastRate[u]) \in Nat
    <3>1. \A t \in Rate \cup {0} : Quotient(t) \in Nat
      BY QuotientDef
    <3> QED
      BY <2>1, <3>1
  <2> QED
    BY <2>2 DEF IInv, TypeOK
<1>3. ASSUME NEW u \in User PROVE OwedAt(r)[u] \in Int
  <2>1. PICK d \in Nat, o \in Nat, x \in Nat, a \in Nat, b \in Nat :
           /\ d = dueInterests[u] /\ o = ot[u] /\ x = xyt[u]
           /\ a = Quotient(lastRate[u]) /\ b = Quotient(r)
    BY <1>1, <1>2
  <2>2. InitialRate \in Nat
    OBVIOUS
  <2>3. Scale * d + InitialRate * (o * b + x * (a - b)) \in Int
    BY <2>2
  <2>4. OwedAt(r)[u] = Scale * d + InitialRate * (o * b + x * (a - b))
    BY <2>1, Zenon DEF OwedAt
  <2> QED
    BY <2>3, <2>4
<1>4. SumIn(ot, User) \in Nat /\ SumIn(xyt, User) \in Nat
  BY <1>2, SumNat
<1>5. SumIn(OwedAt(r), User) \in Int
  BY <1>3, SumInt
<1> QED
  BY <1>1, <1>2, <1>3, <1>4, <1>5

(* As long as OT and XYT match, what is owed does not depend on the rate:  *)
(* what a rise takes from the principal it adds to the interest.           *)
LEMMA OwedAtAnyRate ==
    ASSUME IInv, SumIn(ot, User) = SumIn(xyt, User),
           NEW r \in Rate \cup {0}, NEW s \in Rate \cup {0}
    PROVE  SumIn(OwedAt(r), User) = SumIn(OwedAt(s), User)
<1> DEFINE c == InitialRate * (Quotient(s) - Quotient(r))
           f == [u \in User |-> c * ot[u]]
           g == [u \in User |-> c * xyt[u]]
           h == [u \in User |-> OwedAt(s)[u] + g[u]]
<1>1. c \in Int
  <2>1. Quotient(s) \in Nat /\ Quotient(r) \in Nat /\ InitialRate \in Nat
    BY SumTypes
  <2> QED
    BY <2>1
<1>2. ASSUME NEW u \in User
      PROVE  /\ ot[u] \in Int /\ f[u] = c * ot[u] /\ f[u] \in Int
             /\ xyt[u] \in Int /\ g[u] = c * xyt[u] /\ g[u] \in Int
             /\ OwedAt(r)[u] \in Int /\ OwedAt(s)[u] \in Int
             /\ h[u] = OwedAt(s)[u] + g[u]
             /\ h[u] = OwedAt(r)[u] + f[u]
  <2>1. /\ ot[u] \in Nat /\ xyt[u] \in Nat /\ OwedAt(r)[u] \in Int /\ OwedAt(s)[u] \in Int
        /\ Quotient(lastRate[u]) \in Nat /\ Quotient(r) \in Nat /\ Quotient(s) \in Nat
        /\ dueInterests[u] \in Nat
    BY SumTypes
  <2>2. PICK d \in Nat, o \in Nat, x \in Nat, a \in Nat, b \in Nat, e \in Nat, k \in Nat :
           /\ d = Scale * dueInterests[u] /\ o = ot[u] /\ x = xyt[u]
           /\ a = Quotient(lastRate[u]) /\ b = Quotient(r) /\ e = Quotient(s) /\ k = InitialRate
    <3>1. Scale \in Nat /\ InitialRate \in Nat
      OBVIOUS
    <3>2. Scale * dueInterests[u] \in Nat
      BY <2>1, <3>1, NatTimes, Zenon
    <3> QED
      BY <2>1, <3>1, <3>2, Zenon
  <2>3. /\ OwedAt(r)[u] = d + k * (o * b + x * (a - b))
        /\ OwedAt(s)[u] = d + k * (o * e + x * (a - e))
    BY <2>2, Zenon DEF OwedAt
  <2>4. f[u] = (k * (e - b)) * o /\ g[u] = (k * (e - b)) * x
    BY <2>2
  <2>5. (d + k * (o * e + x * (a - e))) + (k * (e - b)) * x
          = (d + k * (o * b + x * (a - b))) + (k * (e - b)) * o
    OBVIOUS
  <2>6. h[u] = OwedAt(s)[u] + g[u] /\ f[u] = c * ot[u] /\ g[u] = c * xyt[u]
    OBVIOUS
  <2>7. f[u] \in Int /\ g[u] \in Int
    BY <2>4
  <2>8. h[u] = OwedAt(r)[u] + f[u]
    BY <2>3, <2>4, <2>5, <2>6
  <2> QED
    BY <2>1, <2>6, <2>7, <2>8
<1> HIDE DEF c, f, g, h
<1>3. SumIn(h, User) = SumIn(OwedAt(s), User) + SumIn(g, User)
  BY <1>2, SumPlus
<1>4. SumIn(h, User) = SumIn(OwedAt(r), User) + SumIn(f, User)
  BY <1>2, SumPlus
<1>5. SumIn(f, User) = c * SumIn(ot, User) /\ SumIn(g, User) = c * SumIn(xyt, User)
  BY <1>1, <1>2, SumTimes
<1>6. SumIn(f, User) = SumIn(g, User) /\ SumIn(f, User) \in Int
  BY <1>2, <1>5, SumInt
<1>7. SumIn(OwedAt(r), User) \in Int /\ SumIn(OwedAt(s), User) \in Int
  BY SumTypes
<1> QED
  BY <1>3, <1>4, <1>6, <1>7

(* What the roundings of the three conversions leave.                      *)
LEMMA InterestCovered ==
    ASSUME NEW l \in Rate, NEW r \in Rate, l <= r, NEW p \in Nat
    PROVE  Scale * InterestFromXyt(p, l, r) <= InitialRate * (p * (Quotient(l) - Quotient(r)))
<1>1. /\ l \in Nat \ {0} /\ r \in Nat \ {0} /\ InitialRate \in Nat \ {0} /\ Scale \in Nat
  OBVIOUS
<1>2. PICK a \in Nat, b \in Nat : a = Quotient(l) /\ b = Quotient(r)
  BY QuotientDef
<1>3. l * a = Scale /\ r * b = Scale
  BY <1>2, QuotientDef
<1>4. CASE l = r
  <2>1. InterestFromXyt(p, l, r) = 0 /\ a = b
    BY <1>2, <1>4 DEF InterestFromXyt
  <2>2. Scale * 0 = 0 /\ InitialRate * (p * (b - b)) = 0
    BY <1>1
  <2> QED
    BY <1>2, <2>1, <2>2
<1>5. CASE l # r
  <2>1. PICK k \in Nat : k = p * r
    BY <1>1, NatTimes
  <2>2. PICK q \in Nat : q = k \div l /\ l * q <= k
    BY <1>1, DivisionDef
  <2>3. q >= p
    BY <1>1, <2>1, <2>2, DivisionAtLeast
  <2>4. PICK i \in Nat : i = q - p
    BY <2>3
  <2>5. PICK n \in Nat : n = i * InitialRate
    BY <1>1, NatTimes
  <2>6. PICK j \in Nat : j = n \div r /\ r * j <= n
    BY <1>1, DivisionDef
  <2>7. InterestFromXyt(p, l, r) = j
    BY <1>1, <1>5, <2>1, <2>2, <2>4, <2>5, <2>6 DEF InterestFromXyt
  <2>8. b * q <= p * a
    <3>1. b # 0
      BY <1>1, <1>3
    <3>2. b * (l * q) <= b * k
      <4>1. l * q \in Int /\ b \in Nat \ {0}
        BY <1>1, <3>1
      <4> QED
        BY <2>2, <4>1, CancelFactor
    <3>3. b * (l * q) = l * (b * q)
      BY <1>1
    <3>4. b * k = p * (r * b) /\ l * (p * a) = p * (l * a)
      BY <1>1, <2>1
    <3>5. l * (b * q) <= l * (p * a)
      BY <1>3, <3>2, <3>3, <3>4, Zenon
    <3>6. b * q \in Int /\ p * a \in Int
      OBVIOUS
    <3> QED
      BY <1>1, <3>5, <3>6, CancelFactor
  <2>9. b * (q - p) <= p * (a - b)
    BY <2>8
  <2>10. Scale * j <= b * n
    <3>1. b * (r * j) <= b * n
      <4>1. r * j \in Int /\ b \in Nat \ {0}
        BY <1>1, <1>3
      <4> QED
        BY <2>6, <4>1, CancelFactor
    <3>2. b * (r * j) = (r * b) * j
      BY <1>1
    <3> QED
      BY <1>3, <3>1, <3>2, Zenon
  <2>11. b * n = InitialRate * (b * (q - p))
    BY <1>1, <2>4, <2>5
  <2>12. InitialRate * (b * (q - p)) <= InitialRate * (p * (a - b))
    <3>1. b * (q - p) \in Int /\ p * (a - b) \in Int
      OBVIOUS
    <3> QED
      BY <1>1, <2>9, <3>1, CancelFactor
  <2>13. Scale * j \in Int /\ b * n \in Int /\ InitialRate * (p * (a - b)) \in Int
    BY <1>1
  <2>14. Scale * j <= InitialRate * (p * (a - b))
    BY <2>10, <2>11, <2>12, <2>13
  <2> QED
    BY <1>2, <2>7, <2>14
<1> QED
  BY <1>4, <1>5

LEMMA RedemptionCovered ==
    ASSUME NEW r \in Rate, NEW n \in Nat
    PROVE  /\ (n * InitialRate) \div r \in Nat
           /\ Scale * ((n * InitialRate) \div r) <= InitialRate * (n * Quotient(r))
<1>1. r \in Nat \ {0} /\ InitialRate \in Nat \ {0}
  OBVIOUS
<1>2. PICK b \in Nat : b = Quotient(r) /\ r * b = Scale
  BY QuotientDef
<1>3. PICK k \in Nat : k = n * InitialRate
  BY <1>1, NatTimes
<1>4. PICK j \in Nat : j = k \div r /\ r * j <= k
  BY <1>1, DivisionDef
<1>5. b * (r * j) <= b * k
  <2>1. r * j \in Int /\ b \in Nat \ {0}
    BY <1>1, <1>2
  <2> QED
    BY <1>4, <2>1, CancelFactor
<1>6. b * (r * j) = (r * b) * j /\ b * k = InitialRate * (n * b)
  BY <1>1, <1>3
<1> QED
  BY <1>2, <1>3, <1>4, <1>5, <1>6, Zenon

LEMMA MintCovered ==
    ASSUME NEW r \in Rate, NEW n \in Nat
    PROVE  /\ (n * r) \div InitialRate \in Nat
           /\ InitialRate * (((n * r) \div InitialRate) * Quotient(r)) <= Scale * n
<1>1. r \in Nat \ {0} /\ InitialRate \in Nat \ {0}
  OBVIOUS
<1>2. PICK b \in Nat : b = Quotient(r) /\ r * b = Scale
  BY QuotientDef
<1>3. PICK k \in Nat : k = n * r
  BY <1>1, NatTimes
<1>4. PICK m \in Nat : m = k \div InitialRate /\ InitialRate * m <= k
  BY <1>1, DivisionDef
<1>5. b * (InitialRate * m) <= b * k
  <2>1. InitialRate * m \in Int /\ b \in Nat \ {0}
    BY <1>1, <1>2
  <2> QED
    BY <1>4, <2>1, CancelFactor
<1>6. b * (InitialRate * m) = InitialRate * (m * b) /\ b * k = (r * b) * n
  BY <1>1, <1>3
<1> QED
  BY <1>2, <1>3, <1>4, <1>5, <1>6, Zenon

(* What u is owed covers his interest settled now, and his OT.             *)
LEMMA SettledIsOwed ==
    ASSUME SInv, NEW u \in User
    PROVE  Scale * SettledDue(u) + InitialRate * (ot[u] * Quotient(RateBeforeExpiry))
             <= OwedAt(RateBeforeExpiry)[u]
<1>1. PICK r \in Rate \cup {0} : r = RateBeforeExpiry
  BY RateBeforeExpiryType DEF SInv
<1>2. PICK l \in Rate \cup {0} : l = lastRate[u]
  BY DEF SInv, IInv, TypeOK
<1>3. PICK d \in Nat, o \in Nat, x \in Nat, a \in Nat, b \in Nat :
         /\ d = dueInterests[u] /\ o = ot[u] /\ x = xyt[u]
         /\ a = Quotient(l) /\ b = Quotient(r)
  BY <1>1, <1>2, SumTypes, QuotientDef DEF SInv
<1>4. l <= r /\ l \in Nat /\ r \in Nat
  BY <1>1, <1>2, RateBeforeExpiryType DEF SInv
<1>5. PICK j \in Nat : j = InterestFromXyt(x, l, r) /\ Scale * j <= InitialRate * (x * (a - b))
  <2>1. CASE x = 0
    <3>1. InterestFromXyt(0, l, r) = 0
      <4>1. CASE l = 0 \/ l = r
        BY <4>1 DEF InterestFromXyt
      <4>2. CASE l # 0 /\ l # r
        <5>1. l \in Nat \ {0} /\ r \in Nat \ {0} /\ InitialRate \in Nat
          BY <1>4, <4>2
        <5>2. 0 * r = 0 /\ 0 \div l = 0 /\ (0 - 0) * InitialRate = 0 /\ 0 \div r = 0
          BY <5>1
        <5> QED
          BY <4>2, <5>2 DEF InterestFromXyt
      <4> QED
        BY <4>1, <4>2
    <3>2. Scale * 0 = 0 /\ InitialRate * (0 * (a - b)) = 0
      OBVIOUS
    <3> QED
      BY <2>1, <3>1, <3>2
  <2>2. CASE x # 0
    <3>1. l \in Rate /\ r \in Rate
      <4>1. l # 0
        BY <1>2, <1>3, <2>2 DEF SInv
      <4> QED
        BY <1>1, <1>2, <1>4, <4>1
    <3>2. InterestFromXyt(x, l, r) \in Nat
      <4>1. d + InterestFromXyt(x, l, r) \in Nat
        BY <1>1, <1>2, <1>3, SettledDueType DEF SettledDue, SInv
      <4> DEFINE k == (x * r) \div l
                 n == (k - x) * InitialRate
      <4>2. l \in Nat \ {0} /\ r \in Nat \ {0} /\ x * r \in Nat
        BY <3>1, NatTimes
      <4>3. k \in Nat /\ k >= x
        BY <1>4, <4>2, DivisionDef, DivisionAtLeast
      <4> HIDE DEF k
      <4>4. n \in Nat
        BY <4>3, NatTimes
      <4>5. n \div r \in Nat
        <5> HIDE DEF n
        <5> QED BY <4>2, <4>4, DivisionDef
      <4> QED
        BY <4>5 DEF InterestFromXyt, k
    <3>3. Scale * InterestFromXyt(x, l, r) <= InitialRate * (x * (a - b))
      BY <1>3, <1>4, <3>1, InterestCovered
    <3> QED
      BY <3>2, <3>3
  <2> QED
    BY <2>1, <2>2
<1>6. SettledDue(u) = d + j
  BY <1>1, <1>2, <1>3, <1>5 DEF SettledDue
<1>7. OwedAt(r)[u] = Scale * d + InitialRate * (o * b + x * (a - b))
  BY <1>2, <1>3, Zenon DEF OwedAt
<1>8. /\ Scale * (d + j) = Scale * d + Scale * j
      /\ InitialRate * (o * b + x * (a - b)) = InitialRate * (o * b) + InitialRate * (x * (a - b))
      /\ Scale * d \in Int /\ Scale * j \in Int /\ InitialRate * (o * b) \in Int
      /\ InitialRate * (x * (a - b)) \in Int
  OBVIOUS
<1>9. Scale * (d + j) + InitialRate * (o * b) <= Scale * d + InitialRate * (o * b + x * (a - b))
  BY <1>5, <1>8
<1> QED
  BY <1>1, <1>3, <1>6, <1>7, <1>9, Zenon

(* Nobody is owed more by a settlement, at the rate it settles at, than    *)
(* his OT changes by, and less by what he is paid.                         *)
LEMMA OwedAfterSettling ==
    ASSUME SInv, NEW S \in SUBSET User, NEW paid \in SUBSET S, UpdateDueInterests(S, paid),
           IInv', NEW u \in User, u \notin S => xyt'[u] = xyt[u]
    PROVE  OwedAt(lastRateBeforeExpiry)'[u] + (IF u \in paid THEN Scale * SettledDue(u) ELSE 0)
             <= OwedAt(RateBeforeExpiry)[u]
                  + InitialRate * Quotient(RateBeforeExpiry) * (ot'[u] - ot[u])
<1>1. PICK r \in Rate \cup {0} : r = RateBeforeExpiry
  BY RateBeforeExpiryType DEF SInv
<1>2. /\ lastRateBeforeExpiry' = r
      /\ lastRate' = [w \in User |-> IF w \in S THEN r ELSE lastRate[w]]
      /\ dueInterests' = DuesAfterSettling(S, paid)
  BY <1>1, Zenon DEF UpdateDueInterests, RatesAfterSettling
<1>3. PICK b \in Nat : b = Quotient(r)
  BY SumTypes DEF SInv
<1>4. PICK o \in Nat, n \in Nat, x \in Nat, y \in Nat, e \in Nat, k \in Nat, l \in Rate \cup {0} :
         /\ o = ot[u] /\ n = ot'[u] /\ x = xyt[u] /\ y = xyt'[u] /\ e = dueInterests'[u]
         /\ k = InitialRate /\ l = lastRate'[u]
  BY DEF SInv, IInv, TypeOK
<1>5. PICK a \in Nat : a = Quotient(l)
  BY QuotientDef
<1>6. OwedAt(lastRateBeforeExpiry)'[u] = Scale * e + k * (n * b + y * (a - b))
  BY <1>2, <1>3, <1>4, <1>5 DEF OwedAt
<1>7. PICK was \in Int : was = OwedAt(r)[u]
  BY SumTypes DEF SInv
<1>8. PICK due \in Nat : due = SettledDue(u)
  BY SettledDueType DEF SInv
<1>9. CASE u \in S
  <2>1. l = r /\ a = b
    BY <1>2, <1>3, <1>4, <1>5, <1>9
  <2>2. Scale * due + k * (o * b) <= was
    BY <1>1, <1>3, <1>4, <1>7, <1>8, SettledIsOwed
  <2>3. k * (n * b + y * (b - b)) = k * (o * b) + k * b * (n - o)
    OBVIOUS
  <2>4. CASE u \in paid
    <3>1. e = 0
      BY <1>2, <1>4, <2>4, Zenon DEF DuesAfterSettling
    <3>2. Scale * 0 = 0 /\ Scale * due \in Int /\ k * (o * b) \in Int /\ k * b * (n - o) \in Int
      OBVIOUS
    <3>3. Scale * 0 + k * (n * b + y * (b - b)) + Scale * due <= was + k * b * (n - o)
      BY <2>2, <2>3, <3>2
    <3>4. OwedAt(lastRateBeforeExpiry)'[u] = Scale * 0 + k * (n * b + y * (b - b))
      BY <1>6, <2>1, <3>1, Zenon
    <3> QED
      BY <1>1, <1>3, <1>4, <1>7, <1>8, <2>4, <3>3, <3>4, Zenon
  <2>5. CASE u \notin paid
    <3>1. e = due
      <4>1. u \in S \ paid
        BY <1>9, <2>5
      <4> QED
        BY <1>2, <1>4, <1>8, <2>5, <4>1, Zenon DEF DuesAfterSettling
    <3>2. Scale * due \in Int /\ k * (o * b) \in Int /\ k * b * (n - o) \in Int
      OBVIOUS
    <3>3. Scale * due + k * (n * b + y * (b - b)) + 0 <= was + k * b * (n - o)
      BY <2>2, <2>3, <3>2
    <3>4. OwedAt(lastRateBeforeExpiry)'[u] = Scale * due + k * (n * b + y * (b - b))
      BY <1>6, <2>1, <3>1, Zenon
    <3> QED
      BY <1>1, <1>3, <1>4, <1>7, <2>5, <3>3, <3>4, Zenon
  <2> QED
    BY <2>4, <2>5
<1>10. CASE u \notin S
  <2>1. l = lastRate[u] /\ y = x
    BY <1>2, <1>4, <1>10
  <2>2. e = dueInterests[u]
    <3>1. u \notin paid /\ u \notin S \ paid
      BY <1>10
    <3> QED
      BY <1>2, <1>4, <3>1, Zenon DEF DuesAfterSettling
  <2>3. was = Scale * e + k * (o * b + x * (a - b))
    BY <1>3, <1>4, <1>5, <1>7, <2>1, <2>2, Zenon DEF OwedAt
  <2>4. k * (n * b + x * (a - b)) = k * (o * b + x * (a - b)) + k * b * (n - o)
    OBVIOUS
  <2>5. /\ k * (n * b + x * (a - b)) \in Int /\ k * (o * b + x * (a - b)) \in Int
        /\ k * b * (n - o) \in Int /\ Scale * e \in Int
    OBVIOUS
  <2>6. Scale * e + k * (n * b + x * (a - b)) + 0 <= was + k * b * (n - o)
    BY <2>3, <2>4, <2>5
  <2>7. u \notin paid
    BY <1>10
  <2> QED
    BY <1>1, <1>3, <1>4, <1>6, <1>7, <2>1, <2>6, <2>7, Zenon
<1> QED
  BY <1>9, <1>10, Zenon

(* What is owed is the same at the rate that a settlement uses.            *)
LEMMA OwedBeforeExpiry ==
    ASSUME SInv, NEW r \in Rate \cup {0}, r = RateBeforeExpiry
    PROVE  SumIn(OwedAt(r), User) = SumIn(OwedAt(lastRateBeforeExpiry), User)
<1>1. CASE now <= Expiry
  <2>1. SumIn(ot, User) = SumIn(xyt, User)
    BY <1>1, SumOverIsSum, Zenon DEF SInv, OTMatchesXYT
  <2>2. lastRateBeforeExpiry \in Rate \cup {0}
    BY DEF SInv, IInv, TypeOK
  <2> QED
    BY <2>1, <2>2, OwedAtAnyRate DEF SInv
<1>2. CASE now > Expiry
  BY <1>2 DEF RateBeforeExpiry
<1> QED
  BY <1>1, <1>2 DEF SInv, IInv, TypeOK

(* The same for everybody together, whatever the rate was that the books   *)
(* were kept at: it moves only while OT and XYT match.                     *)
LEMMA BooksAfterSettling ==
    ASSUME SInv, NEW S \in SUBSET User, NEW paid \in SUBSET S, UpdateDueInterests(S, paid),
           IInv', \A u \in User \ S : xyt'[u] = xyt[u],
           NEW due \in Nat,
           \/ paid = {} /\ due = 0
           \/ \E u \in User : paid = {u} /\ due = SettledDue(u)
    PROVE  SumIn(OwedAt(lastRateBeforeExpiry)', User) + Scale * due
             <= SumIn(OwedAt(lastRateBeforeExpiry), User)
                  + InitialRate * Quotient(RateBeforeExpiry) * (SumIn(ot', User) - SumIn(ot, User))
<1>1. PICK r \in Rate \cup {0} : r = RateBeforeExpiry
  BY RateBeforeExpiryType DEF SInv
<1>2. PICK c \in Nat : c = InitialRate * Quotient(r)
  <2>1. Quotient(r) \in Nat /\ InitialRate \in Nat
    BY SumTypes DEF SInv
  <2> QED
    BY <2>1, NatTimes
<1>3. PICK owed, o : owed = OwedAt(lastRateBeforeExpiry)' /\ o = ot'
  OBVIOUS
<1> DEFINE p == [u \in User |-> IF u \in paid THEN Scale * SettledDue(u) ELSE 0]
           d == [u \in User |-> o[u] - ot[u]]
           e == [u \in User |-> c * d[u]]
           left == [u \in User |-> owed[u] + p[u]]
           right == [u \in User |-> OwedAt(r)[u] + e[u]]
           minus == [u \in User |-> (-1) * ot[u]]
<1>4. lastRateBeforeExpiry' \in Rate \cup {0}
  BY DEF IInv, TypeOK
<1>5. ASSUME NEW u \in User
      PROVE  /\ owed[u] \in Int /\ p[u] \in Int /\ left[u] = owed[u] + p[u] /\ left[u] \in Int
             /\ ot[u] \in Int /\ o[u] \in Int /\ minus[u] = (-1) * ot[u] /\ minus[u] \in Int
             /\ d[u] = o[u] + minus[u] /\ d[u] \in Int /\ e[u] = c * d[u] /\ e[u] \in Int
             /\ OwedAt(r)[u] \in Int /\ right[u] = OwedAt(r)[u] + e[u] /\ right[u] \in Int
             /\ left[u] <= right[u]
  <2>1. owed[u] \in Int
    <3>1. PICK x \in Nat, y \in Nat, z \in Nat, l \in Rate \cup {0}, m \in Rate \cup {0} :
             /\ x = dueInterests'[u] /\ y = ot'[u] /\ z = xyt'[u]
             /\ l = lastRate'[u] /\ m = lastRateBeforeExpiry'
      BY <1>4 DEF IInv, TypeOK
    <3>2. PICK a \in Nat, b \in Nat : a = Quotient(l) /\ b = Quotient(m)
      BY QuotientDef
    <3>3. owed[u] = Scale * x + InitialRate * (y * b + z * (a - b))
      BY <1>3, <3>1, <3>2 DEF OwedAt
    <3>4. InitialRate \in Int
      OBVIOUS
    <3> QED
      BY <3>3, <3>4
  <2>2. SettledDue(u) \in Nat /\ p[u] \in Int
    <3>1. SettledDue(u) \in Nat
      BY SettledDueType DEF SInv
    <3>2. Scale * SettledDue(u) \in Int
      BY <3>1
    <3> QED
      BY <3>1, <3>2
  <2>3. ot[u] \in Int /\ o[u] \in Int /\ OwedAt(r)[u] \in Int
    BY <1>3, SumTypes DEF SInv, IInv, TypeOK
  <2>4. minus[u] = (-1) * ot[u] /\ minus[u] \in Int /\ d[u] = o[u] + minus[u] /\ d[u] \in Int
    BY <2>3
  <2>5. e[u] = c * d[u] /\ e[u] \in Int
    <3> HIDE DEF d
    <3> QED BY <2>4
  <2>6. owed[u] + p[u] <= OwedAt(r)[u] + c * (o[u] - ot[u])
    <3>1. u \notin S => xyt'[u] = xyt[u]
      OBVIOUS
    <3> QED
      BY <1>1, <1>2, <1>3, <3>1, OwedAfterSettling, Zenon
  <2> QED
    BY <2>1, <2>2, <2>3, <2>4, <2>5, <2>6
<1> HIDE DEF d, e, left, right, minus
<1>6. SumIn(left, User) = SumIn(owed, User) + SumIn(p, User)
  <2> HIDE DEF p
  <2> QED BY <1>5, SumPlus
<1>7. SumIn(right, User) = SumIn(OwedAt(r), User) + SumIn(e, User)
  BY <1>5, SumPlus
<1>8. SumIn(e, User) = c * SumIn(d, User)
  BY <1>5, SumTimes
<1>9. SumIn(d, User) = SumIn(o, User) - SumIn(ot, User)
  <2>1. SumIn(d, User) = SumIn(o, User) + SumIn(minus, User)
    BY <1>5, SumPlus
  <2>2. SumIn(minus, User) = (-1) * SumIn(ot, User)
    BY <1>5, SumTimes
  <2>3. SumIn(o, User) \in Int /\ SumIn(ot, User) \in Int
    BY <1>5, SumInt
  <2> QED
    BY <2>1, <2>2, <2>3
<1>10. SumIn(p, User) = Scale * due
  <2>1. CASE paid = {} /\ due = 0
    <3>1. \A u \in User : p[u] = 0
      BY <2>1
    <3>2. SumIn(p, User) = 0
      <4> HIDE DEF p
      <4> QED BY <3>1, SumZero
    <3> QED
      BY <2>1, <3>2
  <2>2. ASSUME NEW u \in User, paid = {u}, due = SettledDue(u) PROVE SumIn(p, User) = Scale * due
    <3> DEFINE zero == [w \in User |-> 0]
    <3>1. \A w \in User \ {u} : p[w] = zero[w]
      BY <2>2
    <3>2. p[u] = Scale * due /\ zero[u] = 0 /\ \A w \in User : zero[w] = 0
      BY <2>2
    <3> HIDE DEF p, zero
    <3>3. SumIn(p, User) = SumIn(zero, User) + (p[u] - zero[u])
      <4>1. \A w \in User : p[w] \in Int /\ zero[w] \in Int
        BY <1>5, <3>2
      <4>2. p[u] \in Int
        BY <1>5
      <4> QED
        BY <3>1, <4>1, <4>2, SumChange
    <3>4. SumIn(zero, User) = 0
      BY <3>2, SumZero
    <3> QED
      BY <3>2, <3>3, <3>4
  <2> QED
    BY <2>1, <2>2
<1>11. SumIn(left, User) <= SumIn(right, User)
  BY <1>5, SumMonotone
<1>12. SumIn(OwedAt(r), User) = SumIn(OwedAt(lastRateBeforeExpiry), User)
  BY <1>1, OwedBeforeExpiry
<1>13. SumIn(owed, User) + Scale * due
          <= SumIn(OwedAt(r), User) + c * (SumIn(o, User) - SumIn(ot, User))
  BY <1>6, <1>7, <1>8, <1>9, <1>10, <1>11, Zenon
<1> QED
  BY <1>1, <1>2, <1>3, <1>12, <1>13, Zenon

-----------------------------------------------------------------------------
(* The obligations are what everybody is owed, and the fees.               *)
Owed == SumIn(OwedAt(lastRateBeforeExpiry), User)

Covered == Scale * held - Scale * totalFee - Owed

LEMMA OwedInParts ==
    ASSUME IInv, NEW r \in Rate \cup {0}, NEW g,
           \A u \in User : g[u] \in Int /\ g[u] = xyt[u] * (Quotient(lastRate[u]) - Quotient(r))
    PROVE  SumIn(OwedAt(r), User) = Scale * SumIn(dueInterests, User)
                      + InitialRate * (SumIn(ot, User) * Quotient(r) + SumIn(g, User))
<1>1. PICK b \in Nat : b = Quotient(r)
  BY SumTypes
<1> DEFINE f == [u \in User |-> b * ot[u]]
           h == [u \in User |-> f[u] + g[u]]
           i == [u \in User |-> InitialRate * h[u]]
           d == [u \in User |-> Scale * dueInterests[u]]
<1>2. InitialRate \in Int /\ Scale \in Int
  OBVIOUS
<1>3. ASSUME NEW u \in User
      PROVE  /\ ot[u] \in Int /\ f[u] = b * ot[u] /\ f[u] \in Int
             /\ g[u] \in Int /\ h[u] = f[u] + g[u] /\ h[u] \in Int
             /\ i[u] = InitialRate * h[u] /\ i[u] \in Int
             /\ dueInterests[u] \in Int /\ d[u] = Scale * dueInterests[u] /\ d[u] \in Int
             /\ OwedAt(r)[u] = d[u] + i[u]
  <2>1. PICK o \in Nat, n \in Int, e \in Nat : o = ot[u] /\ n = g[u] /\ e = dueInterests[u]
    BY SumTypes
  <2>2. f[u] = b * o /\ h[u] = b * o + n /\ i[u] = InitialRate * (b * o + n) /\ d[u] = Scale * e
    BY <2>1
  <2>3. b * o \in Int /\ b * o + n \in Int /\ InitialRate * (b * o + n) \in Int /\ Scale * e \in Int
    BY <1>2
  <2>4. OwedAt(r)[u] = Scale * e + InitialRate * (o * b + n)
    BY <1>1, <2>1, Zenon DEF OwedAt
  <2>5. o * b = b * o
    OBVIOUS
  <2> QED
    BY <2>1, <2>2, <2>3, <2>4, <2>5
<1> HIDE DEF f, h, i, d
<1>4. SumIn(OwedAt(r), User) = SumIn(d, User) + SumIn(i, User)
  BY <1>3, SumPlus
<1>5. SumIn(d, User) = Scale * SumIn(dueInterests, User)
  BY <1>2, <1>3, SumTimes
<1>6. SumIn(i, User) = InitialRate * SumIn(h, User)
  BY <1>2, <1>3, SumTimes
<1>7. SumIn(h, User) = SumIn(f, User) + SumIn(g, User)
  BY <1>3, SumPlus
<1>8. SumIn(f, User) = b * SumIn(ot, User)
  BY <1>3, SumTimes
<1>9. SumIn(ot, User) \in Int
  BY <1>3, SumInt
<1>10. b * SumIn(ot, User) = SumIn(ot, User) * b
  BY <1>9
<1> QED
  BY <1>1, <1>4, <1>5, <1>6, <1>7, <1>8, <1>10, Zenon

LEMMA SurplusIsCovered == SInv => Surplus = Covered
<1> SUFFICES ASSUME SInv PROVE Surplus = Covered
  OBVIOUS
<1>1. IInv /\ held \in Int /\ totalFee \in Int /\ Scale \in Int /\ InitialRate \in Int
  BY DEF SInv, IInv, TypeOK
<1>2. PICK r \in Rate \cup {0} : r = lastRateBeforeExpiry
  BY DEF SInv, IInv, TypeOK
<1>3. PICK b \in Nat : b = Quotient(r)
  BY <1>1, SumTypes
<1>4. PICK d \in Int, o \in Int : d = SumIn(dueInterests, User) /\ o = SumIn(ot, User)
  BY <1>1, SumTypes, SumInt
<1> DEFINE g == [u \in User |-> xyt[u] * (Quotient(lastRate[u]) - Quotient(r))]
<1>5. ASSUME NEW u \in User
      PROVE  g[u] \in Int /\ g[u] = xyt[u] * (Quotient(lastRate[u]) - Quotient(r))
  <2>1. PICK x \in Nat, a \in Nat : x = xyt[u] /\ a = Quotient(lastRate[u])
    BY <1>1, SumTypes
  <2> QED
    BY <1>3, <2>1
<1>6. Owed = Scale * d + InitialRate * (o * b + SumIn(g, User))
  <2> HIDE DEF g
  <2>1. SumIn(OwedAt(r), User) = Scale * SumIn(dueInterests, User)
                      + InitialRate * (SumIn(ot, User) * Quotient(r) + SumIn(g, User))
    BY <1>1, <1>5, OwedInParts
  <2> QED
    BY <1>2, <1>3, <1>4, <2>1, Zenon DEF Owed
<1>7. CASE r = 0
  <2>1. \A u \in User : g[u] = 0
    <3>1. SUFFICES ASSUME NEW u \in User PROVE g[u] = 0
      OBVIOUS
    <3>2. lastRate[u] = 0 /\ xyt[u] \in Nat
      <4>1. lastRate[u] \in Nat /\ lastRate[u] <= lastRateBeforeExpiry /\ xyt[u] \in Nat
        BY RateBeforeExpiryType DEF SInv, IInv, TypeOK, RatesInOrder
      <4> QED
        BY <1>2, <1>7, <4>1
    <3>3. Quotient(lastRate[u]) - Quotient(r) = 0
      BY <1>7, <3>2, QuotientDef
    <3> QED
      BY <3>2, <3>3
  <2>2. SumIn(g, User) = 0
    <3> HIDE DEF g
    <3> QED BY <2>1, SumZero
  <2>3. b = 0
    BY <1>3, <1>7, QuotientDef
  <2>4. Obligations = Scale * (d + totalFee) + InitialRate * 0
    BY <1>2, <1>4, <1>7, SumOverIsSum, Zenon DEF Obligations
  <2>5. Scale * held - (Scale * (d + totalFee) + InitialRate * 0)
          = Scale * held - Scale * totalFee - (Scale * d + InitialRate * (o * 0 + 0))
    BY <1>1
  <2> QED
    BY <1>6, <2>2, <2>3, <2>4, <2>5, Zenon DEF Surplus, Covered
<1>8. CASE r # 0
  <2>1. \A u \in User : Unsettled(u) = g[u]
    <3>1. SUFFICES ASSUME NEW u \in User PROVE Unsettled(u) = g[u]
      OBVIOUS
    <3>2. CASE xyt[u] = 0
      <4>1. PICK a \in Nat : a = Quotient(lastRate[u])
        BY <1>1, SumTypes
      <4>2. 0 * (a - b) = 0
        OBVIOUS
      <4>3. g[u] = xyt[u] * (a - b)
        BY <1>3, <4>1
      <4> QED
        BY <3>2, <4>2, <4>3 DEF Unsettled
    <3>3. CASE xyt[u] # 0
      <4>1. lastRate[u] # 0
        BY <3>3 DEF SInv, IInv, TypeOK
      <4>2. Quotient(lastRate[u]) = Scale \div lastRate[u] /\ Quotient(r) = Scale \div r
        BY <1>8, <4>1, Zenon DEF Quotient
      <4> QED
        BY <1>2, <3>3, <4>2 DEF Unsettled, Earned
    <3> QED
      BY <3>2, <3>3
  <2>2. [u \in User |-> Unsettled(u)] = g
    BY <2>1
  <2>3. PICK n \in Int : n = SumIn(g, User)
    <3> HIDE DEF g
    <3> QED BY <1>5, SumInt
  <2>4. b = Scale \div lastRateBeforeExpiry
    BY <1>2, <1>3, <1>8, Zenon DEF Quotient
  <2> HIDE DEF g
  <2>5. Obligations = Scale * (d + totalFee) + InitialRate * (o * b + n)
    BY <1>2, <1>4, <1>8, <2>2, <2>3, <2>4, SumOverIsSum, Zenon DEF Obligations
  <2>6. Scale * held - (Scale * (d + totalFee) + InitialRate * (o * b + n))
          = Scale * held - Scale * totalFee - (Scale * d + InitialRate * (o * b + n))
    BY <1>1
  <2> QED
    BY <1>6, <2>3, <2>5, <2>6, Zenon DEF Surplus, Covered
<1> QED
  BY <1>7, <1>8

LEMMA OwedType == IInv => Owed \in Int
<1> SUFFICES ASSUME IInv PROVE Owed \in Int
  OBVIOUS
<1>1. lastRateBeforeExpiry \in Rate \cup {0}
  BY DEF IInv, TypeOK
<1> QED
  BY <1>1, SumTypes DEF Owed

(* What an action that settles interest does to what is covered, from what *)
(* it takes in, gives out and books as a fee.                              *)
LEMMA CoveredAfterSettling ==
    ASSUME SInv, NEW S \in SUBSET User, NEW paid \in SUBSET S, UpdateDueInterests(S, paid),
           IInv', \A u \in User \ S : xyt'[u] = xyt[u],
           NEW due \in Nat,
           \/ paid = {} /\ due = 0
           \/ \E u \in User : paid = {u} /\ due = SettledDue(u),
           NEW fee \in Nat, totalFee' = totalFee + fee,
           NEW given \in Int, held' >= held - given,
           NEW moved \in Int, moved = SumIn(ot', User) - SumIn(ot, User),
           Scale * given + InitialRate * Quotient(RateBeforeExpiry) * moved <= Scale * (due - fee)
    PROVE  Covered' >= Covered
<1>1. SumIn(OwedAt(lastRateBeforeExpiry)', User) + Scale * due
         <= SumIn(OwedAt(lastRateBeforeExpiry), User)
              + InitialRate * Quotient(RateBeforeExpiry) * (SumIn(ot', User) - SumIn(ot, User))
  BY BooksAfterSettling
<1>2. PICK h \in Nat, k \in Nat, t \in Nat, c \in Int, s \in Nat \ {0} :
         /\ h = held /\ k = held' /\ t = totalFee
         /\ c = InitialRate * Quotient(RateBeforeExpiry) /\ s = Scale
  <2>1. held \in Nat /\ held' \in Nat /\ totalFee \in Nat /\ InitialRate \in Nat
    BY DEF SInv, IInv, TypeOK
  <2>2. Quotient(RateBeforeExpiry) \in Nat
    BY RateBeforeExpiryType, SumTypes DEF SInv
  <2>3. InitialRate * Quotient(RateBeforeExpiry) \in Int
    BY <2>1, <2>2
  <2> QED
    BY <2>1, <2>3
<1>3. PICK was \in Int, is \in Int : was = Owed /\ is = Owed'
  <2>1. Owed \in Int
    BY OwedType DEF SInv
  <2>2. Owed' \in Int
    <3>1. (IInv => Owed \in Int)'
      BY OwedType, PTL
    <3> QED
      BY <3>1
  <2> QED
    BY <2>1, <2>2
<1>4. is + s * due <= was + c * moved
  BY <1>1, <1>2, <1>3, Zenon DEF Owed
<1>5. s * given + c * moved <= s * (due - fee) /\ k >= h - given
  BY <1>2, Zenon
<1>6. s * k >= s * (h - given)
  BY <1>5, CancelFactor
<1>7. /\ s * (due - fee) = s * due - s * fee /\ s * (h - given) = s * h - s * given
      /\ s * (t + fee) = s * t + s * fee
      /\ s * due \in Int /\ s * fee \in Int /\ s * h \in Int /\ s * given \in Int /\ s * t \in Int
      /\ s * k \in Int /\ c * moved \in Int
  OBVIOUS
<1>8. s * k - s * (t + fee) - is >= s * h - s * t - was
  BY <1>4, <1>5, <1>6, <1>7
<1> QED
  BY <1>2, <1>3, <1>8, Zenon DEF Covered

(* What a user pays in is worth the OT he is given.                        *)
LEMMA TokenizeYieldCovered ==
    ASSUME SInv, IInv', NEW u \in User, NEW to \in User, NEW amount \in 1..cToken[u],
           TokenizeYield(u, amount, to)
    PROVE  /\ Covered' >= Covered
           /\ SumIn(ot', User) - SumIn(ot, User) = SumIn(xyt', User) - SumIn(xyt, User)
           /\ SumIn(ot', User) \in Int /\ SumIn(xyt', User) \in Int
<1>1. /\ amount \in Nat /\ held \in Nat /\ totalFee \in Nat /\ rate \in Rate
      /\ ot \in [User -> Nat] /\ xyt \in [User -> Nat] /\ now \in Nat
  BY DEF SInv, IInv, TypeOK
<1>2. PICK minted \in Nat : /\ minted = (amount * rate) \div InitialRate
                            /\ InitialRate * (minted * Quotient(rate)) <= Scale * amount
  BY <1>1, MintCovered
<1>3. /\ UpdateDueInterests({to}, {}) /\ now < Expiry
      /\ ot' = [ot EXCEPT ![to] = @ + minted] /\ xyt' = [xyt EXCEPT ![to] = @ + minted]
      /\ totalFee' = totalFee + 0
      /\ held' = held - (- amount)
  BY <1>1, <1>2 DEF TokenizeYield
<1>4. ot \in [User -> Int]
  BY <1>1
<1>5. xyt \in [User -> Int]
  BY <1>1
<1>6. SumIn(ot', User) = SumIn(ot, User) + minted
  <2>1. ot' = [ot EXCEPT ![to] = @ + minted]
    BY <1>3
  <2>2. minted \in Int
    OBVIOUS
  <2> QED
    BY ONLY IsFiniteSet(User), to \in User, <1>4, <2>1, <2>2, SumAdded, ZenonT(60)
<1>7. SumIn(xyt', User) = SumIn(xyt, User) + minted
  <2>1. xyt' = [xyt EXCEPT ![to] = @ + minted]
    BY <1>3
  <2>2. minted \in Int
    OBVIOUS
  <2> QED
    BY ONLY IsFiniteSet(User), to \in User, <1>5, <2>1, <2>2, SumAdded, ZenonT(60)
<1>8. SumIn(ot, User) \in Int /\ SumIn(xyt, User) \in Int
  BY <1>4, <1>5, SumInt
<1>9. Covered' >= Covered
  <2>1. RateBeforeExpiry = rate
    BY <1>1, <1>3 DEF RateBeforeExpiry
  <2>2. PICK b \in Nat : b = Quotient(rate)
    BY <1>1, QuotientDef
  <2>3. /\ Scale * (- amount) + InitialRate * b * minted <= Scale * (0 - 0)
    <3>1. /\ Scale * (- amount) = - (Scale * amount) /\ InitialRate * b * minted = InitialRate * (minted * b)
          /\ Scale * (0 - 0) = 0 /\ Scale * amount \in Int /\ InitialRate * (minted * b) \in Int
      BY <1>1
    <3> QED
      BY <1>2, <2>2, <3>1
  <2>4. Scale * (- amount) + InitialRate * Quotient(RateBeforeExpiry) * minted <= Scale * (0 - 0)
    BY <2>1, <2>2, <2>3
  <2>5. - amount \in Int /\ held' >= held - (- amount) /\ {} \in SUBSET {to} /\ {to} \in SUBSET User
    BY <1>1, <1>3
  <2>6. \A w \in User \ {to} : xyt'[w] = xyt[w]
    BY <1>1, <1>3
  <2>7. minted = SumIn(ot', User) - SumIn(ot, User)
    BY <1>6, <1>8
  <2>8. minted \in Int /\ 0 \in Nat
    OBVIOUS
  <2> QED
    BY <1>3, <2>4, <2>5, <2>6, <2>7, <2>8, CoveredAfterSettling
<1> QED
  BY <1>6, <1>7, <1>8, <1>9

(* A payout gives at most what it is asked for. *)
LEMMA PayingAtMost ==
    ASSUME IInv, NEW u \in User, NEW amount \in Nat, PayOut(u, amount)
    PROVE  held' \in Nat /\ held' >= held - amount
<1>1. held \in Nat
  BY DEF IInv, TypeOK
<1> QED
  BY <1>1 DEF PayOut, Minimum

(* A redemption gives what the OT were worth and the interest without the  *)
(* fee.                                                                    *)
LEMMA RedemptionIsCovered ==
    ASSUME SInv, IInv', NEW u \in User, UpdateDueInterests({u}, {u}), totalFee' = totalFee + FeeOf(u),
           \A w \in User \ {u} : xyt'[w] = xyt[w],
           NEW n \in Nat, SumIn(ot', User) = SumIn(ot, User) + (-n),
           NEW redeemed \in Nat,
           Scale * redeemed <= InitialRate * (n * Quotient(RateBeforeExpiry)),
           PayOut(u, redeemed + NetInterest(u))
    PROVE  Covered' >= Covered
<1>1. PICK due \in Nat, fee \in Nat : due = SettledDue(u) /\ fee = FeeOf(u) /\ due - fee \in Nat
  BY SettledDueType DEF SInv, NetInterest
<1>2. NetInterest(u) = due - fee
  BY <1>1 DEF NetInterest
<1>3. PICK given \in Int : given = redeemed + (due - fee) /\ held' >= held - given
  <2>1. redeemed + (due - fee) \in Nat
    BY <1>1
  <2>2. IInv /\ PayOut(u, redeemed + (due - fee))
    BY <1>2 DEF SInv
  <2> QED
    BY <2>1, <2>2, PayingAtMost
<1>4. PICK moved \in Int : moved = -n /\ moved = SumIn(ot', User) - SumIn(ot, User)
  <2>1. SumIn(ot, User) \in Int
    BY SumTypes DEF SInv
  <2>2. -n \in Int
    OBVIOUS
  <2> QED
    BY <2>1, <2>2
<1>5. PICK b \in Nat : b = Quotient(RateBeforeExpiry)
  BY RateBeforeExpiryType, SumTypes DEF SInv
<1>6. Scale * given + InitialRate * b * moved <= Scale * (due - fee)
  <2>1. /\ Scale * (redeemed + (due - fee)) = Scale * redeemed + Scale * (due - fee)
        /\ InitialRate * b * (-n) = - (InitialRate * (n * b))
        /\ Scale * redeemed \in Int /\ Scale * (due - fee) \in Int /\ InitialRate * (n * b) \in Int
    OBVIOUS
  <2>2. Scale * redeemed <= InitialRate * (n * b)
    BY <1>5
  <2> QED
    BY <1>3, <1>4, <2>1, <2>2
<1>7. Scale * given + InitialRate * Quotient(RateBeforeExpiry) * moved <= Scale * (due - fee)
  BY <1>5, <1>6, Zenon
<1>8. {u} \in SUBSET User /\ {u} \in SUBSET {u}
  OBVIOUS
<1>9. \E w \in User : {u} = {w} /\ due = SettledDue(w)
  BY <1>1
<1>10. totalFee' = totalFee + fee
  BY <1>1
<1> QED
  BY <1>3, <1>4, <1>7, <1>8, <1>9, <1>10, CoveredAfterSettling

LEMMA RedeemUnderlyingCovered ==
    ASSUME SInv, IInv', NEW u \in User, NEW amount \in 1..ot[u], RedeemUnderlying(u, amount)
    PROVE  /\ Covered' >= Covered
           /\ SumIn(ot', User) = SumIn(ot, User) + (-amount)
           /\ SumIn(xyt', User) = SumIn(xyt, User) + (-amount)
<1>1. ot \in [User -> Int] /\ ot[u] \in Nat /\ rate \in Rate /\ now \in Nat
  BY DEF SInv, IInv, TypeOK
<1>2. xyt \in [User -> Int]
  BY DEF SInv, IInv, TypeOK
<1>3. amount \in Nat /\ -amount \in Int
  BY <1>1
<1>4. /\ ot' = [ot EXCEPT ![u] = @ - amount] /\ xyt' = [xyt EXCEPT ![u] = @ - amount]
      /\ UpdateDueInterests({u}, {u}) /\ totalFee' = totalFee + FeeOf(u)
      /\ PayOut(u, (amount * InitialRate) \div rate + NetInterest(u))
      /\ RateBeforeExpiry = rate
  BY <1>1 DEF RedeemUnderlying, RateBeforeExpiry
<1>5. SumIn(ot', User) = SumIn(ot, User) + (-amount)
  <2>1. ot' = [ot EXCEPT ![u] = @ + (-amount)]
    BY <1>1, <1>3, <1>4
  <2>2. ot \in [User -> Int] /\ -amount \in Int
    BY <1>1, <1>3
  <2> QED
    BY ONLY IsFiniteSet(User), u \in User, <2>1, <2>2, SumAdded, ZenonT(60)
<1>6. SumIn(xyt', User) = SumIn(xyt, User) + (-amount)
  <2>1. xyt' = [xyt EXCEPT ![u] = @ + (-amount)]
    BY <1>2, <1>3, <1>4
  <2>2. xyt \in [User -> Int] /\ -amount \in Int
    BY <1>2, <1>3
  <2> QED
    BY ONLY IsFiniteSet(User), u \in User, <2>1, <2>2, SumAdded, ZenonT(60)
<1>7. /\ (amount * InitialRate) \div rate \in Nat
      /\ Scale * ((amount * InitialRate) \div rate) <= InitialRate * (amount * Quotient(RateBeforeExpiry))
  BY <1>1, <1>3, <1>4, RedemptionCovered
<1>8. \A w \in User \ {u} : xyt'[w] = xyt[w]
  BY <1>2, <1>4
<1>9. Covered' >= Covered
  BY <1>3, <1>4, <1>5, <1>7, <1>8, RedemptionIsCovered
<1> QED
  BY <1>5, <1>6, <1>9

LEMMA RedeemAfterExpiryCovered ==
    ASSUME SInv, IInv', NEW u \in User, RedeemAfterExpiry(u)
    PROVE  /\ Covered' >= Covered
           /\ SumIn(ot', User) <= SumIn(ot, User)
<1>1. PICK n \in Nat : n = ot[u]
  BY DEF SInv, IInv, TypeOK
<1>2. ot \in [User -> Int] /\ xyt \in [User -> Nat] /\ now \in Nat
  BY DEF SInv, IInv, TypeOK
<1>3. lastRateBeforeExpiry \in Rate
  BY DEF RedeemAfterExpiry, SInv, IInv, TypeOK, RedeemableOT
<1>4. /\ ot' = [ot EXCEPT ![u] = 0] /\ UNCHANGED xyt
      /\ UpdateDueInterests({u}, {u}) /\ totalFee' = totalFee + FeeOf(u)
      /\ PayOut(u, (n * InitialRate) \div lastRateBeforeExpiry + NetInterest(u))
      /\ RateBeforeExpiry = lastRateBeforeExpiry
  BY <1>1, <1>2 DEF RedeemAfterExpiry, RateBeforeExpiry
<1>5. SumIn(ot', User) = SumIn(ot, User) + (-n)
  <2>1. ot' = [ot EXCEPT ![u] = @ + (-n)]
    <3>1. ot[u] + (-n) = 0
      BY <1>1
    <3> QED
      BY <1>4, <3>1, Zenon
  <2>2. ot \in [User -> Int] /\ -n \in Int
    BY <1>2
  <2> QED
    BY ONLY IsFiniteSet(User), u \in User, <2>1, <2>2, SumAdded, ZenonT(60)
<1>6. /\ (n * InitialRate) \div lastRateBeforeExpiry \in Nat
      /\ Scale * ((n * InitialRate) \div lastRateBeforeExpiry)
           <= InitialRate * (n * Quotient(RateBeforeExpiry))
  BY <1>3, <1>4, RedemptionCovered
<1>7. \A w \in User \ {u} : xyt'[w] = xyt[w]
  BY <1>4
<1>8. Covered' >= Covered
  BY <1>4, <1>5, <1>6, <1>7, RedemptionIsCovered
<1>9. SumIn(ot, User) \in Int
  BY SumTypes DEF SInv
<1> QED
  BY <1>5, <1>8, <1>9

LEMMA RedeemDueInterestsCovered ==
    ASSUME SInv, IInv', NEW u \in User, RedeemDueInterests(u)
    PROVE  Covered' >= Covered
<1>1. /\ UNCHANGED <<ot, xyt>>
      /\ UpdateDueInterests({u}, {u}) /\ totalFee' = totalFee + FeeOf(u)
      /\ PayOut(u, NetInterest(u))
  BY DEF RedeemDueInterests
<1>2. SumIn(ot', User) = SumIn(ot, User) + (-0)
  <2>1. SumIn(ot, User) \in Int
    BY SumTypes DEF SInv
  <2> QED
    BY <1>1, <2>1
<1>3. Quotient(RateBeforeExpiry) \in Nat /\ NetInterest(u) \in Nat
  BY RateBeforeExpiryType, SumTypes, SettledDueType DEF SInv
<1>4. Scale * 0 <= InitialRate * (0 * Quotient(RateBeforeExpiry)) /\ NetInterest(u) = 0 + NetInterest(u)
  BY <1>3
<1>5. PayOut(u, 0 + NetInterest(u)) /\ \A w \in User \ {u} : xyt'[w] = xyt[w]
  BY <1>1, <1>4
<1>6. 0 \in Nat
  OBVIOUS
<1> QED
  BY <1>1, <1>2, <1>4, <1>5, <1>6, RedemptionIsCovered

LEMMA TransferXytCovered ==
    ASSUME SInv, IInv', NEW from \in User, NEW to \in User, NEW amount \in 0..xyt[from],
           TransferXyt(from, to, amount)
    PROVE  /\ Covered' >= Covered
           /\ SumIn(xyt', User) = SumIn(xyt, User)
<1>1. xyt \in [User -> Int] /\ xyt[from] \in Nat
  BY DEF SInv, IInv, TypeOK
<1>2. /\ from # to /\ UpdateDueInterests({from, to}, {})
      /\ xyt' = [xyt EXCEPT ![from] = @ - amount, ![to] = @ + amount]
      /\ UNCHANGED <<held, ot, totalFee>>
  BY DEF TransferXyt
<1>3. SumIn(xyt', User) = SumIn(xyt, User)
  <2>1. amount \in Int
    BY <1>1
  <2>2. xyt \in [User -> Int]
    BY <1>1
  <2>3. from # to
    BY <1>2
  <2>4. xyt'[from] = xyt[from] - amount
    BY <1>1, <1>2
  <2>5. xyt'[to] = xyt[to] + amount
    BY <1>1, <1>2
  <2>6. \A w \in User \ {from, to} : xyt'[w] = xyt[w]
    BY <1>1, <1>2
  <2> QED
    BY ONLY IsFiniteSet(User), from \in User, to \in User,
            <2>1, <2>2, <2>3, <2>4, <2>5, <2>6, SumMoved, SMTT(60)
<1>4. \A w \in User \ {from, to} : xyt'[w] = xyt[w]
  BY <1>1, <1>2
<1>5. held \in Nat /\ totalFee \in Nat /\ SumIn(ot, User) \in Int /\ Quotient(RateBeforeExpiry) \in Nat
  BY SumTypes, RateBeforeExpiryType DEF SInv, IInv, TypeOK
<1>6. /\ totalFee' = totalFee + 0 /\ held' >= held - 0 /\ 0 = SumIn(ot', User) - SumIn(ot, User)
      /\ 0 \in Nat /\ 0 \in Int
      /\ Scale * 0 + InitialRate * Quotient(RateBeforeExpiry) * 0 <= Scale * (0 - 0)
  BY <1>2, <1>5
<1>7. {from, to} \in SUBSET User /\ {} \in SUBSET {from, to}
  OBVIOUS
<1>8. Covered' >= Covered
  BY <1>2, <1>4, <1>6, <1>7, CoveredAfterSettling
<1> QED
  BY <1>3, <1>8

(* OT that change hands are owed to somebody else.                         *)
LEMMA TransferOtCovered ==
    ASSUME SInv, IInv', NEW from \in User, NEW to \in User, NEW amount \in 0..ot[from],
           TransferOt(from, to, amount)
    PROVE  /\ Covered' >= Covered
           /\ SumIn(ot', User) = SumIn(ot, User)
<1>1. ot \in [User -> Int] /\ ot[from] \in Nat
  BY DEF SInv, IInv, TypeOK
<1>2. /\ from # to
      /\ ot' = [ot EXCEPT ![from] = @ - amount, ![to] = @ + amount]
      /\ UNCHANGED <<held, xyt, interestVars>>
  BY DEF TransferOt
<1>3. /\ amount \in Int /\ ot'[from] = ot[from] - amount /\ ot'[to] = ot[to] + amount
      /\ \A w \in User \ {from, to} : ot'[w] = ot[w]
  BY <1>1, <1>2
<1>4. SumIn(ot', User) = SumIn(ot, User)
  <2>1. ot \in [User -> Int]
    BY <1>1
  <2>2. from # to
    BY <1>2
  <2> QED
    BY ONLY IsFiniteSet(User), from \in User, to \in User, <1>3, <2>1, <2>2, SumMoved, SMTT(60)
<1>5. PICK r \in Rate \cup {0} : r = lastRateBeforeExpiry
  BY DEF SInv, IInv, TypeOK
<1>6. PICK n \in Int : n = InitialRate * (amount * Quotient(r))
  <2>1. PICK b \in Nat : b = Quotient(r)
    BY SumTypes DEF SInv
  <2>2. amount * b \in Int /\ InitialRate \in Int
    <3>1. amount \in Int
      BY <1>3, Zenon
    <3> QED
      BY <3>1
  <2>3. InitialRate * (amount * b) \in Int
    BY <2>2
  <2> QED
    BY <2>1, <2>3
<1>7. PICK was, is : was = OwedAt(r) /\ is = OwedAt(r)'
  OBVIOUS
<1>8. ASSUME NEW w \in User, NEW m \in Int, ot'[w] = ot[w] + m
      PROVE  is[w] = was[w] + InitialRate * (m * Quotient(r))
  <2>1. PICK d \in Nat, o \in Nat, x \in Nat, a \in Nat, b \in Nat :
           /\ d = dueInterests[w] /\ o = ot[w] /\ x = xyt[w]
           /\ a = Quotient(lastRate[w]) /\ b = Quotient(r)
    BY SumTypes DEF SInv
  <2>2. was[w] = Scale * d + InitialRate * (o * b + x * (a - b))
    BY <1>7, <2>1, Zenon DEF OwedAt
  <2>3. is[w] = Scale * d + InitialRate * ((o + m) * b + x * (a - b))
    BY <1>2, <1>7, <1>8, <2>1 DEF OwedAt, interestVars
  <2>4. Scale * d + InitialRate * ((o + m) * b + x * (a - b))
          = (Scale * d + InitialRate * (o * b + x * (a - b))) + InitialRate * (m * b)
    OBVIOUS
  <2> QED
    BY <2>1, <2>2, <2>3, <2>4, Zenon
<1>9. PICK b \in Nat : b = Quotient(r)
  BY SumTypes DEF SInv
<1>10. \A w \in User : was[w] \in Int
  BY <1>7, SumTypes DEF SInv
<1>11. is[from] = was[from] - n
  <2>1. ot'[from] = ot[from] + (-amount) /\ -amount \in Int
    BY <1>1, <1>3
  <2>2. is[from] = was[from] + InitialRate * ((-amount) * b)
    BY <1>8, <1>9, <2>1
  <2>3. InitialRate * ((-amount) * b) = - (InitialRate * (amount * b))
    <3>1. PICK a \in Int, k \in Int : a = amount /\ k = InitialRate
      <4>1. amount \in Int
        BY <1>3, Zenon
      <4>2. InitialRate \in Int
        OBVIOUS
      <4> QED
        BY <4>1, <4>2, Zenon
    <3>2. k * ((-a) * b) = - (k * (a * b))
      OBVIOUS
    <3> QED
      BY <3>1, <3>2, Zenon
  <2> QED
    BY <1>6, <1>9, <1>10, <2>2, <2>3
<1>12. is[to] = was[to] + n
  BY <1>3, <1>6, <1>8
<1>13. \A w \in User \ {from, to} : is[w] = was[w]
  <2>1. SUFFICES ASSUME NEW w \in User \ {from, to} PROVE is[w] = was[w]
    OBVIOUS
  <2>2. ot'[w] = ot[w] + 0 /\ 0 \in Int
    BY <1>1, <1>3
  <2>3. is[w] = was[w] + InitialRate * (0 * b)
    BY <1>8, <1>9, <2>2
  <2>4. was[w] + InitialRate * (0 * b) = was[w]
    <3>1. 0 * b = 0 /\ InitialRate * 0 = 0 /\ was[w] \in Int
      BY <1>10
    <3> QED
      BY <3>1
  <2> QED
    BY <2>3, <2>4
<1>14. SumIn(is, User) = SumIn(was, User)
  <2>1. from # to
    BY <1>2
  <2>2. is[from] \in Int
    BY <1>10, <1>11
  <2>3. is[to] \in Int
    BY <1>10, <1>12
  <2>4. SumIn(is, User) = SumIn(was, User) + (is[from] - was[from]) + (is[to] - was[to])
    BY ONLY IsFiniteSet(User), from \in User, to \in User,
            <1>10, <1>13, <2>1, <2>2, <2>3, SumChangeTwo
  <2>5. SumIn(was, User) \in Int
    BY <1>10, SumInt
  <2> QED
    BY <1>10, <1>11, <1>12, <2>4, <2>5
<1>15. Owed' = Owed
  <2>1. r = lastRateBeforeExpiry'
    BY <1>2, <1>5 DEF interestVars
  <2>2. OwedAt(lastRateBeforeExpiry)' = OwedAt(r)'
    BY <2>1 DEF OwedAt
  <2> QED
    BY <1>5, <1>7, <1>14, <2>2, Zenon DEF Owed
<1>16. Covered' = Covered /\ Covered \in Int
  <2>1. held' = held /\ totalFee' = totalFee
    BY <1>2 DEF interestVars
  <2>2. Owed \in Int /\ held \in Int /\ totalFee \in Int
    BY OwedType DEF SInv, IInv, TypeOK
  <2> QED
    BY <1>15, <2>1, <2>2 DEF Covered
<1> QED
  BY <1>4, <1>16

(* The fees leave the books as they are paid.                              *)
LEMMA WithdrawForgeFeeCovered ==
    ASSUME SInv, WithdrawForgeFee
    PROVE  Covered' >= Covered
<1>1. PICK h \in Nat, t \in Nat, o \in Int : h = held /\ t = totalFee /\ o = Owed
  BY OwedType DEF SInv, IInv, TypeOK
<1>2. PICK p \in Nat : p = Minimum(totalFee, held) /\ p <= t
  BY <1>1 DEF Minimum
<1>3. held' = h - p /\ totalFee' = 0 /\ Owed' = o
  BY <1>1, <1>2 DEF WithdrawForgeFee, Owed, OwedAt
<1>4. Scale * p <= Scale * t
  BY <1>2, CancelFactor
<1>5. Scale * (h - p) = Scale * h - Scale * p /\ Scale * 0 = 0
      /\ Scale * h \in Int /\ Scale * p \in Int /\ Scale * t \in Int
  OBVIOUS
<1>6. Scale * (h - p) - Scale * 0 - o >= Scale * h - Scale * t - o
  BY <1>4, <1>5
<1> QED
  BY <1>1, <1>3, <1>6, Zenon DEF Covered

(* Nothing happens to the books.                                           *)
LEMMA BooksAlone ==
    ASSUME IInv, UNCHANGED <<held, ot, xyt, interestVars>>
    PROVE  /\ Covered' >= Covered
           /\ SumIn(ot', User) = SumIn(ot, User) /\ SumIn(xyt', User) = SumIn(xyt, User)
<1>1. Owed' = Owed /\ held' = held /\ totalFee' = totalFee
  BY DEF Owed, OwedAt, interestVars
<1>2. Owed \in Int /\ held \in Int /\ totalFee \in Int
  BY OwedType DEF IInv, TypeOK
<1>3. Covered' = Covered /\ Covered \in Int
  BY <1>1, <1>2 DEF Covered
<1>4. ot' = ot /\ xyt' = xyt
  OBVIOUS
<1> QED
  BY <1>3, <1>4

-----------------------------------------------------------------------------
(* The rest of the invariant. *)
LEMMA RateKnownAfterSettling ==
    ASSUME SInv, NEW S \in SUBSET User, NEW paid \in SUBSET User, UpdateDueInterests(S, paid),
           \A w \in User \ S : xyt'[w] = xyt[w],
           now < Expiry \/ \E w \in User : xyt[w] > 0,
           NEW u \in User, xyt'[u] > 0
    PROVE  lastRate'[u] # 0
<1>1. lastRate' = [w \in User |-> IF w \in S THEN RateBeforeExpiry ELSE lastRate[w]]
  BY Zenon DEF UpdateDueInterests, RatesAfterSettling
<1>2. RateBeforeExpiry # 0
  <2>1. CASE now < Expiry
    <3>1. RateBeforeExpiry = rate /\ rate \in Rate
      BY <2>1, RateBeforeExpiryType DEF SInv, IInv, TypeOK
    <3> QED
      BY <3>1
  <2>2. ASSUME NEW w \in User, xyt[w] > 0 PROVE RateBeforeExpiry # 0
    <3>1. /\ lastRate[w] # 0 /\ lastRate[w] \in Nat /\ lastRate[w] <= RateBeforeExpiry
          /\ RateBeforeExpiry \in Nat
      BY <2>2, RateBeforeExpiryType DEF SInv
    <3> QED
      BY <3>1
  <2> QED
    BY <2>1, <2>2
<1>3. CASE u \in S
  BY <1>1, <1>2, <1>3
<1>4. CASE u \notin S
  <2>1. xyt[u] > 0
    BY <1>4
  <2> QED
    BY <1>1, <1>4, <2>1 DEF SInv
<1> QED
  BY <1>3, <1>4

LEMMA MatchingNow ==
    SInv => /\ now <= Expiry => SumIn(ot, User) = SumIn(xyt, User)
            /\ SumIn(ot, User) <= SumIn(xyt, User)
            /\ now \in Nat /\ SumIn(ot, User) \in Int /\ SumIn(xyt, User) \in Int
<1> SUFFICES ASSUME SInv
             PROVE /\ now <= Expiry => SumIn(ot, User) = SumIn(xyt, User)
                   /\ SumIn(ot, User) <= SumIn(xyt, User)
                   /\ now \in Nat /\ SumIn(ot, User) \in Int /\ SumIn(xyt, User) \in Int
  OBVIOUS
<1>1. now \in Nat /\ SumIn(ot, User) \in Int /\ SumIn(xyt, User) \in Int
  BY SumTypes DEF SInv, IInv, TypeOK
<1>2. SumOver(ot) = SumIn(ot, User) /\ SumOver(xyt) = SumIn(xyt, User)
  BY SumOverIsSum, Zenon
<1>3. OTMatchesXYT
  BY DEF SInv
<1> QED
  BY <1>1, <1>2, <1>3, Zenon DEF OTMatchesXYT

LEMMA MatchingNext ==
    ASSUME now' <= Expiry => SumIn(ot', User) = SumIn(xyt', User),
           SumIn(ot', User) <= SumIn(xyt', User)
    PROVE  OTMatchesXYT'
<1>1. PICK o, x : o = ot' /\ x = xyt'
  OBVIOUS
<1>2. SumOver(o) = SumIn(o, User) /\ SumOver(x) = SumIn(x, User)
  BY SumOverIsSum, Zenon
<1>3. SumOver(ot)' = SumIn(ot', User) /\ SumOver(xyt)' = SumIn(xyt', User)
  BY <1>1, <1>2, Zenon
<1> QED
  BY <1>3, Zenon DEF OTMatchesXYT

(* What every step does to the sums, and to what is covered. *)
Step ==
    /\ ~spenderApproved => Covered' >= Covered
    /\ now' <= Expiry => SumIn(ot', User) = SumIn(xyt', User)
    /\ SumIn(ot', User) <= SumIn(xyt', User)

LEMMA StepIsCovered == SInv /\ [Next]_vars => Step
<1> SUFFICES ASSUME SInv, [Next]_vars PROVE Step
  OBVIOUS
<1>0. IInv'
  BY NextHolds DEF SInv
<1>1. /\ now <= Expiry => SumIn(ot, User) = SumIn(xyt, User)
      /\ SumIn(ot, User) <= SumIn(xyt, User)
      /\ now \in Nat /\ SumIn(ot, User) \in Int /\ SumIn(xyt, User) \in Int
      /\ Expiry \in Nat
  BY MatchingNow
<1>2. ASSUME UNCHANGED <<held, ot, xyt, interestVars>>, now' \in Nat, now <= now' PROVE Step
  <2>1. Covered' >= Covered
    BY <1>2, BooksAlone DEF SInv
  <2>2. SumIn(ot', User) = SumIn(ot, User) /\ SumIn(xyt', User) = SumIn(xyt, User)
    BY <1>2
  <2>3. now' <= Expiry => now <= Expiry
    BY <1>1, <1>2
  <2> QED
    BY <1>1, <2>1, <2>2, <2>3 DEF Step
<1>3. CASE UNCHANGED vars
  BY <1>1, <1>2, <1>3 DEF vars, environmentVars, tokenVars
<1>4. ASSUME NEW u \in User, NEW to \in User, NEW amount \in 1..cToken[u], TokenizeYield(u, amount, to)
      PROVE  Step
  <2>1. /\ Covered' >= Covered
        /\ SumIn(ot', User) - SumIn(ot, User) = SumIn(xyt', User) - SumIn(xyt, User)
        /\ SumIn(ot', User) \in Int /\ SumIn(xyt', User) \in Int
    BY <1>0, <1>4, TokenizeYieldCovered
  <2>2. now' = now
    BY <1>4 DEF TokenizeYield, environmentVars
  <2> QED
    BY <1>1, <2>1, <2>2 DEF Step
<1>5. ASSUME NEW u \in User, NEW amount \in 1..ot[u], RedeemUnderlying(u, amount) PROVE Step
  <2>1. /\ Covered' >= Covered
        /\ SumIn(ot', User) = SumIn(ot, User) + (-amount)
        /\ SumIn(xyt', User) = SumIn(xyt, User) + (-amount)
    BY <1>0, <1>5, RedeemUnderlyingCovered
  <2>2. now' = now /\ amount \in Int
    BY <1>5 DEF RedeemUnderlying, environmentVars
  <2>3. SumIn(ot', User) <= SumIn(xyt', User)
    BY <1>1, <2>1, <2>2
  <2> QED
    BY <1>1, <2>1, <2>2, <2>3 DEF Step
<1>6. ASSUME NEW u \in User, RedeemAfterExpiry(u) PROVE Step
  <2>1. Covered' >= Covered /\ SumIn(ot', User) <= SumIn(ot, User)
    BY <1>0, <1>6, RedeemAfterExpiryCovered
  <2>2. now' = now /\ Expiry < now /\ xyt' = xyt
    BY <1>6 DEF RedeemAfterExpiry, environmentVars
  <2>3. SumIn(ot', User) \in Int
    <3>1. \A w \in User : ot'[w] \in Nat
      BY <1>0 DEF IInv, TypeOK
    <3>2. PICK o : o = ot'
      OBVIOUS
    <3> QED
      BY <3>1, <3>2, SumNat
  <2>4. SumIn(xyt', User) = SumIn(xyt, User)
    BY <2>2
  <2> QED
    BY <1>1, <2>1, <2>2, <2>3, <2>4 DEF Step
<1>7. ASSUME NEW u \in User, RedeemDueInterests(u) PROVE Step
  <2>1. Covered' >= Covered
    BY <1>0, <1>7, RedeemDueInterestsCovered
  <2>2. now' = now /\ ot' = ot /\ xyt' = xyt
    BY <1>7 DEF RedeemDueInterests, environmentVars
  <2> QED
    BY <1>1, <2>1, <2>2 DEF Step
<1>8. ASSUME NEW from \in User, NEW to \in User, NEW amount \in 0..xyt[from],
             TransferXyt(from, to, amount)
      PROVE  Step
  <2>1. Covered' >= Covered /\ SumIn(xyt', User) = SumIn(xyt, User)
    BY <1>0, <1>8, TransferXytCovered
  <2>2. now' = now /\ ot' = ot
    BY <1>8 DEF TransferXyt, environmentVars
  <2> QED
    BY <1>1, <2>1, <2>2 DEF Step
<1>9. ASSUME NEW from \in User, NEW to \in User, NEW amount \in 0..ot[from],
             TransferOt(from, to, amount)
      PROVE  Step
  <2>1. Covered' >= Covered /\ SumIn(ot', User) = SumIn(ot, User)
    BY <1>0, <1>9, TransferOtCovered
  <2>2. now' = now /\ xyt' = xyt
    BY <1>9 DEF TransferOt, environmentVars
  <2> QED
    BY <1>1, <2>1, <2>2 DEF Step
<1>10. CASE WithdrawForgeFee
  <2>1. Covered' >= Covered
    BY <1>10, WithdrawForgeFeeCovered
  <2>2. now' = now /\ ot' = ot /\ xyt' = xyt
    BY <1>10 DEF WithdrawForgeFee, environmentVars
  <2> QED
    BY <1>1, <2>1, <2>2 DEF Step
<1>11. ASSUME NEW u \in User, NEW amount \in 1..held, SpenderWithdraw(u, amount) PROVE Step
  <2>1. now' = now /\ ot' = ot /\ xyt' = xyt /\ spenderApproved
    BY <1>11 DEF SpenderWithdraw, environmentVars
  <2> QED
    BY <1>1, <2>1 DEF Step
<1>12. CASE \/ SetUpEmergencyMode
            \/ \E fee \in ForgeFee : SetForgeFee(fee)
            \/ \E new \in {"live", "paused", "locked"} : SetStatus(new)
            \/ \E new \in Rate : AccrueInterest(new)
            \/ Tick
  <2>1. UNCHANGED <<held, ot, xyt, interestVars>> /\ (now' = now \/ now' = now + 1)
    BY <1>12 DEF SetUpEmergencyMode, SetForgeFee, SetStatus, AccrueInterest, Tick, tokenVars
  <2> QED
    BY <1>1, <1>2, <2>1
<1> QED
  BY <1>3, <1>4, <1>5, <1>6, <1>7, <1>8, <1>9, <1>10, <1>11, <1>12 DEF Next

(* Whoever has XYT after a step was settled.                               *)
LEMMA RatesKnownStep ==
    ASSUME SInv, [Next]_vars, NEW u \in User, xyt'[u] > 0
    PROVE  lastRate'[u] # 0
<1>1. CASE UNCHANGED <<xyt, lastRate>>
  BY <1>1 DEF SInv
<1>2. ASSUME NEW v \in User, NEW to \in User, NEW amount \in 1..cToken[v], TokenizeYield(v, amount, to)
      PROVE  lastRate'[u] # 0
  <2>1. UpdateDueInterests({to}, {}) /\ now < Expiry /\ \A w \in User \ {to} : xyt'[w] = xyt[w]
    BY <1>2 DEF TokenizeYield, SInv, IInv, TypeOK
  <2> QED
    BY <2>1, RateKnownAfterSettling
<1>3. ASSUME NEW v \in User, UpdateDueInterests({v}, {v}),
             (\A w \in User \ {v} : xyt'[w] = xyt[w]),
             now < Expiry \/ xyt' = xyt
      PROVE  lastRate'[u] # 0
  <2>1. now < Expiry \/ \E w \in User : xyt[w] > 0
    BY <1>3
  <2> QED
    BY <1>3, <2>1, RateKnownAfterSettling
<1>4. ASSUME NEW from \in User, NEW to \in User, NEW amount \in 0..xyt[from],
             TransferXyt(from, to, amount)
      PROVE  lastRate'[u] # 0
  <2>1. /\ UpdateDueInterests({from, to}, {})
        /\ xyt' = [xyt EXCEPT ![from] = @ - amount, ![to] = @ + amount] /\ from # to
    BY <1>4 DEF TransferXyt
  <2>2. xyt \in [User -> Nat]
    BY DEF SInv, IInv, TypeOK
  <2>3. \A w \in User \ {from, to} : xyt'[w] = xyt[w]
    BY <2>1, <2>2
  <2>4. \E w \in User : xyt[w] > 0
    <3>1. SUFFICES ASSUME xyt[u] = 0, xyt[from] = 0 PROVE FALSE
      BY <2>2
    <3>2. amount = 0
      BY <3>1
    <3> QED
      BY <2>1, <2>2, <3>1, <3>2
  <2>5. {from, to} \in SUBSET User /\ {} \in SUBSET User
    OBVIOUS
  <2>6. UpdateDueInterests({from, to}, {})
    BY <2>1
  <2> QED
    BY <2>3, <2>4, <2>5, <2>6, RateKnownAfterSettling
<1>5. ASSUME NEW v \in User, NEW amount \in 1..ot[v], RedeemUnderlying(v, amount)
      PROVE  lastRate'[u] # 0
  <2>1. UpdateDueInterests({v}, {v}) /\ now < Expiry /\ \A w \in User \ {v} : xyt'[w] = xyt[w]
    BY <1>5 DEF RedeemUnderlying, SInv, IInv, TypeOK
  <2> QED
    BY <1>3, <2>1
<1>6. ASSUME NEW v \in User, RedeemAfterExpiry(v) \/ RedeemDueInterests(v)
      PROVE  lastRate'[u] # 0
  <2>1. UpdateDueInterests({v}, {v}) /\ xyt' = xyt
    BY <1>6 DEF RedeemAfterExpiry, RedeemDueInterests
  <2> QED
    BY <1>3, <2>1
<1>7. CASE \/ \E from, to \in User : \E amount \in 0..ot[from] : TransferOt(from, to, amount)
           \/ WithdrawForgeFee
           \/ \E v \in User : \E amount \in 1..held : SpenderWithdraw(v, amount)
           \/ SetUpEmergencyMode
           \/ \E fee \in ForgeFee : SetForgeFee(fee)
           \/ \E new \in {"live", "paused", "locked"} : SetStatus(new)
           \/ \E new \in Rate : AccrueInterest(new)
           \/ Tick
           \/ UNCHANGED vars
  <2>1. UNCHANGED <<xyt, lastRate>>
    BY <1>7 DEF TransferOt, WithdrawForgeFee, SpenderWithdraw, SetUpEmergencyMode, SetForgeFee,
                SetStatus, AccrueInterest, Tick, tokenVars, interestVars, vars
  <2> QED
    BY <1>1, <2>1
<1> QED
  BY <1>2, <1>4, <1>5, <1>6, <1>7 DEF Next

(* The allowance is given once the contract is locked, and a lock stays.   *)
LEMMA LockedStep ==
    ASSUME SInv, [Next]_vars
    PROVE  /\ spenderApproved' => status' = "locked"
           /\ spenderApproved => spenderApproved'
<1>1. spenderApproved => status = "locked"
  BY DEF SInv
<1>2. CASE SetUpEmergencyMode
  BY <1>1, <1>2, Zenon DEF SetUpEmergencyMode
<1>3. ASSUME NEW new \in {"live", "paused", "locked"}, SetStatus(new)
      PROVE  (spenderApproved' => status' = "locked") /\ (spenderApproved => spenderApproved')
  BY <1>1, <1>3 DEF SetStatus
<1>4. CASE UNCHANGED <<status, spenderApproved>>
  BY <1>1, <1>4
<1>5. CASE \/ SetUpEmergencyMode
           \/ \E new \in {"live", "paused", "locked"} : SetStatus(new)
           \/ UNCHANGED <<status, spenderApproved>>
  BY <1>2, <1>3, <1>4, <1>5
<1> QED
  BY <1>5 DEF Next, TokenizeYield, RedeemUnderlying, RedeemAfterExpiry, RedeemDueInterests,
              TransferXyt, TransferOt, WithdrawForgeFee, SpenderWithdraw, SetForgeFee,
              AccrueInterest, Tick, environmentVars, vars

LEMMA InitIsMatched == Init => SInv
<1> SUFFICES ASSUME Init PROVE SInv
  OBVIOUS
<1>1. IInv
  BY InitHolds
<1>2. \A u \in User : ~(xyt[u] > 0)
  BY DEF Init
<1>3. spenderApproved => status = "locked"
  BY Zenon DEF Init
<1>4. OTMatchesXYT
  <2>1. (\A u \in User : ot[u] = 0) /\ \A u \in User : xyt[u] = 0
    BY DEF Init
  <2>2. SumIn(ot, User) = 0 /\ SumIn(xyt, User) = 0
    BY <2>1, SumZero
  <2>3. SumOver(ot) = SumIn(ot, User) /\ SumOver(xyt) = SumIn(xyt, User)
    BY SumOverIsSum, Zenon
  <2> QED
    BY <2>2, <2>3 DEF OTMatchesXYT
<1> QED
  BY <1>1, <1>2, <1>3, <1>4 DEF SInv

LEMMA MatchedStep == SInv /\ [Next]_vars => SInv'
<1> SUFFICES ASSUME SInv, [Next]_vars PROVE SInv'
  OBVIOUS
<1>1. IInv'
  BY NextHolds DEF SInv
<1>2. \A u \in User : xyt'[u] > 0 => lastRate'[u] # 0
  BY RatesKnownStep
<1>3. spenderApproved' => status' = "locked"
  BY LockedStep
<1>4. OTMatchesXYT'
  BY StepIsCovered, MatchingNext DEF Step
<1> QED
  BY <1>1, <1>2, <1>3, <1>4, Zenon DEF SInv

THEOREM BooksMatch == Spec => []SInv
BY InitIsMatched, MatchedStep, PTL DEF Spec

-----------------------------------------------------------------------------
(* No transaction, of whatever user in whatever order, before or after the *)
(* expiry, gives out more than it takes off the books.                     *)
THEOREM SurplusKept == Spec => SurplusNeverFalls
<1>1. SInv /\ SInv' /\ [Next]_vars => [~spenderApproved => Surplus' >= Surplus]_vars
  <2> SUFFICES ASSUME SInv, SInv', [Next]_vars, ~spenderApproved
               PROVE  Surplus' >= Surplus
    OBVIOUS
  <2>1. Surplus = Covered
    BY SurplusIsCovered
  <2>2. (SInv => Surplus = Covered)'
    BY SurplusIsCovered, PTL
  <2>3. Surplus' = Covered'
    BY <2>2
  <2>4. Covered' >= Covered
    BY StepIsCovered DEF Step
  <2> QED
    BY <2>1, <2>3, <2>4
<1> QED
  BY <1>1, BooksMatch, PTL DEF Spec, SurplusNeverFalls

(* What is owed is covered until emergency takes the funds away. *)
CoveredNow == spenderApproved \/ Covered >= 0

LEMMA CoveredType == SInv => Covered \in Int
<1> SUFFICES ASSUME SInv PROVE Covered \in Int
  OBVIOUS
<1>1. PICK h \in Nat, t \in Nat, o \in Int : h = held /\ t = totalFee /\ o = Owed
  BY OwedType DEF SInv, IInv, TypeOK
<1>2. Scale * h - Scale * t - o \in Int
  OBVIOUS
<1> QED
  BY <1>1, <1>2 DEF Covered

LEMMA CoveredAlways == Spec => [](SInv /\ CoveredNow)
<1>1. Init => SInv /\ CoveredNow
  <2> SUFFICES ASSUME Init PROVE Covered >= 0
    BY InitIsMatched DEF CoveredNow
  <2>1. SInv
    BY InitIsMatched
  <2>2. /\ held = 0 /\ totalFee = 0 /\ lastRateBeforeExpiry = 0
        /\ \A u \in User : ot[u] = 0 /\ xyt[u] = 0 /\ dueInterests[u] = 0 /\ lastRate[u] = 0
    BY DEF Init
  <2>3. \A u \in User : OwedAt(lastRateBeforeExpiry)[u] = 0
    <3>1. SUFFICES ASSUME NEW u \in User PROVE OwedAt(lastRateBeforeExpiry)[u] = 0
      OBVIOUS
    <3>2. OwedAt(lastRateBeforeExpiry)[u] = Scale * 0 + InitialRate * (0 * 0 + 0 * (0 - 0))
      BY <2>2, QuotientDef DEF OwedAt
    <3>3. Scale * 0 + InitialRate * (0 * 0 + 0 * (0 - 0)) = 0
      OBVIOUS
    <3> QED
      BY <3>2, <3>3
  <2>4. Owed = 0
    BY <2>3, SumZero DEF Owed
  <2>5. Scale * 0 - Scale * 0 - 0 = 0
    OBVIOUS
  <2> QED
    BY <2>2, <2>4, <2>5 DEF Covered
<1>2. SInv /\ CoveredNow /\ [Next]_vars => SInv' /\ CoveredNow'
  <2> SUFFICES ASSUME SInv, CoveredNow, [Next]_vars PROVE SInv' /\ CoveredNow'
    OBVIOUS
  <2>1. SInv'
    BY MatchedStep
  <2>2. CASE spenderApproved
    <3>1. spenderApproved'
      BY <2>2, LockedStep
    <3> QED
      BY <2>1, <3>1, Zenon DEF CoveredNow
  <2>3. CASE ~spenderApproved
    <3>1. Covered' >= Covered /\ Covered >= 0
      BY <2>3, StepIsCovered DEF Step, CoveredNow
    <3>2. Covered \in Int /\ Covered' \in Int
      <4>1. (SInv => Covered \in Int)'
        BY CoveredType, PTL
      <4> QED
        BY <2>1, <4>1, CoveredType
    <3>3. Covered' >= 0
      BY <3>1, <3>2
    <3> QED
      BY <2>1, <3>3, Zenon DEF CoveredNow
  <2> QED
    BY <2>2, <2>3
<1> QED
  BY <1>1, <1>2, PTL DEF Spec

(* OT and XYT match, and the holder covers every OT, every XYT, every      *)
(* settled interest and the fees, as long as emergency takes nothing: for  *)
(* any number of users, any rates and any sequence of transactions.        *)
THEOREM AlwaysSolvent == Spec => []Solvent
<1>1. SInv /\ CoveredNow => Solvent
  <2> SUFFICES ASSUME SInv, CoveredNow PROVE Solvent
    OBVIOUS
  <2>1. Surplus = Covered /\ OTMatchesXYT
    BY SurplusIsCovered DEF SInv
  <2> QED
    BY <2>1, Zenon DEF Solvent, CoveredNow
<1> QED
  BY <1>1, CoveredAlways, PTL

-----------------------------------------------------------------------------
(* What the holder has covers the interest of any one user in full.        *)
LEMMA InterestInFull ==
    ASSUME SInv, CoveredNow, NotPaused, NEW u \in User
    PROVE  held >= SettledDue(u)
<1>1. PICK r \in Rate \cup {0} : r = RateBeforeExpiry
  BY RateBeforeExpiryType DEF SInv
<1>2. PICK h \in Nat, t \in Nat, due \in Nat : h = held /\ t = totalFee /\ due = SettledDue(u)
  BY SettledDueType DEF SInv, IInv, TypeOK
<1>3. PICK was : was = OwedAt(r)
  OBVIOUS
<1>4. ASSUME NEW w \in User PROVE was[w] \in Nat /\ Scale * SettledDue(w) <= was[w]
  <2>1. PICK d \in Nat, o \in Nat, b \in Nat :
           d = SettledDue(w) /\ o = ot[w] /\ b = Quotient(r)
    BY SettledDueType, SumTypes DEF SInv
  <2>2. PICK k \in Nat : k = InitialRate
    OBVIOUS
  <2>3. Scale * d + k * (o * b) <= was[w]
    BY <1>1, <1>3, <2>1, <2>2, SettledIsOwed
  <2>4. was[w] \in Int
    BY <1>3, SumTypes DEF SInv
  <2>5. Scale * d \in Nat /\ k * (o * b) \in Nat
    <3>1. Scale \in Nat
      OBVIOUS
    <3>2. o * b \in Nat
      BY NatTimes
    <3> QED
      BY <3>1, <3>2, NatTimes
  <2>6. was[w] \in Nat /\ Scale * d <= was[w]
    BY <2>3, <2>4, <2>5
  <2> QED
    BY <2>1, <2>6
<1>5. PICK all \in Nat : all = SumIn(was, User) /\ was[u] <= all
  BY <1>4, SumNat
<1>6. Owed = all
  BY <1>1, <1>3, <1>5, OwedBeforeExpiry, Zenon DEF Owed
<1>7. ~spenderApproved
  BY DEF SInv, NotPaused
<1>8. Covered >= 0
  BY <1>7, Zenon DEF CoveredNow
<1>9. Scale * h - Scale * t - all >= 0
  BY <1>2, <1>6, <1>8 DEF Covered
<1>10. Scale * due <= was[u] /\ was[u] \in Nat
  BY <1>2, <1>4
<1>11. Scale * t \in Nat
  <2>1. Scale \in Nat
    OBVIOUS
  <2> QED
    BY <2>1, NatTimes
<1>12. Scale * due <= Scale * h
  <2>1. Scale * h \in Int /\ Scale * due \in Int
    OBVIOUS
  <2> QED
    BY <1>5, <1>9, <1>10, <1>11, <2>1
<1>13. due <= h
  BY <1>12, CancelFactor
<1> QED
  BY <1>2, <1>13

(* A settlement keeps what a user is entitled to, unless it pays it out.   *)
LEMMA SettlingKeeps ==
    ASSUME IInv, NEW S \in SUBSET User, NEW paid \in SUBSET S, UpdateDueInterests(S, paid),
           UNCHANGED <<rate, now>>, NEW u \in User, u \notin paid, u \notin S => xyt'[u] = xyt[u]
    PROVE  Entitlement(u)' >= Entitlement(u)
<1>1. lastRateBeforeExpiry' = RateBeforeExpiry
  BY DEF UpdateDueInterests
<1>2. RateBeforeExpiry' = RateBeforeExpiry
  BY <1>1 DEF RateBeforeExpiry
<1>3. SettledDue(u) \in Nat
  BY SettledDueType
<1>4. CASE u \in S
  <2>1. lastRate'[u] = RateBeforeExpiry'
    BY <1>2, <1>4 DEF UpdateDueInterests, RatesAfterSettling
  <2>2. u \in S \ paid
    BY <1>4
  <2>3. dueInterests' = DuesAfterSettling(S, paid)
    BY DEF UpdateDueInterests
  <2>4. dueInterests'[u] = SettledDue(u)
    BY <2>2, <2>3, Zenon DEF DuesAfterSettling
  <2>5. SettledDue(u)' = dueInterests'[u] + 0
    BY <2>1 DEF SettledDue, InterestFromXyt
  <2> QED
    BY <1>3, <2>4, <2>5 DEF Entitlement
<1>5. CASE u \notin S
  <2>1. lastRate'[u] = lastRate[u] /\ xyt'[u] = xyt[u]
    BY <1>5 DEF UpdateDueInterests, RatesAfterSettling
  <2>2. dueInterests'[u] = dueInterests[u]
    BY <1>5, Zenon DEF UpdateDueInterests, DuesAfterSettling
  <2>3. SettledDue(u)' = SettledDue(u)
    BY <1>2, <2>1, <2>2 DEF SettledDue, InterestFromXyt
  <2> QED
    BY <1>3, <2>3 DEF Entitlement
<1> QED
  BY <1>4, <1>5

(* Nobody's entitlement changes when his books stay.                       *)
LEMMA BooksAloneKeep ==
    ASSUME IInv, NEW u \in User,
           UNCHANGED <<rate, now, xyt, lastRate, lastRateBeforeExpiry, dueInterests>>
    PROVE  Entitlement(u)' >= Entitlement(u)
<1>1. RateBeforeExpiry' = RateBeforeExpiry
  BY DEF RateBeforeExpiry
<1>2. SettledDue(u)' = SettledDue(u)
  BY <1>1 DEF SettledDue, InterestFromXyt
<1> QED
  BY <1>2, SettledDueType DEF Entitlement

(* A redemption pays the interest in full, less the fee.                   *)
LEMMA PaidInFull ==
    ASSUME SInv, CoveredNow, NotPaused, NEW u \in User, NEW redeemed \in Nat,
           PayOut(u, redeemed + NetInterest(u)), totalFee' = totalFee + FeeOf(u)
    PROVE  (cToken'[u] - cToken[u]) + (totalFee' - totalFee) >= Entitlement(u)
<1>1. PICK due \in Nat, fee \in Nat, h \in Nat, c \in Nat, t \in Nat :
         /\ due = SettledDue(u) /\ fee = FeeOf(u) /\ h = held /\ c = cToken[u] /\ t = totalFee
         /\ due - fee \in Nat
  BY SettledDueType DEF SInv, IInv, TypeOK, NetInterest
<1>2. h >= due
  BY <1>1, InterestInFull
<1>3. PICK p \in Nat : p = Minimum(redeemed + (due - fee), h) /\ p >= due - fee
  BY <1>1, <1>2 DEF Minimum
<1>4. cToken'[u] = c + p
  <2>1. p = Minimum(redeemed + NetInterest(u), held)
    BY <1>1, <1>3, Zenon DEF NetInterest
  <2>2. cToken' = [cToken EXCEPT ![u] = @ + p] /\ cToken \in [User -> Nat]
    BY <2>1 DEF PayOut, SInv, IInv, TypeOK
  <2> QED
    BY <1>1, <2>2
<1>5. totalFee' = t + fee
  BY <1>1
<1>6. ((c + p) - c) + ((t + fee) - t) >= due
  BY <1>1, <1>3
<1> QED
  BY <1>1, <1>4, <1>5, <1>6, Zenon DEF Entitlement

Kept(u) ==
    \/ Entitlement(u)' >= Entitlement(u)
    \/ (cToken'[u] - cToken[u]) + (totalFee' - totalFee) >= Entitlement(u)

LEMMA RedemptionKeeps ==
    ASSUME SInv, CoveredNow, NotPaused, UNCHANGED <<rate, now>>,
           NEW v \in User, UpdateDueInterests({v}, {v}), totalFee' = totalFee + FeeOf(v),
           \A w \in User \ {v} : xyt'[w] = xyt[w],
           NEW redeemed \in Nat, PayOut(v, redeemed + NetInterest(v)),
           NEW u \in User
    PROVE  Kept(u)
<1>1. CASE u = v
  BY <1>1, PaidInFull DEF Kept
<1>2. CASE u # v
  <2>1. {v} \in SUBSET User /\ {v} \in SUBSET {v} /\ u \notin {v} /\ xyt'[u] = xyt[u] /\ IInv
    BY <1>2 DEF SInv
  <2> QED
    BY <2>1, SettlingKeeps DEF Kept
<1> QED
  BY <1>1, <1>2

(* While the rate and the clock stand still, the interest a user is        *)
(* entitled to falls only by being paid to him, in full: no transfer, mint *)
(* or redemption of anybody forfeits it.                                   *)
THEOREM InterestKept == Spec => InterestIsKept
<1> DEFINE K == UNCHANGED <<rate, now>> => \A u \in User : Kept(u)
<1>1. ASSUME SInv, CoveredNow, Next PROVE K
  <2> SUFFICES ASSUME UNCHANGED <<rate, now>>, NEW u \in User PROVE Kept(u)
    OBVIOUS
  <2>0. SInv /\ CoveredNow /\ IInv /\ xyt \in [User -> Nat] /\ ot \in [User -> Nat] /\ rate \in Rate
    BY <1>1 DEF SInv, IInv, TypeOK
  <2>1. ASSUME NEW v \in User, NEW to \in User, NEW amount \in 1..cToken[v],
               TokenizeYield(v, amount, to)
        PROVE  Kept(u)
    <3>1. UpdateDueInterests({to}, {}) /\ {to} \in SUBSET User /\ {} \in SUBSET {to}
      BY <2>1 DEF TokenizeYield
    <3>2. u \notin {} /\ (u \notin {to} => xyt'[u] = xyt[u])
      BY <2>0, <2>1 DEF TokenizeYield
    <3> QED
      BY <2>0, <3>1, <3>2, SettlingKeeps DEF Kept
  <2>2. ASSUME NEW v \in User, NEW amount \in 1..ot[v], RedeemUnderlying(v, amount)
        PROVE  Kept(u)
    <3>1. /\ NotPaused /\ UpdateDueInterests({v}, {v}) /\ totalFee' = totalFee + FeeOf(v)
          /\ PayOut(v, (amount * InitialRate) \div rate + NetInterest(v))
      BY <2>2 DEF RedeemUnderlying
    <3>2. \A w \in User \ {v} : xyt'[w] = xyt[w]
      BY <2>0, <2>2 DEF RedeemUnderlying
    <3>3. (amount * InitialRate) \div rate \in Nat
      <4>1. amount \in Nat
        BY <2>0
      <4> QED
        BY <2>0, <4>1, RedemptionCovered
    <3> QED
      BY <2>0, <3>1, <3>2, <3>3, RedemptionKeeps
  <2>3. ASSUME NEW v \in User, RedeemAfterExpiry(v) PROVE Kept(u)
    <3>1. /\ NotPaused /\ UpdateDueInterests({v}, {v}) /\ totalFee' = totalFee + FeeOf(v)
          /\ PayOut(v, (ot[v] * InitialRate) \div lastRateBeforeExpiry + NetInterest(v))
          /\ \A w \in User \ {v} : xyt'[w] = xyt[w]
      BY <2>3 DEF RedeemAfterExpiry
    <3>2. (ot[v] * InitialRate) \div lastRateBeforeExpiry \in Nat
      <4>1. lastRateBeforeExpiry \in Rate
        BY <2>0, <2>3 DEF RedeemAfterExpiry, IInv, TypeOK, RedeemableOT
      <4>2. ot[v] \in Nat
        BY <2>0
      <4> QED
        BY <4>1, <4>2, RedemptionCovered
    <3> QED
      BY <2>0, <3>1, <3>2, RedemptionKeeps
  <2>4. ASSUME NEW v \in User, RedeemDueInterests(v) PROVE Kept(u)
    <3>1. /\ NotPaused /\ UpdateDueInterests({v}, {v}) /\ totalFee' = totalFee + FeeOf(v)
          /\ PayOut(v, NetInterest(v)) /\ \A w \in User \ {v} : xyt'[w] = xyt[w]
      BY <2>4 DEF RedeemDueInterests
    <3>2. NetInterest(v) = 0 + NetInterest(v)
      BY <2>0, SettledDueType
    <3>3. PayOut(v, 0 + NetInterest(v)) /\ 0 \in Nat
      BY <3>1, <3>2
    <3> QED
      BY <2>0, <3>1, <3>3, RedemptionKeeps
  <2>5. ASSUME NEW from \in User, NEW to \in User, NEW amount \in 0..xyt[from],
               TransferXyt(from, to, amount)
        PROVE  Kept(u)
    <3>1. UpdateDueInterests({from, to}, {}) /\ {from, to} \in SUBSET User /\ {} \in SUBSET {from, to}
      BY <2>5 DEF TransferXyt
    <3>2. u \notin {} /\ (u \notin {from, to} => xyt'[u] = xyt[u])
      BY <2>0, <2>5 DEF TransferXyt
    <3> QED
      BY <2>0, <3>1, <3>2, SettlingKeeps DEF Kept
  <2>6. ASSUME UNCHANGED <<xyt, lastRate, lastRateBeforeExpiry, dueInterests>> PROVE Kept(u)
    BY <2>0, <2>6, BooksAloneKeep DEF Kept
  <2>7. CASE \/ \E from, to \in User : \E amount \in 0..ot[from] : TransferOt(from, to, amount)
             \/ WithdrawForgeFee
             \/ \E v \in User : \E amount \in 1..held : SpenderWithdraw(v, amount)
             \/ SetUpEmergencyMode
             \/ \E fee \in ForgeFee : SetForgeFee(fee)
             \/ \E new \in {"live", "paused", "locked"} : SetStatus(new)
             \/ \E new \in Rate : AccrueInterest(new)
             \/ Tick
    <3>1. UNCHANGED <<xyt, lastRate, lastRateBeforeExpiry, dueInterests>>
      BY <2>7 DEF TransferOt, WithdrawForgeFee, SpenderWithdraw, SetUpEmergencyMode, SetForgeFee,
                  SetStatus, AccrueInterest, Tick, tokenVars, interestVars
    <3> QED
      BY <2>6, <3>1
  <2> QED
    BY <1>1, <2>1, <2>2, <2>3, <2>4, <2>5, <2>7 DEF Next
<1>2. SInv /\ CoveredNow /\ [Next]_vars => [K]_vars
  BY <1>1
<1> QED
  BY <1>2, CoveredAlways, PTL DEF Spec, InterestIsKept, Kept
=============================================================================
