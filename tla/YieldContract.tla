--------------------------- MODULE YieldContract ---------------------------
(***************************************************************************)
(* One yield contract of the Compound forge: the OT and XYT of one         *)
(* (underlyingAsset, expiry), the holder of the deposited cTokens, and the *)
(* interest accounting of contracts/core/abstract/PendleForgeBase.sol with *)
(* contracts/core/compound/PendleCompoundForge.sol.  Users reach it        *)
(* through PendleRouter, whose guards are part of the actions.             *)
(*                                                                         *)
(* The balance of a cToken never grows; the exchange rate of the cToken    *)
(* does.  OT and XYT count the underlying asset at the initial rate, and   *)
(* the forge pays in cTokens, rounding every division down.                *)
(*                                                                         *)
(* A transaction is one step, a require is a guard.  The rewards that a    *)
(* change of OT settles are the business of RewardManager.  A definition   *)
(* marked "Mistake" is a wrong variant of the one after it, and not part   *)
(* of the specification.                                                   *)
(***************************************************************************)
EXTENDS Integers, FiniteSetsExt

CONSTANTS
    User,
    Rate,          \* exchange rates the cToken can have
    InitialRate,   \* initialRate of the underlying asset
    RONE,          \* one, as a fixed-point number
    ForgeFee,      \* fees governance chooses from, as fixed-point numbers
    Savings,       \* cTokens of each user at the start
    Expiry,
    MaxTime,       \* bound on block.timestamp
    Scale          \* a common multiple of the rates, see Obligations

ASSUME UserAssumption == IsFiniteSet(User)
ASSUME RateAssumption == Rate \subseteq Nat \ {0} /\ InitialRate \in Rate
ASSUME FeeAssumption == RONE \in Nat \ {0} /\ ForgeFee \subseteq 0..RONE
ASSUME NumberAssumption ==
    Savings \in Nat /\ Expiry \in Nat /\ MaxTime \in Nat /\ Scale \in Nat \ {0}
ASSUME ScaleAssumption == \A r \in Rate : Scale % r = 0

VARIABLES
    now,                  \* block.timestamp
    rate,                 \* exchangeRateCurrent() of the cToken
    status,               \* what the pausing manager says of this contract
    forgeFee,             \* data.forgeFee()
    cToken,               \* cToken balances of the users
    held,                 \* cToken balance of the yieldTokenHolder
    treasury,             \* cToken balance of the treasury
    ot, xyt,              \* balances of the two tokens
    lastRate,             \* rate at which a user's interest was settled last
    lastRateBeforeExpiry,
    dueInterests,
    totalFee,
    spenderApproved       \* the emergency handler may spend the holder's tokens

tokenVars == <<cToken, held, treasury, ot, xyt>>
interestVars == <<lastRate, lastRateBeforeExpiry, dueInterests, totalFee>>
environmentVars == <<now, rate, status, forgeFee, spenderApproved>>
vars == <<environmentVars, tokenVars, interestVars>>

Minimum(a, b) == IF a < b THEN a ELSE b

(* Math.rmul: rounds to the nearest. *)
rmul(x, y) == (RONE \div 2 + x * y) \div RONE

SumOver(f) == MapThenSumSet(LAMBDA u : f[u], User)

Init ==
    /\ now = 0
    /\ rate \in {r \in Rate : r >= InitialRate}
    /\ status = "live"
    /\ forgeFee \in ForgeFee
    /\ cToken = [u \in User |-> Savings]
    /\ held = 0
    /\ treasury = 0
    /\ ot = [u \in User |-> 0]
    /\ xyt = [u \in User |-> 0]
    /\ lastRate = [u \in User |-> 0]
    /\ lastRateBeforeExpiry = 0
    /\ dueInterests = [u \in User |-> 0]
    /\ totalFee = 0
    /\ spenderApproved = FALSE

(***************************************************************************)
(* Interest.                                                               *)
(***************************************************************************)
NotPaused == status = "live"

(* Mistake: the rate is frozen only when somebody redeems OT. *)
RateBeforeExpiryLate == rate

(* getExchangeRateBeforeExpiry: the current rate up to the expiry, then    *)
(* the last one that was seen.                                             *)
RateBeforeExpiry == IF now > Expiry THEN lastRateBeforeExpiry ELSE rate

(* The interest, in cTokens, of that much XYT while the rate moved. *)
InterestFromXyt(principal, prevRate, currentRate) ==
    IF prevRate = 0 \/ prevRate = currentRate THEN 0
    ELSE (((principal * currentRate) \div prevRate - principal) * InitialRate) \div currentRate

(* dueInterests of a user settled up to now. *)
SettledDue(u) == dueInterests[u] + InterestFromXyt(xyt[u], lastRate[u], RateBeforeExpiry)

(* SafeMath: a settlement whose rate fell below the last one reverts. *)
CanSettle(u) == lastRate[u] = 0 \/ RateBeforeExpiry >= lastRate[u]

(* Mistake: a settlement that yields nothing leaves the rate alone. *)
RatesAfterYield(S) == [u \in User |->
    IF u \in S /\ (lastRate[u] = 0 \/ SettledDue(u) > dueInterests[u]) THEN RateBeforeExpiry ELSE lastRate[u]]

RatesAfterSettling(S) == [u \in User |-> IF u \in S THEN RateBeforeExpiry ELSE lastRate[u]]

DuesAfterSettling(S, paid) == [u \in User |->
    CASE u \in paid -> 0
      [] u \in S \ paid -> SettledDue(u)
      [] OTHER -> dueInterests[u]]

(* Mistake: the rate before the expiry is stored once. *)
UpdateDueInterestsFirstRate(S, paid) ==
    /\ \A u \in S : CanSettle(u)
    /\ lastRate' = RatesAfterSettling(S)
    /\ lastRateBeforeExpiry' = IF lastRateBeforeExpiry = 0 THEN RateBeforeExpiry ELSE lastRateBeforeExpiry
    /\ dueInterests' = DuesAfterSettling(S, paid)

(* _updateDueInterests for every user of S, before their XYT changes.      *)
(* paid is the set of those whose due interest is then paid out.           *)
UpdateDueInterests(S, paid) ==
    /\ \A u \in S : CanSettle(u)
    /\ lastRate' = RatesAfterSettling(S)
    /\ lastRateBeforeExpiry' = RateBeforeExpiry
    /\ dueInterests' = DuesAfterSettling(S, paid)

(* _beforeTransferDueInterests: the fee on what a user is paid. *)
FeeOf(u) == rmul(SettledDue(u), forgeFee)

(* Mistake: the fee is collected but stays part of the payout. *)
FeeOnTop(u) == SettledDue(u)

(* The due interest of u leaves the ledger as a fee and a payout. *)
NetInterest(u) == SettledDue(u) - FeeOf(u)

(* _safeTransfer: pays at most what the holder has. *)
PayOut(u, amount) ==
    LET paid == Minimum(amount, held)
    IN  /\ held' = held - paid
        /\ cToken' = [cToken EXCEPT ![u] = @ + paid]
        /\ UNCHANGED treasury

(***************************************************************************)
(* Operations, through the router.                                         *)
(***************************************************************************)
TokenizeYield(u, amount, to) ==
    /\ now < Expiry
    /\ amount # 0 /\ amount <= cToken[u]
    /\ NotPaused
    /\ LET minted == (amount * rate) \div InitialRate
       IN  /\ ot' = [ot EXCEPT ![to] = @ + minted]
           /\ xyt' = [xyt EXCEPT ![to] = @ + minted]
    /\ UpdateDueInterests({to}, {})
    /\ held' = held + amount
    /\ cToken' = [cToken EXCEPT ![u] = @ - amount]
    /\ UNCHANGED <<environmentVars, treasury, totalFee>>

(* Mistake: burns XYT the caller does not have. *)
RedeemUnderlyingWithoutXyt(u, amount) ==
    /\ now < Expiry
    /\ amount # 0 /\ amount <= ot[u]
    /\ NotPaused
    /\ ot' = [ot EXCEPT ![u] = @ - amount]
    /\ xyt' = [xyt EXCEPT ![u] = @ - amount]
    /\ UpdateDueInterests({u}, {u})
    /\ totalFee' = totalFee + FeeOf(u)
    /\ PayOut(u, (amount * InitialRate) \div rate + NetInterest(u))
    /\ UNCHANGED environmentVars

(* Mistake: burns the OT alone. *)
RedeemUnderlyingKeepsXyt(u, amount) ==
    /\ now < Expiry
    /\ amount # 0 /\ amount <= ot[u] /\ amount <= xyt[u]
    /\ NotPaused
    /\ ot' = [ot EXCEPT ![u] = @ - amount]
    /\ UpdateDueInterests({u}, {u})
    /\ totalFee' = totalFee + FeeOf(u)
    /\ PayOut(u, (amount * InitialRate) \div rate + NetInterest(u))
    /\ UNCHANGED <<environmentVars, xyt>>

RedeemUnderlying(u, amount) ==
    /\ now < Expiry
    /\ amount # 0 /\ amount <= ot[u] /\ amount <= xyt[u]
    /\ NotPaused
    /\ ot' = [ot EXCEPT ![u] = @ - amount]
    /\ xyt' = [xyt EXCEPT ![u] = @ - amount]
    /\ UpdateDueInterests({u}, {u})
    /\ totalFee' = totalFee + FeeOf(u)
    /\ PayOut(u, (amount * InitialRate) \div rate + NetInterest(u))
    /\ UNCHANGED environmentVars

(* All the OT of the caller; his XYT stays, and is settled. *)
RedeemAfterExpiry(u) ==
    /\ Expiry < now
    /\ NotPaused
    /\ ot[u] > 0
    /\ ot' = [ot EXCEPT ![u] = 0]
    /\ UpdateDueInterests({u}, {u})
    /\ totalFee' = totalFee + FeeOf(u)
    /\ PayOut(u, (ot[u] * InitialRate) \div lastRateBeforeExpiry + NetInterest(u))
    /\ UNCHANGED <<environmentVars, xyt>>

(* Anybody may redeem for anybody, before and after the expiry. *)
RedeemDueInterests(u) ==
    /\ NotPaused
    /\ UpdateDueInterests({u}, {u})
    /\ totalFee' = totalFee + FeeOf(u)
    /\ PayOut(u, NetInterest(u))
    /\ UNCHANGED <<environmentVars, ot, xyt>>

(* Mistake: the sender's interest is not settled. *)
TransferXytUnsettled(from, to, amount) ==
    /\ from # to
    /\ NotPaused
    /\ amount <= xyt[from]
    /\ UpdateDueInterests({to}, {})
    /\ xyt' = [xyt EXCEPT ![from] = @ - amount, ![to] = @ + amount]
    /\ UNCHANGED <<environmentVars, cToken, held, treasury, ot, totalFee>>

TransferXyt(from, to, amount) ==
    /\ from # to
    /\ NotPaused
    /\ amount <= xyt[from]
    /\ UpdateDueInterests({from, to}, {})
    /\ xyt' = [xyt EXCEPT ![from] = @ - amount, ![to] = @ + amount]
    /\ UNCHANGED <<environmentVars, cToken, held, treasury, ot, totalFee>>

TransferOt(from, to, amount) ==
    /\ from # to
    /\ NotPaused
    /\ amount <= ot[from]
    /\ ot' = [ot EXCEPT ![from] = @ - amount, ![to] = @ + amount]
    /\ UNCHANGED <<environmentVars, cToken, held, treasury, xyt, interestVars>>

WithdrawForgeFee ==
    /\ NotPaused
    /\ LET paid == Minimum(totalFee, held)
       IN  /\ held' = held - paid
           /\ treasury' = treasury + paid
    /\ totalFee' = 0
    /\ UNCHANGED <<environmentVars, cToken, ot, xyt, lastRate, lastRateBeforeExpiry, dueInterests>>

(* Called by the emergency handler; the allowance can be given only once. *)
SetUpEmergencyMode ==
    /\ status = "locked"
    /\ ~spenderApproved
    /\ spenderApproved' = TRUE
    /\ UNCHANGED <<now, rate, status, forgeFee, tokenVars, interestVars>>

(* The emergency handler hands the holder's tokens out as it sees fit. *)
SpenderWithdraw(u, amount) ==
    /\ spenderApproved
    /\ amount <= held
    /\ held' = held - amount
    /\ cToken' = [cToken EXCEPT ![u] = @ + amount]
    /\ UNCHANGED <<environmentVars, treasury, ot, xyt, interestVars>>

(***************************************************************************)
(* The surroundings: other contracts, Compound, and time.                  *)
(***************************************************************************)
SetForgeFee(fee) ==
    /\ forgeFee' = fee
    /\ UNCHANGED <<now, rate, status, spenderApproved, tokenVars, interestVars>>

(* What PauseRegister allows: a lock is for ever. *)
SetStatus(new) ==
    /\ status # "locked"
    /\ status' = new
    /\ UNCHANGED <<now, rate, forgeFee, spenderApproved, tokenVars, interestVars>>

AccrueInterest(new) ==
    /\ new > rate
    /\ rate' = new
    /\ UNCHANGED <<now, status, forgeFee, spenderApproved, tokenVars, interestVars>>

Tick ==
    /\ now < MaxTime
    /\ now' = now + 1
    /\ UNCHANGED <<rate, status, forgeFee, spenderApproved, tokenVars, interestVars>>

Next ==
    \/ \E u, to \in User : \E amount \in 1..cToken[u] : TokenizeYield(u, amount, to)
    \/ \E u \in User : \E amount \in 1..ot[u] : RedeemUnderlying(u, amount)
    \/ \E u \in User : RedeemAfterExpiry(u)
    \/ \E u \in User : RedeemDueInterests(u)
    \/ \E from, to \in User : \E amount \in 0..xyt[from] : TransferXyt(from, to, amount)
    \/ \E from, to \in User : \E amount \in 0..ot[from] : TransferOt(from, to, amount)
    \/ WithdrawForgeFee
    \/ SetUpEmergencyMode
    \/ \E u \in User : \E amount \in 1..held : SpenderWithdraw(u, amount)
    \/ \E fee \in ForgeFee : SetForgeFee(fee)
    \/ \E new \in {"live", "paused", "locked"} : SetStatus(new)
    \/ \E new \in Rate : AccrueInterest(new)
    \/ Tick

Spec == Init /\ [][Next]_vars

(***************************************************************************)
(* Properties.                                                             *)
(***************************************************************************)
TypeOK ==
    /\ now \in 0..MaxTime
    /\ rate \in Rate
    /\ status \in {"live", "paused", "locked"}
    /\ forgeFee \in ForgeFee
    /\ cToken \in [User -> Nat]
    /\ held \in Nat
    /\ treasury \in Nat
    /\ ot \in [User -> Nat]
    /\ xyt \in [User -> Nat]
    /\ lastRate \in [User -> Rate \cup {0}]
    /\ lastRateBeforeExpiry \in Rate \cup {0}
    /\ dueInterests \in [User -> Nat]
    /\ totalFee \in Nat
    /\ spenderApproved \in BOOLEAN

(* What a unit of XYT settled at rate r has earned since, in cTokens times *)
(* Scale per unit of the initial rate.                                     *)
Earned(r) == (Scale \div r) - (Scale \div lastRateBeforeExpiry)

(* The interest of u not settled yet, on the same scale. *)
Unsettled(u) == IF xyt[u] = 0 THEN 0 ELSE xyt[u] * Earned(lastRate[u])

(* What the yield contract owes, in cTokens times Scale: the principal of  *)
(* OT and the unsettled interest of XYT at the last rate seen, the settled *)
(* interest, and the fees.  No rounding: Scale is a multiple of the rates. *)
Obligations ==
    Scale * (SumOver(dueInterests) + totalFee) +
    InitialRate *
       (IF lastRateBeforeExpiry = 0 THEN 0
        ELSE SumOver(ot) * (Scale \div lastRateBeforeExpiry)
             + SumOver([u \in User |-> Unsettled(u)]))

Surplus == Scale * held - Obligations

(* Every OT has its XYT until OT alone can be redeemed; afterwards no OT   *)
(* appears without one.                                                    *)
OTMatchesXYT ==
    /\ now <= Expiry => SumOver(ot) = SumOver(xyt)
    /\ SumOver(ot) <= SumOver(xyt)

(* OT and XYT match, and the cTokens of the holder cover every OT, every   *)
(* XYT, every settled interest and the fees, however the interest moved    *)
(* and whoever was paid first, so _safeTransfer never has to pay less than *)
(* it is asked for (PendleForgeBase.sol:459-464).  Until emergency takes   *)
(* the funds away.                                                         *)
Solvent == OTMatchesXYT /\ (spenderApproved \/ Surplus >= 0)

(* No transaction, of whatever user in whatever order, gives out more than *)
(* it takes off the books: roundings always favour the holder.             *)
SurplusNeverFalls == [][~spenderApproved => Surplus' >= Surplus]_vars

(* Interest of XYT that the books grant u now. *)
Entitlement(u) == SettledDue(u)

(* While the rate and the clock stand still, the interest a user is        *)
(* entitled to falls only by being paid to him: no transfer, mint or       *)
(* redemption of somebody else, and none of his own, forfeits it.          *)
InterestIsKept ==
    [][ UNCHANGED <<rate, now>> =>
          \A u \in User :
             \/ Entitlement(u)' >= Entitlement(u)
             \/ (cToken'[u] - cToken[u]) + (totalFee' - totalFee) >= Entitlement(u) ]_vars

(* XYT earn nothing after the expiry, whenever they are settled and        *)
(* whoever acts in between (PendleCompoundForge.sol:101-103).              *)
NoInterestAfterExpiry ==
    [][ now > Expiry => \A u \in User : Entitlement(u)' <= Entitlement(u) ]_vars

(* A settlement never reverts in SafeMath, so nobody's tokens are stuck:   *)
(* no user was settled at a higher rate than the next settlement uses,     *)
(* the frozen rate after the expiry included.                              *)
SettlementNeverReverts == \A u \in User : CanSettle(u)

(* "All write functions must go through this check.  All XYT/OT transfers  *)
(* must go through this check as well" (PendleForgeBase.sol:90-91): while  *)
(* paused, only the emergency handler moves tokens, nobody's books change. *)
PausedFreezes ==
    [][ status # "live" => /\ UNCHANGED <<ot, xyt, interestVars>>
                           /\ spenderApproved \/ UNCHANGED tokenVars ]_vars
=============================================================================
