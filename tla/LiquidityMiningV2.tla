------------------------- MODULE LiquidityMiningV2 -------------------------
(***************************************************************************)
(* contracts/core/abstractV2/PendleLiquidityMiningBaseV2.sol, the contract *)
(* as it is deployed for stake tokens without interest (yieldToken = 0).   *)
(* Stakers share the PENDLE of an epoch by the tokens and seconds they     *)
(* staked in it (stake units); a share is paid out in equal parts over the *)
(* vestingEpochs after it.                                                 *)
(*                                                                         *)
(* Nothing happens by itself: the units of all epochs since the last       *)
(* transaction are added up by _updateStakeData, those of one user, and    *)
(* his rewards of ended epochs, by _updatePendingRewards when he acts or   *)
(* somebody acts for him.  A transaction is one step, a require or a       *)
(* SafeMath check is a guard.  A definition marked "Mistake" is a wrong    *)
(* variant of the one after it, and not part of the specification.         *)
(***************************************************************************)
EXTENDS Integers, FiniteSetsExt

CONSTANTS
    User,
    StartTime, EpochDuration, VestingEpochs,
    Reward,       \* the amounts of PENDLE governance funds an epoch with
    Status,       \* the statuses the pausing manager gives this contract
    MaxEpochs,    \* bound on numberOfEpochs
    MaxTopUps,    \* bound on the rewards of one epoch
    MaxStake,     \* bound on totalStake
    MaxTime       \* bound on block.timestamp

(* The constructor requires a start in the future and vesting epochs; an   *)
(* epochDuration of 0 would make every _epochOfTimestamp revert.           *)
ASSUME TimeAssumption ==
    /\ StartTime \in Nat \ {0}
    /\ EpochDuration \in Nat \ {0}
    /\ VestingEpochs \in Nat \ {0}
ASSUME BoundAssumption ==
    MaxEpochs \in Nat /\ MaxTopUps \in Nat /\ MaxStake \in Nat /\ MaxTime \in Nat
ASSUME UserAssumption == IsFiniteSet(User)
ASSUME RewardAssumption == Reward \subseteq Nat
ASSUME StatusAssumption ==
    "live" \in Status /\ Status \subseteq {"live", "paused", "emergency"}

VARIABLES
    now,                \* block.timestamp
    status,             \* checkLiqMiningStatus of the pausing manager
    spenderApproved,    \* setUpEmergencyMode has approved a spender
    numberOfEpochs,
    totalStakeUnits, totalRewards, lastUpdated, stakeUnitsForUser,   \* epochData
    availableRewardsForUser,                                         \* epochData
    balances, totalStake, lastTimeUserStakeUpdated, lastEpochClaimed,
    stakeHeld,          \* the contract's balance of the stakeToken
    pendleHeld,         \* its balance of PENDLE
    paid                \* PENDLE paid to the users

unitVars == <<totalStakeUnits, lastUpdated, stakeUnitsForUser,
              availableRewardsForUser, lastTimeUserStakeUpdated>>
stakeVars == <<balances, totalStake, stakeHeld>>
claimVars == <<lastEpochClaimed, paid>>
fundVars == <<numberOfEpochs, totalRewards>>
modeVars == <<status, spenderApproved>>
vars == <<now, modeVars, fundVars, unitVars, stakeVars, claimVars, pendleHeld>>

Epoch == 1..MaxEpochs
VestEpoch == 0..(MaxEpochs + VestingEpochs)    \* the keys rewards may vest at

SmallerOf(a, b) == IF a < b THEN a ELSE b
LargerOf(a, b) == IF a > b THEN a ELSE b
SumOver(f) == MapThenSumSet(LAMBDA x : f[x], DOMAIN f)

Init ==
    /\ now = StartTime - 1
    /\ status = "live"
    /\ spenderApproved = FALSE
    /\ numberOfEpochs = 0
    /\ totalStakeUnits = [e \in Epoch |-> 0]
    /\ totalRewards = [e \in Epoch |-> 0]
    /\ lastUpdated = [e \in Epoch |-> 0]
    /\ stakeUnitsForUser = [e \in Epoch |-> [u \in User |-> 0]]
    /\ availableRewardsForUser = [k \in VestEpoch |-> [u \in User |-> 0]]
    /\ balances = [u \in User |-> 0]
    /\ totalStake = 0
    /\ lastTimeUserStakeUpdated = [u \in User |-> 0]
    /\ lastEpochClaimed = [u \in User |-> 0]
    /\ stakeHeld = 0
    /\ pendleHeld = 0
    /\ paid = [u \in User |-> 0]

(***************************************************************************)
(* Epochs and units.                                                       *)
(***************************************************************************)
EpochOf(t) == IF t < StartTime THEN 0 ELSE (t - StartTime) \div EpochDuration + 1
StartOf(e) == StartTime + (e - 1) * EpochDuration
EndOf(e) == StartTime + e * EpochDuration    \* the start of the next one

CurEpoch == EpochOf(now)
LastLive == SmallerOf(CurEpoch, numberOfEpochs)

(* Units that amount, staked from since to now, adds to epoch e. *)
Units(amount, since, e) ==
    amount * LargerOf(0, SmallerOf(now, EndOf(e)) - LargerOf(since, StartOf(e)))

(* Mistake: only the running epoch is brought up to date. *)
RefreshedNow(e) == e = LastLive

(* Epochs the loop of _updateStakeData reaches: it runs backwards from the *)
(* last one and stops at the first that is up to date until its end.       *)
Refreshed(e) ==
    /\ e <= LastLive
    /\ \A i \in e..LastLive : lastUpdated[i] # EndOf(i)

UpdatedAt(e) == IF Refreshed(e) THEN SmallerOf(now, EndOf(e)) ELSE lastUpdated[e]

TotalUnits(e) ==
    totalStakeUnits[e]
    + IF Refreshed(e) THEN Units(totalStake, lastUpdated[e], e) ELSE 0

(***************************************************************************)
(* _updatePendingRewards.                                                  *)
(***************************************************************************)
(* Mistake: starts with the epoch after the user's last update. *)
VisitedLate(u) ==
    IF lastTimeUserStakeUpdated[u] = 0 THEN {}
    ELSE LET first == EpochOf(lastTimeUserStakeUpdated[u]) + 1
         IN  {e \in first..LastLive : TotalUnits(e) # 0}

(* Epochs whose units u gets: none for a newcomer, else those from his     *)
(* last update on.  Epochs without stake are skipped, and end the loop if  *)
(* there is no stake now either.                                           *)
Visited(u) ==
    IF lastTimeUserStakeUpdated[u] = 0 THEN {}
    ELSE LET first == EpochOf(lastTimeUserStakeUpdated[u])
         IN  {e \in first..LastLive :
                /\ TotalUnits(e) # 0
                /\ totalStake # 0 \/ \A i \in first..e : TotalUnits(i) # 0}

UserUnits(u, e) ==
    stakeUnitsForUser[e][u]
    + IF e \in Visited(u) THEN Units(balances[u], lastTimeUserStakeUpdated[u], e) ELSE 0

Ended(e) == e < LastLive \/ CurEpoch > numberOfEpochs

(* Mistake: the whole reward of the epoch every time. *)
RewardAtOnce(u, e) == (totalRewards[e] * UserUnits(u, e)) \div TotalUnits(e)

RewardPerVestingEpoch(u, e) ==
    ((totalRewards[e] * UserUnits(u, e)) \div TotalUnits(e)) \div VestingEpochs

(* Mistake: vests from the epoch itself on. *)
VestsAtOnce(e, k) == e <= k /\ k < e + VestingEpochs

VestsAt(e, k) == e < k /\ k <= e + VestingEpochs

(* What u has available at epoch k after his update. *)
Available(u, k) ==
    availableRewardsForUser[k][u]
    + SumOver([e \in {i \in Visited(u) : Ended(i) /\ VestsAt(i, k)} |->
                   RewardPerVestingEpoch(u, e)])

(* The update itself, after which the epochs of the set claimed are empty. *)
UpdatePendingRewards(u, claimed) ==
    /\ totalStakeUnits' = [e \in Epoch |-> TotalUnits(e)]
    /\ lastUpdated' = [e \in Epoch |-> UpdatedAt(e)]
    /\ stakeUnitsForUser' = [e \in Epoch |-> [stakeUnitsForUser[e] EXCEPT ![u] = UserUnits(u, e)]]
    /\ availableRewardsForUser' =
         [k \in VestEpoch |-> [availableRewardsForUser[k] EXCEPT
                                 ![u] = IF k \in claimed THEN 0 ELSE Available(u, k)]]
    /\ lastTimeUserStakeUpdated' = [lastTimeUserStakeUpdated EXCEPT ![u] = now]

IsUserAllowedToUse ==
    /\ status = "live"
    /\ numberOfEpochs > 0
    /\ CurEpoch > 0

(***************************************************************************)
(* Operations of users.                                                    *)
(***************************************************************************)
(* Anybody stakes amount for u. *)
Stake(u, amount) ==
    /\ IsUserAllowedToUse
    /\ CurEpoch <= numberOfEpochs
    /\ totalStake + amount <= MaxStake
    /\ UpdatePendingRewards(u, {})
    /\ balances' = [balances EXCEPT ![u] = @ + amount]
    /\ totalStake' = totalStake + amount
    /\ stakeHeld' = stakeHeld + amount
    /\ UNCHANGED <<now, modeVars, fundVars, claimVars, pendleHeld>>

Withdraw(u, amount) ==
    /\ IsUserAllowedToUse
    /\ amount <= balances[u] /\ amount <= totalStake /\ amount <= stakeHeld
    /\ UpdatePendingRewards(u, {})
    /\ balances' = [balances EXCEPT ![u] = @ - amount]
    /\ totalStake' = totalStake - amount
    /\ stakeHeld' = stakeHeld - amount
    /\ UNCHANGED <<now, modeVars, fundVars, claimVars, pendleHeld>>

LastClaimable == SmallerOf(CurEpoch, numberOfEpochs + VestingEpochs)

Claimable(u) == lastEpochClaimed[u]..LastClaimable

(* Anybody has u's rewards paid to u. *)
RedeemRewards(u) ==
    LET amountOut == SumOver([k \in Claimable(u) |-> Available(u, k)])
    IN  /\ IsUserAllowedToUse
        /\ UpdatePendingRewards(u, Claimable(u))
        /\ lastEpochClaimed' = [lastEpochClaimed EXCEPT ![u] = LastClaimable]
        /\ amountOut <= pendleHeld
        /\ pendleHeld' = pendleHeld - amountOut
        /\ paid' = [paid EXCEPT ![u] = @ + amountOut]
        /\ UNCHANGED <<now, modeVars, fundVars, stakeVars>>

UpdateAndReadEpochData(u) ==
    /\ IsUserAllowedToUse
    /\ UpdatePendingRewards(u, {})
    /\ UNCHANGED <<now, modeVars, fundVars, stakeVars, claimVars, pendleHeld>>

(***************************************************************************)
(* Operations of governance and of the emergency handler.                  *)
(***************************************************************************)
(* One epoch more; fund with n rewards is n of these in one block. *)
Fund(reward) ==
    /\ CurEpoch <= numberOfEpochs
    /\ numberOfEpochs < MaxEpochs
    /\ totalRewards' = [totalRewards EXCEPT ![numberOfEpochs + 1] = reward]
    /\ numberOfEpochs' = numberOfEpochs + 1
    /\ pendleHeld' = pendleHeld + reward
    /\ UNCHANGED <<now, modeVars, unitVars, stakeVars, claimVars>>

(* One epoch at a time, as for Fund. *)
TopUpRewards(e, reward) ==
    /\ CurEpoch < e /\ e <= numberOfEpochs
    /\ totalRewards[e] + reward <= MaxTopUps
    /\ totalRewards' = [totalRewards EXCEPT ![e] = @ + reward]
    /\ pendleHeld' = pendleHeld + reward
    /\ UNCHANGED <<now, modeVars, numberOfEpochs, unitVars, stakeVars, claimVars>>

(* safeApprove refuses to change an allowance that is not zero, and the    *)
(* allowance is infinite from then on.                                     *)
SetUpEmergencyMode ==
    /\ status = "emergency"
    /\ ~spenderApproved
    /\ spenderApproved' = TRUE
    /\ UNCHANGED <<now, status, fundVars, unitVars, stakeVars, claimVars, pendleHeld>>

(***************************************************************************)
(* The surroundings.                                                       *)
(***************************************************************************)
(* The approved spender takes all of one token. *)
SpenderWithdraw ==
    /\ spenderApproved
    /\ \/ stakeHeld' = 0 /\ UNCHANGED pendleHeld
       \/ pendleHeld' = 0 /\ UNCHANGED stakeHeld
    /\ UNCHANGED <<now, modeVars, fundVars, unitVars, balances, totalStake, claimVars>>

(* Emergency is for ever (EmergencyIsPermanent of PausingManager). *)
SetStatus(s) ==
    /\ status # "emergency"
    /\ s # status
    /\ status' = s
    /\ UNCHANGED <<now, spenderApproved, fundVars, unitVars, stakeVars, claimVars, pendleHeld>>

Tick ==
    /\ now < MaxTime
    /\ now' = now + 1
    /\ UNCHANGED <<modeVars, fundVars, unitVars, stakeVars, claimVars, pendleHeld>>

Next ==
    \/ \E u \in User : \E amount \in 1..MaxStake : Stake(u, amount)
    \/ \E u \in User : \E amount \in 1..MaxStake : Withdraw(u, amount)
    \/ \E u \in User : RedeemRewards(u)
    \/ \E u \in User : UpdateAndReadEpochData(u)
    \/ \E reward \in Reward : Fund(reward)
    \/ \E e \in Epoch : \E reward \in Reward : TopUpRewards(e, reward)
    \/ SetUpEmergencyMode
    \/ SpenderWithdraw
    \/ \E s \in Status : SetStatus(s)
    \/ Tick

Spec == Init /\ [][Next]_vars

(***************************************************************************)
(* Properties.                                                             *)
(***************************************************************************)
TypeOK ==
    /\ now \in Nat
    /\ status \in Status
    /\ spenderApproved \in BOOLEAN
    /\ numberOfEpochs \in 0..MaxEpochs
    /\ totalStakeUnits \in [Epoch -> Nat]
    /\ totalRewards \in [Epoch -> Nat]
    /\ lastUpdated \in [Epoch -> Nat]
    /\ stakeUnitsForUser \in [Epoch -> [User -> Nat]]
    /\ availableRewardsForUser \in [VestEpoch -> [User -> Nat]]
    /\ balances \in [User -> Nat]
    /\ totalStake \in Nat
    /\ lastTimeUserStakeUpdated \in [User -> Nat]
    /\ lastEpochClaimed \in [User -> Nat]
    /\ stakeHeld \in Nat
    /\ pendleHeld \in Nat
    /\ paid \in [User -> Nat]

(* The units an epoch would have if everybody were settled now. *)
LedgerUnits(e, u) ==
    IF e > numberOfEpochs THEN 0
    ELSE stakeUnitsForUser[e][u]
         + IF lastTimeUserStakeUpdated[u] = 0 THEN 0
           ELSE Units(balances[u], lastTimeUserStakeUpdated[u], e)

LedgerTotal(e) ==
    IF e > numberOfEpochs THEN 0
    ELSE totalStakeUnits[e] + Units(totalStake, lastUpdated[e], e)

(* The lazy units, with what is still to be added, are those of a ledger   *)
(* that counts every second: it makes no difference to anybody's units who *)
(* acted when, how many epochs were caught up at once, or when new epochs  *)
(* were funded.                                                            *)
Ledger == INSTANCE StakeLedger WITH
    units <- [e \in Epoch |-> [u \in User |-> LedgerUnits(e, u)]],
    totalUnits <- [e \in Epoch |-> LedgerTotal(e)]

LedgerSpec == Ledger!LedgerSpec

(* The part of it that is about totals, for any number of users: a second  *)
(* adds what is staked to the running epoch if that is funded, and nothing *)
(* else ever changes what the epochs have.                                 *)
TotalsCountEverySecond ==
    [][ \A e \in Epoch :
          LedgerTotal(e)' = LedgerTotal(e)
            + IF now' # now /\ e = CurEpoch /\ e <= numberOfEpochs THEN totalStake ELSE 0 ]_vars

(* The part of epoch e's rewards that each vesting epoch pays u. *)
Share(u, e) ==
    IF LedgerTotal(e) = 0 THEN 0
    ELSE ((totalRewards[e] * LedgerUnits(e, u)) \div LedgerTotal(e)) \div VestingEpochs

FundedEpochs == 1..numberOfEpochs

StillAvailable(u) == SumOver([k \in VestEpoch |-> availableRewardsForUser[k][u]])

(* Nothing is granted twice and nothing forgotten: what u was paid and has *)
(* available is his share of the epochs that had ended when he was last    *)
(* settled, and of no other, however many settlements there were.          *)
RewardsExact ==
    \A u \in User :
        paid[u] + StillAvailable(u)
          = SumOver([e \in {i \in FundedEpochs : EndOf(i) <= lastTimeUserStakeUpdated[u]} |->
                         VestingEpochs * Share(u, e)])

(* "After the rewards an epoch has been claimed, there won't be any        *)
(* additional rewards in that epoch for the user to claim"                 *)
(* (abstract/PendleLiquidityMiningBase.sol:62, whose logic this shares):   *)
(* redeemRewards never looks at earlier epochs again.                      *)
ClaimedEpochsStayEmpty ==
    \A u \in User, k \in VestEpoch :
        lastEpochClaimed[u] > 0 /\ k <= lastEpochClaimed[u] => availableRewardsForUser[k][u] = 0

(* What u was paid is what had vested, to the epoch, when he last claimed: *)
(* neither early nor late, and nothing is left in an epoch he claimed.     *)
PaidAsVested ==
    /\ ClaimedEpochsStayEmpty
    /\ \A u \in User :
        paid[u] = SumOver([e \in FundedEpochs |->
                             Share(u, e) * SmallerOf(VestingEpochs,
                                                     LargerOf(0, lastEpochClaimed[u] - e))])

(* Rewards u is to get from ended epochs he is not settled for. *)
Unsettled(u) ==
    SumOver([e \in {i \in FundedEpochs : /\ EndOf(i) <= now
                                         /\ EndOf(i) > lastTimeUserStakeUpdated[u]} |->
                 VestingEpochs * Share(u, e)])

(* Unless the emergency spender took them, the contract has the tokens     *)
(* that are staked, and the PENDLE for all vested rewards, all that are    *)
(* still to be settled, and all of the epochs to come.                     *)
RewardsCovered ==
    /\ TypeOK
    /\ ~spenderApproved =>
        /\ stakeHeld = SumOver(balances)
        /\ pendleHeld >= SumOver([u \in User |-> StillAvailable(u) + Unsettled(u)])
                         + SumOver([e \in {i \in FundedEpochs : EndOf(i) > now} |-> totalRewards[e]])
=============================================================================
