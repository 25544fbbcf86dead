--------------------------- MODULE RewardManager ---------------------------
(***************************************************************************)
(* contracts/core/PendleRewardManager.sol for one yield contract: the COMP *)
(* or StkAAVE that its yieldTokenHolder earns are shared out to the        *)
(* holders of OT.  paramL is the reward of one OT since the beginning,     *)
(* scaled up by MULTIPLIER; a user is owed his OT times what paramL grew   *)
(* since he was settled last, and the hook of PendleOwnershipToken settles *)
(* him before his OT changes.                                              *)
(*                                                                         *)
(* Claiming the rewards is expensive, so paramL is brought up to date only *)
(* every updateFrequency blocks, on demand, or not at all when rewards are *)
(* skipped.  A transaction is one step, a require or a SafeMath check is a *)
(* guard.  A definition marked "Mistake" is a wrong variant of the one     *)
(* after it, and not part of the specification.                            *)
(***************************************************************************)
EXTENDS Integers, FiniteSetsExt

CONSTANTS
    User,
    MULTIPLIER,
    Frequency,    \* update frequencies governance chooses from, in blocks
    MaxOT,        \* bound on the supply of OT
    MaxReward,    \* bound on the rewards earned in a run
    FirstBlock,   \* block.number when the behaviour begins
    MaxBlock      \* bound on block.number

ASSUME UserAssumption == IsFiniteSet(User)
ASSUME MultiplierAssumption == MULTIPLIER \in Nat \ {0}
ASSUME BoundAssumption ==
    MaxOT \in Nat /\ MaxReward \in Nat /\ FirstBlock \in Nat /\ MaxBlock \in Nat
(* The chain is older than any frequency: the first update is always due. *)
ASSUME FrequencyAssumption == Frequency \subseteq 0..FirstBlock

VARIABLES
    block,             \* block.number
    ot, totalOT,       \* OT balances and their supply
    unclaimed,         \* rewards the protocol has yet to give to the holder
    held,              \* reward tokens of the yieldTokenHolder
    wallet,            \* reward tokens of the users
    updateFrequency,
    lastUpdated,       \* lastUpdatedForYieldTokenHolder
    skippingRewards,
    paramL, lastRewardBalance, lastParamL, dueRewards   \* rewardData

fundVars == <<unclaimed, held, wallet>>
rewardData == <<paramL, lastRewardBalance, lastParamL, dueRewards>>
settingVars == <<updateFrequency, skippingRewards>>
vars == <<block, ot, totalOT, fundVars, settingVars, lastUpdated, rewardData>>

SumOver(f) == MapThenSumSet(LAMBDA u : f[u], User)

Init ==
    /\ block = FirstBlock
    /\ ot = [u \in User |-> 0]
    /\ totalOT = 0
    /\ unclaimed = 0
    /\ held = 0
    /\ wallet = [u \in User |-> 0]
    /\ updateFrequency \in Frequency
    /\ lastUpdated = 0
    /\ skippingRewards = FALSE
    /\ paramL = 0
    /\ lastRewardBalance = 0
    /\ lastParamL = [u \in User |-> 0]
    /\ dueRewards = [u \in User |-> 0]

(***************************************************************************)
(* Bringing paramL up to date.                                             *)
(***************************************************************************)
NeedUpdateParamL(manual) ==
    ~skippingRewards /\ (manual \/ block - lastUpdated >= updateFrequency)

CurrentRewardBalance == held + unclaimed

NewRewards == CurrentRewardBalance - lastRewardBalance

NewParamL(manual) ==
    IF NeedUpdateParamL(manual)
    THEN (IF paramL = 0 THEN 1 ELSE paramL)
         + (IF totalOT = 0 THEN 0 ELSE (NewRewards * MULTIPLIER) \div totalOT)
    ELSE paramL

(* Mistake: skipped rewards are recorded as distributed. *)
AccountedAlways(manual) == CurrentRewardBalance

(* What lastRewardBalance is after the update. *)
Accounted(manual) ==
    IF NeedUpdateParamL(manual) THEN CurrentRewardBalance ELSE lastRewardBalance

(* _updateParamL, and the payout of redeemRewards that may follow it.      *)
UpdateParamL(manual, paid) ==
    /\ NeedUpdateParamL(manual) => NewRewards >= 0
    /\ paramL' = NewParamL(manual)
    /\ paid <= Accounted(manual)
    /\ lastRewardBalance' = Accounted(manual) - paid
    /\ lastUpdated' = IF NeedUpdateParamL(manual) THEN block ELSE lastUpdated
    /\ unclaimed' = IF NeedUpdateParamL(manual) THEN 0 ELSE unclaimed
    /\ held' = (held + unclaimed - unclaimed') - paid
    /\ held' >= 0

(***************************************************************************)
(* Settling a user.                                                        *)
(***************************************************************************)
(* A user never settled before gets nothing. *)
RewardsFromOT(u, L) ==
    IF lastParamL[u] = 0 THEN 0 ELSE (ot[u] * (L - lastParamL[u])) \div MULTIPLIER

(* Mistake: what was due before is forgotten. *)
SettledRewardsAnew(u, L) == RewardsFromOT(u, L)

SettledRewards(u, L) == dueRewards[u] + RewardsFromOT(u, L)

(* _updatePendingRewards for every user of S, before their OT changes.     *)
UpdatePendingRewards(S) ==
    /\ UpdateParamL(FALSE, 0)
    /\ \A u \in S : lastParamL[u] <= paramL'
    /\ lastParamL' = [u \in User |-> IF u \in S THEN paramL' ELSE lastParamL[u]]
    /\ dueRewards' = [u \in User |-> IF u \in S THEN SettledRewards(u, paramL') ELSE dueRewards[u]]

(***************************************************************************)
(* Operations.                                                             *)
(***************************************************************************)
RedeemRewards(u) ==
    LET L == NewParamL(FALSE)
    IN  /\ lastParamL[u] <= L
        /\ UpdateParamL(FALSE, SettledRewards(u, L))
        /\ lastParamL' = [lastParamL EXCEPT ![u] = L]
        /\ dueRewards' = [dueRewards EXCEPT ![u] = 0]
        /\ wallet' = [wallet EXCEPT ![u] = @ + SettledRewards(u, L)]
        /\ UNCHANGED <<block, ot, totalOT, settingVars>>

UpdateParamLManual ==
    /\ UpdateParamL(TRUE, 0)
    /\ UNCHANGED <<block, ot, totalOT, wallet, settingVars, lastParamL, dueRewards>>

MintOt(to, amount) ==
    /\ totalOT + amount <= MaxOT
    /\ UpdatePendingRewards({to})
    /\ ot' = [ot EXCEPT ![to] = @ + amount]
    /\ totalOT' = totalOT + amount
    /\ UNCHANGED <<block, wallet, settingVars>>

(* Mistake: burns OT the user does not have. *)
BurnOtUnchecked(u, amount) ==
    /\ UpdatePendingRewards({u})
    /\ ot' = [ot EXCEPT ![u] = @ - amount]
    /\ totalOT' = totalOT - amount
    /\ UNCHANGED <<block, wallet, settingVars>>

BurnOt(u, amount) ==
    /\ amount <= ot[u] /\ amount <= totalOT
    /\ UpdatePendingRewards({u})
    /\ ot' = [ot EXCEPT ![u] = @ - amount]
    /\ totalOT' = totalOT - amount
    /\ UNCHANGED <<block, wallet, settingVars>>

(* Mistake: the receiver is not settled. *)
TransferOtFromOnly(from, to, amount) ==
    /\ from # to
    /\ amount <= ot[from]
    /\ UpdatePendingRewards({from})
    /\ ot' = [ot EXCEPT ![from] = @ - amount, ![to] = @ + amount]
    /\ UNCHANGED <<block, totalOT, wallet, settingVars>>

TransferOt(from, to, amount) ==
    /\ from # to
    /\ amount <= ot[from]
    /\ UpdatePendingRewards({from, to})
    /\ ot' = [ot EXCEPT ![from] = @ - amount, ![to] = @ + amount]
    /\ UNCHANGED <<block, totalOT, wallet, settingVars>>

SetUpdateFrequency(frequency) ==
    /\ updateFrequency' = frequency
    /\ UNCHANGED <<block, ot, totalOT, fundVars, skippingRewards, lastUpdated, rewardData>>

SetSkippingRewards(b) ==
    /\ skippingRewards' = b
    /\ UNCHANGED <<block, ot, totalOT, fundVars, updateFrequency, lastUpdated, rewardData>>

(***************************************************************************)
(* The surroundings: the protocol that pays the rewards, and the chain.    *)
(***************************************************************************)
Earned == unclaimed + held + SumOver(wallet)

Accrue(amount) ==
    /\ Earned + amount <= MaxReward
    /\ unclaimed' = unclaimed + amount
    /\ UNCHANGED <<block, ot, totalOT, held, wallet, settingVars, lastUpdated, rewardData>>

(* Anybody may have the protocol pay a holder. *)
ClaimForHolder ==
    /\ unclaimed > 0
    /\ held' = held + unclaimed
    /\ unclaimed' = 0
    /\ UNCHANGED <<block, ot, totalOT, wallet, settingVars, lastUpdated, rewardData>>

NextBlock ==
    /\ block < MaxBlock
    /\ block' = block + 1
    /\ UNCHANGED <<ot, totalOT, fundVars, settingVars, lastUpdated, rewardData>>

Next ==
    \/ \E u \in User : RedeemRewards(u)
    \/ UpdateParamLManual
    \/ \E to \in User : \E amount \in 1..MaxOT : MintOt(to, amount)
    \/ \E u \in User : \E amount \in 1..MaxOT : BurnOt(u, amount)
    \/ \E from, to \in User : \E amount \in 0..MaxOT : TransferOt(from, to, amount)
    \/ \E frequency \in Frequency : SetUpdateFrequency(frequency)
    \/ \E b \in BOOLEAN : SetSkippingRewards(b)
    \/ \E amount \in 1..MaxReward : Accrue(amount)
    \/ ClaimForHolder
    \/ NextBlock

Spec == Init /\ [][Next]_vars

(***************************************************************************)
(* Properties.                                                             *)
(***************************************************************************)
TypeOK ==
    /\ block \in Nat
    /\ ot \in [User -> Nat]
    /\ totalOT \in Nat
    /\ unclaimed \in Nat
    /\ held \in Nat
    /\ wallet \in [User -> Nat]
    /\ updateFrequency \in Frequency
    /\ lastUpdated \in Nat
    /\ skippingRewards \in BOOLEAN
    /\ paramL \in Nat
    /\ lastRewardBalance \in Nat
    /\ lastParamL \in [User -> Nat]
    /\ dueRewards \in [User -> Nat]

(* The rewards u could redeem without a further update of paramL. *)
Claim(u) == SettledRewards(u, paramL)

(* The rewards of u not settled yet, scaled up by MULTIPLIER. *)
Unsettled(u) == IF lastParamL[u] = 0 THEN 0 ELSE ot[u] * (paramL - lastParamL[u])

(* The supply is the sum of the balances it divides the rewards by, and    *)
(* what was recorded as distributed covers what everybody is owed, settled *)
(* or not and before rounding, and the holder has it: redeemRewards never  *)
(* fails for want of funds, and an update never finds less than the last   *)
(* one left (the sub of _getFirstTermAndParamR).                           *)
RewardsCovered ==
    /\ TypeOK
    /\ totalOT = SumOver(ot)
    /\ MULTIPLIER * SumOver(dueRewards) + SumOver([u \in User |-> Unsettled(u)])
         <= MULTIPLIER * lastRewardBalance
    /\ lastRewardBalance <= held

(* However OT moves and whenever rewards are updated, skipped or redeemed  *)
(* by others, nobody loses rewards: what u has and can claim never falls.  *)
RewardsAreKept ==
    [][ \A u \in User : wallet'[u] + Claim(u)' >= wallet[u] + Claim(u) ]_vars

(* Rewards that an update records.                                         *)
Distributed == lastRewardBalance + SumOver(wallet)

(* "Newly accrued rewards are equally accrued to all OT holders"           *)
(* (PendleRewardManager.sol:135): of the rewards a step records, each user *)
(* gets the share of the OT he had before it, within the rounding of       *)
(* paramL for his OT and one unit; a user that was never settled is left   *)
(* out, see HolderWasSettled.                                              *)
EqualShares ==
    [][ totalOT > 0 =>
          \A u \in User :
             LET share == ((Distributed' - Distributed) * ot[u]) \div totalOT
                 gain == (wallet'[u] + Claim(u)') - (wallet[u] + Claim(u))
                 rounding == 1 + ot[u] \div MULTIPLIER
             IN  lastParamL[u] # 0 => gain \in (share - rounding)..(share + 1) ]_vars

(* "ParamL is always >=1, so this user must have gotten OT for the first   *)
(* time, and shouldn't get any rewards" (PendleRewardManager.sol:226-227): *)
(* who has OT was settled at a paramL other than 0.  It fails when the     *)
(* first OT is minted while rewards are skipped: paramL is still 0 then,   *)
(* and the holder's next settlement takes him for a newcomer.              *)
HolderWasSettled == \A u \in User : ot[u] > 0 => lastParamL[u] # 0
=============================================================================
