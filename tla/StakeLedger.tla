---------------------------- MODULE StakeLedger ----------------------------
(***************************************************************************)
(* What liquidity mining promises about stake: every funded epoch has, at  *)
(* every moment, one unit per token and per second that was staked in it,  *)
(* for each user and in total.  There is no laziness here: the clock       *)
(* itself counts.  LiquidityMiningV2, which counts only when somebody      *)
(* acts, is shown to implement it.                                         *)
(***************************************************************************)
EXTENDS Integers

CONSTANTS User, StartTime, EpochDuration, MaxEpochs

VARIABLES
    now,
    numberOfEpochs,
    balances, totalStake,
    units, totalUnits    \* per epoch, and per user or in total

vars == <<now, numberOfEpochs, balances, totalStake, units, totalUnits>>

Epoch == 1..MaxEpochs

EpochOf(t) == IF t < StartTime THEN 0 ELSE (t - StartTime) \div EpochDuration + 1

Init ==
    /\ now \in Nat
    /\ numberOfEpochs = 0
    /\ balances = [u \in User |-> 0]
    /\ totalStake = 0
    /\ units = [e \in Epoch |-> [u \in User |-> 0]]
    /\ totalUnits = [e \in Epoch |-> 0]

(* A second passes, and counts in the running epoch if that is funded. *)
Counts(e) == e = EpochOf(now) /\ e <= numberOfEpochs

Tick ==
    /\ now' = now + 1
    /\ units' = [e \in Epoch |-> [u \in User |->
                     units[e][u] + (IF Counts(e) THEN balances[u] ELSE 0)]]
    /\ totalUnits' = [e \in Epoch |->
                     totalUnits[e] + (IF Counts(e) THEN totalStake ELSE 0)]
    /\ UNCHANGED <<numberOfEpochs, balances, totalStake>>

(* One user's stake changes, and the total with it. *)
Restake(u) ==
    /\ \A v \in User \ {u} : balances'[v] = balances[v]
    /\ totalStake' - totalStake = balances'[u] - balances[u]
    /\ UNCHANGED <<now, numberOfEpochs, units, totalUnits>>

(* New epochs are funded before the last one is over. *)
Extend ==
    /\ EpochOf(now) <= numberOfEpochs
    /\ numberOfEpochs' > numberOfEpochs
    /\ UNCHANGED <<now, balances, totalStake, units, totalUnits>>

Next == Tick \/ Extend \/ \E u \in User : Restake(u)

LedgerSpec == Init /\ [][Next]_vars
=============================================================================
