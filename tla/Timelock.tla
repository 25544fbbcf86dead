------------------------------ MODULE Timelock ------------------------------
(***************************************************************************)
(* contracts/periphery/Timelock.sol, as the governance contract uses it: a *)
(* list of actions is queued, executed or cancelled in one transaction.    *)
(* What is queued can be executed once its eta has come, until             *)
(* GRACE_PERIOD later, unless it is cancelled.  Governance is its admin;   *)
(* the handover of that role is left out.  Some actions set the delay      *)
(* itself, the others change nothing here.  A definition marked "Mistake"  *)
(* is a wrong variant of a neighbour, and not part of the specification.   *)
(***************************************************************************)
EXTENDS Integers, SequencesExt

CONSTANTS
    Action,          \* what a transaction does: target, value, signature, data
    SetDelay,        \* the ones that call setDelay, each being the new delay
    GRACE_PERIOD, MINIMUM_DELAY, MAXIMUM_DELAY

ASSUME PeriodAssumption ==
    /\ GRACE_PERIOD \in Nat \ {0}
    /\ MINIMUM_DELAY \in Nat /\ MAXIMUM_DELAY \in Nat /\ MINIMUM_DELAY <= MAXIMUM_DELAY
    /\ SetDelay \subseteq Action \cap Nat

VARIABLES
    timestamp,            \* block.timestamp
    delay,
    queuedTransactions    \* <<action, eta>>

timelockVars == <<delay, queuedTransactions>>

TimelockInit ==
    /\ timestamp = 1
    /\ delay = MINIMUM_DELAY
    /\ queuedTransactions = {}

Stamped(list, eta) == Range(list) \X {eta}

QueueTransactions(list, eta) ==
    /\ eta >= timestamp + delay
    /\ queuedTransactions' = queuedTransactions \cup Stamped(list, eta)
    /\ UNCHANGED delay

(* A transaction that is not queued may be cancelled too. *)
CancelTransactions(list, eta) ==
    /\ queuedTransactions' = queuedTransactions \ Stamped(list, eta)
    /\ UNCHANGED delay

DelayAccepted(d) == d \in MINIMUM_DELAY..MAXIMUM_DELAY

(* Where the list sets the delay. *)
Setting(list) == {i \in DOMAIN list : list[i] \in SetDelay}

(* The delay after the actions of the list, in their order. *)
RunActions(list) ==
    /\ \A i \in Setting(list) : DelayAccepted(list[i])
    /\ IF Setting(list) = {}
       THEN UNCHANGED delay
       ELSE \E last \in Setting(list) :
               (\A i \in Setting(list) : i <= last) /\ delay' = list[last]

(* Mistake: an executed transaction stays queued. *)
ExecuteTransactionsKeep(list, eta) ==
    /\ Stamped(list, eta) \subseteq queuedTransactions
    /\ timestamp \in eta..(eta + GRACE_PERIOD)
    /\ UNCHANGED <<delay, queuedTransactions>>

(* A call that fails makes the whole execution fail. *)
ExecuteTransactions(list, eta) ==
    /\ Stamped(list, eta) \subseteq queuedTransactions
    /\ timestamp \in eta..(eta + GRACE_PERIOD)
    /\ queuedTransactions' = queuedTransactions \ Stamped(list, eta)
    /\ RunActions(list)
=============================================================================
