------------------------------ MODULE MCVoting ------------------------------
(***************************************************************************)
(* Instances of Governance and of the token whose votes it counts, side by *)
(* side: a behaviour is one of the one or one of the other.  That what     *)
(* Governance reads in votesAt is what PENDLE returns is BookSpec.         *)
(***************************************************************************)
EXTENDS MCGovernance

CONSTANTS
    Account, NoDelegate, Genesis, FirstRecipient, INITIAL_LIQUIDITY_EMISSION, InitialWeeks,
    DecayWeeks, Multiplier, Inflation, CONFIG_DENOMINATOR, Week, TokenBlockTime,
    TokenMaxBlock, MaxSupply,
    MaxSteps         \* bound on the transactions of a behaviour of the token

VARIABLES
    tokenBlock, tokenTimestamp, balances, totalSupply, delegates, checkpoints, config,
    pending, configChangesInitiated, lastWeeklyEmission, lastWeekEmissionSent, drift,
    weekConfig, paid,
    component, steps

Token == INSTANCE PENDLE WITH
    BlockTime <- TokenBlockTime, MaxBlock <- TokenMaxBlock,
    block <- tokenBlock, timestamp <- tokenTimestamp

ASSUME TokenAssumption == Token!Assumptions

tokenVars ==
    <<tokenBlock, tokenTimestamp, balances, totalSupply, delegates, checkpoints, config,
      pending, configChangesInitiated, lastWeeklyEmission, lastWeekEmissionSent, drift,
      weekConfig, paid>>

(***************************************************************************)
(* Governance proposes to allow burning, and another recipient.            *)
(***************************************************************************)
TokenNext ==
    /\ Token!Next
    /\ steps' = steps + (IF tokenBlock' = tokenBlock THEN 1 ELSE 0)
    /\ steps' <= MaxSteps
    /\ pending' # pending => pending'.burning /\ pending'.recipient # config.recipient

VotingInit ==
    /\ Init /\ Token!Init
    /\ component \in {"Governance", "PENDLE"} /\ steps = 0
    /\ component = "Governance" =>
          /\ balances[FirstRecipient] = Genesis
          /\ config.multiplier = CHOOSE m \in Multiplier : TRUE
    /\ component = "PENDLE" => \A u \in User : votes[u] = 0 \/ votes[u] = Supply

VotingNext ==
    /\ UNCHANGED component
    /\ \/ component = "Governance" /\ MCNext /\ UNCHANGED <<tokenVars, steps>>
       \/ component = "PENDLE" /\ TokenNext /\ UNCHANGED vars

VotingSpec == VotingInit /\ [][VotingNext]_<<vars, tokenVars, component, steps>>

(* What PENDLE says of the token. *)
VotesAreBalances == Token!VotesAreBalances
BookSpec == Token!BookSpec
WeeksFollowTheirConfig == Token!WeeksFollowTheirConfig
=============================================================================
