----------------------------- MODULE Governance -----------------------------
(***************************************************************************)
(* contracts/governance/PendleGovernance.sol over the Timelock.  Holders   *)
(* of votes propose actions, vote with the votes they had when the voting  *)
(* began, queue what succeeded in the timelock and execute it when its eta *)
(* has come; a proposal can be cancelled until it is executed.             *)
(*                                                                         *)
(* Blocks and seconds are two clocks: voting is timed by the first, the    *)
(* timelock by the second.  The votes are those of PENDLE, here an input   *)
(* that changes at any time.  A transaction is one step, a require is a    *)
(* guard.  A definition marked "Mistake" is a wrong variant of the one     *)
(* after it, and not part of the specification.                            *)
(***************************************************************************)
EXTENDS Timelock

CONSTANTS
    User,
    Supply,                    \* votes there are in all
    quorumVotes, proposalThreshold,
    votingDelay, votingPeriod,
    OperationsPerProposal,     \* lengths of the action lists, at most proposalMaxOperations
    BlockTime,                 \* seconds there may be between two blocks
    AnswersGracePeriod,        \* the timelock has the function gracePeriod() of ITimelock
    MaxProposals,              \* bound on proposalCount
    MaxBlock                   \* bound on block.number

ASSUME UserAssumption == IsFiniteSet(User)
ASSUME VoteAssumption ==
    Supply \in Nat /\ quorumVotes \in Nat \ {0} /\ proposalThreshold \in Nat
ASSUME BlockAssumption ==
    votingDelay \in Nat /\ votingPeriod \in Nat \ {0} /\ BlockTime \subseteq Nat \ {0}
    /\ MaxBlock \in Nat /\ MaxProposals \in Nat
ASSUME OperationAssumption == OperationsPerProposal \subseteq Nat \ {0}
ASSUME AnswerAssumption == AnswersGracePeriod \in BOOLEAN

VARIABLES
    block,              \* block.number
    votes,              \* the votes each user has now
    votesAt,            \* and had at the end of earlier blocks that still matter
    guardian,           \* the guardian has not abdicated
    proposals,          \* by id
    latestProposalIds,
    queuedAt            \* history: when a proposal was queued

voteVars == <<block, timestamp, votes, votesAt>>
vars == <<voteVars, timelockVars, guardian, proposals, latestProposalIds, queuedAt>>

ProposalId == 1..Len(proposals)

Lists == UNION {[1..n -> Action] : n \in OperationsPerProposal}

Init ==
    /\ TimelockInit
    /\ block = 1
    /\ votes \in [User -> 0..Supply]
    /\ MapThenSumSet(LAMBDA u : votes[u], User) = Supply
    /\ votesAt = [b \in {0} |-> votes]
    /\ guardian = TRUE
    /\ proposals = <<>>
    /\ latestProposalIds = [u \in User |-> 0]
    /\ queuedAt = [p \in 1..MaxProposals |-> 0]

(***************************************************************************)
(* state()                                                                 *)
(***************************************************************************)
(* Mistake: a tie succeeds. *)
WonTied(p) ==
    /\ proposals[p].forVotes >= proposals[p].againstVotes
    /\ proposals[p].forVotes >= quorumVotes

Won(p) ==
    /\ proposals[p].forVotes > proposals[p].againstVotes
    /\ proposals[p].forVotes >= quorumVotes

Late(p) == timestamp >= proposals[p].eta + GRACE_PERIOD

State(p) ==
    IF proposals[p].canceled THEN "Canceled"
    ELSE IF block <= proposals[p].startBlock THEN "Pending"
    ELSE IF block <= proposals[p].endBlock THEN "Active"
    ELSE IF ~Won(p) THEN "Defeated"
    ELSE IF proposals[p].eta = 0 THEN "Succeeded"
    ELSE IF proposals[p].executed THEN "Executed"
    ELSE IF Late(p) THEN "Expired" ELSE "Queued"

(* The last two answers ask the timelock for its gracePeriod().            *)
StateReverts(p) == State(p) \in {"Expired", "Queued"} /\ ~AnswersGracePeriod

(* The call of state(p) returns s. *)
StateIs(p, s) == ~StateReverts(p) /\ State(p) = s

(***************************************************************************)
(* Operations.                                                             *)
(***************************************************************************)
NewProposal(u, targets) ==
    [proposer |-> u,
     eta |-> 0,
     targets |-> targets,
     startBlock |-> block + votingDelay,
     endBlock |-> block + votingDelay + votingPeriod,
     forVotes |-> 0,
     againstVotes |-> 0,
     canceled |-> FALSE,
     executed |-> FALSE,
     receipts |-> [v \in User |-> "none"]]

(* One live proposal per proposer. *)
NoLiveProposal(u) ==
    latestProposalIds[u] # 0 =>
        /\ ~StateReverts(latestProposalIds[u])
        /\ State(latestProposalIds[u]) \notin {"Active", "Pending"}

Propose(u, targets) ==
    /\ votesAt[block - 1][u] > proposalThreshold
    /\ NoLiveProposal(u)
    /\ Len(proposals) < MaxProposals
    /\ proposals' = Append(proposals, NewProposal(u, targets))
    /\ latestProposalIds' = [latestProposalIds EXCEPT ![u] = Len(proposals) + 1]
    /\ UNCHANGED <<voteVars, timelockVars, guardian, queuedAt>>

(* Mistake: the votes the voter has now. *)
CastVoteCurrent(u, p, support) ==
    /\ StateIs(p, "Active")
    /\ proposals[p].receipts[u] = "none"
    /\ proposals' =
         IF support
         THEN [proposals EXCEPT ![p].receipts[u] = "for", ![p].forVotes = @ + votes[u]]
         ELSE [proposals EXCEPT ![p].receipts[u] = "against", ![p].againstVotes = @ + votes[u]]
    /\ UNCHANGED <<voteVars, timelockVars, guardian, latestProposalIds, queuedAt>>

CastVote(u, p, support) ==
    /\ StateIs(p, "Active")
    /\ proposals[p].receipts[u] = "none"
    /\ LET cast == votesAt[proposals[p].startBlock][u]
       IN  proposals' =
             IF support
             THEN [proposals EXCEPT ![p].receipts[u] = "for", ![p].forVotes = @ + cast]
             ELSE [proposals EXCEPT ![p].receipts[u] = "against", ![p].againstVotes = @ + cast]
    /\ UNCHANGED <<voteVars, timelockVars, guardian, latestProposalIds, queuedAt>>

(* _queueOrRevert refuses an action that is queued at the same eta, by     *)
(* another proposal or by this one.                                        *)
Queue(p) ==
    /\ StateIs(p, "Succeeded")
    /\ IsInjective(proposals[p].targets)
    /\ Stamped(proposals[p].targets, timestamp + delay) \cap queuedTransactions = {}
    /\ QueueTransactions(proposals[p].targets, timestamp + delay)
    /\ proposals' = [proposals EXCEPT ![p].eta = timestamp + delay]
    /\ queuedAt' = [queuedAt EXCEPT ![p] = timestamp]
    /\ UNCHANGED <<voteVars, guardian, latestProposalIds>>

Execute(p) ==
    /\ StateIs(p, "Queued")
    /\ ExecuteTransactions(proposals[p].targets, proposals[p].eta)
    /\ proposals' = [proposals EXCEPT ![p].executed = TRUE]
    /\ UNCHANGED <<voteVars, guardian, latestProposalIds, queuedAt>>

(* Mistake: an executed proposal can be cancelled. *)
CancelExecuted(p) ==
    /\ guardian
    /\ proposals' = [proposals EXCEPT ![p].canceled = TRUE]
    /\ CancelTransactions(proposals[p].targets, proposals[p].eta)
    /\ UNCHANGED <<voteVars, guardian, latestProposalIds, queuedAt>>

(* By the guardian, or by anybody once the proposer has lost his votes.    *)
Cancel(p) ==
    /\ ~StateReverts(p)
    /\ State(p) # "Executed"
    /\ guardian \/ votesAt[block - 1][proposals[p].proposer] < proposalThreshold
    /\ proposals' = [proposals EXCEPT ![p].canceled = TRUE]
    /\ CancelTransactions(proposals[p].targets, proposals[p].eta)
    /\ UNCHANGED <<voteVars, guardian, latestProposalIds, queuedAt>>

Abdicate ==
    /\ guardian
    /\ guardian' = FALSE
    /\ UNCHANGED <<voteVars, timelockVars, proposals, latestProposalIds, queuedAt>>

(***************************************************************************)
(* The surroundings: PENDLE and the chain.                                 *)
(***************************************************************************)
MoveVote(from, to) ==
    /\ from # to
    /\ votes[from] > 0
    /\ votes' = [votes EXCEPT ![from] = @ - 1, ![to] = @ + 1]
    /\ UNCHANGED <<block, timestamp, votesAt, timelockVars, guardian, proposals,
                   latestProposalIds, queuedAt>>

(* Blocks whose votes can still be asked for. *)
Remembered == {block} \cup {proposals[p].startBlock : p \in ProposalId}

NextBlock(seconds) ==
    /\ block < MaxBlock
    /\ block' = block + 1
    /\ timestamp' = timestamp + seconds
    /\ votesAt' = [b \in {c \in Remembered : c <= block} |->
                      IF b = block THEN votes ELSE votesAt[b]]
    /\ UNCHANGED <<votes, timelockVars, guardian, proposals, latestProposalIds, queuedAt>>

Next ==
    \/ \E u \in User : \E targets \in Lists : Propose(u, targets)
    \/ \E u \in User, p \in ProposalId, support \in BOOLEAN : CastVote(u, p, support)
    \/ \E p \in ProposalId : Queue(p)
    \/ \E p \in ProposalId : Execute(p)
    \/ \E p \in ProposalId : Cancel(p)
    \/ Abdicate
    \/ \E from, to \in User : MoveVote(from, to)
    \/ \E seconds \in BlockTime : NextBlock(seconds)

Spec == Init /\ [][Next]_vars

(***************************************************************************)
(* Properties.                                                             *)
(***************************************************************************)
Proposal ==
    [proposer : User, eta : Nat, targets : Lists,
     startBlock : Nat, endBlock : Nat, forVotes : Nat, againstVotes : Nat,
     canceled : BOOLEAN, executed : BOOLEAN,
     receipts : [User -> {"none", "for", "against"}]]

TypeOK ==
    /\ block \in Nat /\ timestamp \in Nat
    /\ delay \in MINIMUM_DELAY..MAXIMUM_DELAY
    /\ queuedTransactions \subseteq Action \X Nat
    /\ votes \in [User -> Nat]
    /\ DOMAIN votesAt \subseteq 0..(block - 1)
    /\ \A b \in DOMAIN votesAt : votesAt[b] \in [User -> Nat]
    /\ guardian \in BOOLEAN
    /\ proposals \in Seq(Proposal)
    /\ latestProposalIds \in [User -> 0..Len(proposals)]

(* A vote counts once: however the votes move between users while a        *)
(* proposal is voted on, no more are counted than there are.               *)
NoVoteTwice ==
    \A p \in ProposalId : proposals[p].forVotes + proposals[p].againstVotes <= Supply

(* What is executed was wanted by more than wanted it not, and by a        *)
(* quorum, its voting was over, and since it was queued at least the       *)
(* minimum delay has passed, even if the delay was changed meanwhile.      *)
ExecutedAsDecided ==
    [][ \A p \in ProposalId : proposals'[p].executed /\ ~proposals[p].executed =>
            /\ proposals[p].forVotes > proposals[p].againstVotes
            /\ proposals[p].forVotes >= quorumVotes
            /\ block > proposals[p].endBlock
            /\ queuedAt[p] > 0 /\ timestamp >= queuedAt[p] + MINIMUM_DELAY ]_vars

(* How a proposal may go on.  Anything but an executed one may be          *)
(* cancelled; no state is entered again, and none is entered past its      *)
(* time: what expired is not executed, what was defeated not queued.       *)
MayFollow ==
    {<<"Pending", "Active">>, <<"Active", "Defeated">>, <<"Active", "Succeeded">>,
     <<"Succeeded", "Queued">>, <<"Queued", "Expired">>, <<"Queued", "Executed">>}
      \cup {"Pending", "Active", "Defeated", "Succeeded", "Queued", "Expired"} \X {"Canceled"}

LifeCycle ==
    [][ \A p \in ProposalId :
            State(p)' = State(p) \/ <<State(p), State(p)'>> \in MayFollow ]_vars

(* An executed proposal leaves nothing in the queue that could be executed *)
(* again, and what is queued belongs to a proposal that was not executed.  *)
QueueHasOwners ==
    /\ TypeOK
    /\ \A t \in queuedTransactions :
        \E p \in ProposalId : /\ t \in Stamped(proposals[p].targets, proposals[p].eta)
                              /\ State(p) \in {"Queued", "Expired"}

(* "eta; // The timestamp that the proposal will be available for          *)
(* execution" (PendleGovernance.sol:97).  state() asks the timelock for    *)
(* gracePeriod(), and Timelock.sol has only GRACE_PERIOD: the call reverts *)
(* for every queued proposal, and with it execute, cancel and propose.     *)
AvailableAtEta ==
    \A p \in ProposalId :
        /\ State(p) = "Queued"
        /\ timestamp >= proposals[p].eta
        /\ Stamped(proposals[p].targets, proposals[p].eta) \subseteq queuedTransactions
        => ENABLED Execute(p)
=============================================================================
