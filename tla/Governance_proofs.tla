------------------------- MODULE Governance_proofs -------------------------
(***************************************************************************)
(* Proofs about Governance and about the token whose votes it counts.      *)
(*                                                                         *)
(* Governance: what a proposal carries with it through the clocks (the     *)
(* inductive invariant IInv), and from it that proposals only move         *)
(* forwards, that what is executed was decided, and that whatever the      *)
(* timelock holds belongs to a proposal that waits; that the votes counted *)
(* are those of the receipts, and no more than there are (VInv).           *)
(*                                                                         *)
(* PENDLE: its books agree (TokenInv), every week is minted under the      *)
(* settings it began with (WeeksInv), and its checkpoints and their binary *)
(* search are a page of the votes for every block (RecordInv).             *)
(***************************************************************************)
EXTENDS MCVoting, Sums, SequenceTheorems

-----------------------------------------------------------------------------
(* What the fields of proposal p say of each other and of the clocks. *)
Scheduled(p) ==
    /\ proposals[p].endBlock = proposals[p].startBlock + votingPeriod
    /\ proposals[p].startBlock < block => proposals[p].startBlock \in DOMAIN votesAt
    /\ proposals[p].executed => proposals[p].eta # 0

Decided(p) ==
    proposals[p].eta # 0 =>
        /\ Won(p)
        /\ block > proposals[p].endBlock
        /\ queuedAt[p] > 0
        /\ proposals[p].eta >= queuedAt[p] + MINIMUM_DELAY

ClocksOK ==
    /\ block >= 1 /\ timestamp >= 1
    /\ block - 1 \in DOMAIN votesAt
    /\ Len(proposals) <= MaxProposals
    /\ queuedAt \in [1..MaxProposals -> Nat]

IInv ==
    /\ TypeOK
    /\ ClocksOK
    /\ \A p \in ProposalId : Scheduled(p) /\ Decided(p)

-----------------------------------------------------------------------------
(* A proposal is read by its id. *)
LEMMA ProposalFields ==
    ASSUME TypeOK, NEW p \in ProposalId
    PROVE  proposals[p] \in Proposal
BY DEF TypeOK, ProposalId

(* A write to one proposal leaves the others, and the number of them.      *)
LEMMA WriteOne ==
    ASSUME TypeOK, NEW p \in ProposalId, NEW r \in Proposal,
           proposals' = [proposals EXCEPT ![p] = r]
    PROVE  /\ Len(proposals') = Len(proposals)
           /\ proposals' \in Seq(Proposal)
           /\ proposals'[p] = r
           /\ \A q \in ProposalId : q # p => proposals'[q] = proposals[q]
BY DEF TypeOK, ProposalId

-----------------------------------------------------------------------------
LEMMA InitInv == Init => IInv
<1> SUFFICES ASSUME Init PROVE IInv
  OBVIOUS
<1> USE VoteAssumption, BlockAssumption, PeriodAssumption
<1>1. proposals = <<>> /\ Len(proposals) = 0 /\ ProposalId = {}
  BY DEF Init, ProposalId
<1>2. TypeOK
  BY <1>1 DEF Init, TimelockInit, TypeOK
<1>3. ClocksOK
  BY <1>1 DEF Init, TimelockInit, ClocksOK
<1> QED BY <1>1, <1>2, <1>3 DEF IInv

(* A new proposal takes the next id and begins in the future. *)
LEMMA ProposeInv ==
    ASSUME IInv, NEW u \in User, NEW targets \in Lists, Propose(u, targets)
    PROVE  IInv'
<1> USE BlockAssumption, VoteAssumption
<1> DEFINE new == NewProposal(u, targets)
<1>1. new \in Proposal
  BY DEF IInv, TypeOK, NewProposal, Proposal
<1>2. /\ proposals' \in Seq(Proposal)
      /\ Len(proposals') = Len(proposals) + 1
      /\ proposals'[Len(proposals) + 1] = new
      /\ \A q \in ProposalId : proposals'[q] = proposals[q]
  <2> HIDE DEF new
  <2> QED BY <1>1 DEF IInv, TypeOK, Propose, ProposalId, new
<1>3. TypeOK'
  BY <1>2 DEF IInv, TypeOK, Propose, voteVars, timelockVars
<1>4. ClocksOK'
  BY <1>2 DEF IInv, TypeOK, ClocksOK, Propose, voteVars
<1>5. ASSUME NEW q \in ProposalId'
      PROVE  (Scheduled(q) /\ Decided(q))'
  <2>1. CASE q \in ProposalId
    BY <1>2, <2>1 DEF IInv, Scheduled, Decided, Won, Propose, voteVars
  <2>2. CASE q = Len(proposals) + 1
    BY <1>2, <2>2, SMTT(60) DEF IInv, TypeOK, Scheduled, Decided, Propose, voteVars, NewProposal
  <2> QED BY <1>2, <1>5, <2>1, <2>2 DEF ProposalId, IInv, TypeOK
<1> QED BY <1>3, <1>4, <1>5 DEF IInv

(* Votes that are cast change the tally of a proposal whose eta is 0. *)
LEMMA CastVoteInv ==
    ASSUME IInv, NEW u \in User, NEW p \in ProposalId, NEW support \in BOOLEAN,
           CastVote(u, p, support)
    PROVE  IInv'
<1> DEFINE cast == votesAt[proposals[p].startBlock][u]
           r == IF support
                THEN [proposals[p] EXCEPT !.receipts[u] = "for", !.forVotes = @ + cast]
                ELSE [proposals[p] EXCEPT !.receipts[u] = "against", !.againstVotes = @ + cast]
<1>1. proposals[p] \in Proposal /\ p \in DOMAIN proposals
  BY ProposalFields DEF IInv, TypeOK, ProposalId
<1>2. /\ ~proposals[p].canceled /\ block > proposals[p].startBlock
      /\ block <= proposals[p].endBlock
  BY <1>1 DEF CastVote, StateIs, State, Proposal, IInv, TypeOK
<1>3. cast \in Nat
  BY <1>1, <1>2 DEF IInv, TypeOK, Scheduled
<1>4. r \in Proposal
  <2>1. \A x \in {"for", "against"} :
          [proposals[p].receipts EXCEPT ![u] = x] \in [User -> {"none", "for", "against"}]
    BY <1>1 DEF Proposal
  <2>2. proposals[p].forVotes + cast \in Nat /\ proposals[p].againstVotes + cast \in Nat
    BY <1>1, <1>3 DEF Proposal
  <2> HIDE DEF cast
  <2> QED BY <1>1, <2>1, <2>2 DEF Proposal
<1>5. proposals' = [proposals EXCEPT ![p] = r]
  BY <1>1 DEF CastVote, Proposal
<1>6. /\ r.startBlock = proposals[p].startBlock /\ r.endBlock = proposals[p].endBlock
      /\ r.eta = proposals[p].eta /\ r.executed = proposals[p].executed
  BY <1>1 DEF Proposal
<1> HIDE DEF r
<1>7. /\ Len(proposals') = Len(proposals) /\ proposals' \in Seq(Proposal)
      /\ proposals'[p] = r
      /\ \A q \in ProposalId : q # p => proposals'[q] = proposals[q]
  BY <1>4, <1>5, WriteOne DEF IInv
<1>8. TypeOK' /\ ClocksOK' /\ ProposalId' = ProposalId
  BY <1>7 DEF IInv, TypeOK, ClocksOK, CastVote, voteVars, timelockVars, ProposalId
<1>9. proposals[p].eta = 0
  <2>1. Decided(p) /\ block \in Nat /\ proposals[p].endBlock \in Nat
    BY <1>1 DEF IInv, TypeOK, Proposal
  <2> QED BY <1>2, <2>1 DEF Decided
<1>10. ASSUME NEW q \in ProposalId PROVE (Scheduled(q) /\ Decided(q))'
  <2>1. CASE q = p
    BY <1>6, <1>7, <1>9, <2>1 DEF IInv, Scheduled, Decided, CastVote, voteVars
  <2>2. CASE q # p
    BY <1>7, <2>2 DEF IInv, Scheduled, Decided, Won, CastVote, voteVars
  <2> QED BY <2>1, <2>2
<1> QED BY <1>8, <1>10 DEF IInv

(* Stamped transactions are transactions. *)
LEMMA StampedType ==
    ASSUME NEW targets \in Lists, NEW eta \in Nat
    PROVE  Stamped(targets, eta) \subseteq Action \X Nat
<1>1. PICK n \in OperationsPerProposal : targets \in [1..n -> Action]
  BY DEF Lists
<1>2. Range(targets) \subseteq Action
  BY <1>1 DEF Range
<1> QED BY <1>2 DEF Stamped

(* Queueing: the eta is past the current time by the delay, thus by its    *)
(* lower bound, and the proposal has won.                                  *)
LEMMA QueueInv ==
    ASSUME IInv, NEW p \in ProposalId, Queue(p)
    PROVE  IInv'
<1> USE PeriodAssumption
<1> DEFINE r == [proposals[p] EXCEPT !.eta = timestamp + delay]
<1>1. proposals[p] \in Proposal /\ p \in DOMAIN proposals
  BY ProposalFields DEF IInv, TypeOK, ProposalId
<1>2. Won(p) /\ block > proposals[p].endBlock
  BY <1>1 DEF Queue, StateIs, State, Proposal, IInv, TypeOK
<1>3. /\ timestamp \in Nat /\ timestamp > 0 /\ delay \in Nat /\ delay >= MINIMUM_DELAY
      /\ timestamp + delay \in Nat /\ timestamp + delay # 0
  BY DEF IInv, TypeOK, ClocksOK
<1>4. r \in Proposal
  BY <1>1, <1>3 DEF Proposal
<1>5. proposals' = [proposals EXCEPT ![p] = r]
  BY <1>1 DEF Queue, Proposal
<1>6. /\ r.startBlock = proposals[p].startBlock /\ r.endBlock = proposals[p].endBlock
      /\ r.eta = timestamp + delay /\ r.executed = proposals[p].executed
      /\ r.forVotes = proposals[p].forVotes /\ r.againstVotes = proposals[p].againstVotes
  BY <1>1 DEF Proposal
<1> HIDE DEF r
<1>7. /\ Len(proposals') = Len(proposals) /\ proposals' \in Seq(Proposal)
      /\ proposals'[p] = r
      /\ \A q \in ProposalId : q # p => proposals'[q] = proposals[q]
  BY <1>4, <1>5, WriteOne DEF IInv
<1>8. TypeOK'
  <2>1. queuedTransactions' \subseteq Action \X Nat
    <3>1. Stamped(proposals[p].targets, timestamp + delay) \subseteq Action \X Nat
      BY <1>1, <1>3, StampedType DEF Proposal
    <3> QED BY <3>1 DEF Queue, QueueTransactions, IInv, TypeOK
  <2> QED BY <1>7, <2>1 DEF IInv, TypeOK, Queue, QueueTransactions, voteVars
<1>9. /\ queuedAt' \in [1..MaxProposals -> Nat] /\ queuedAt'[p] = timestamp
      /\ \A q \in ProposalId : q # p => queuedAt'[q] = queuedAt[q]
  BY <1>3, BlockAssumption, SMTT(60) DEF IInv, TypeOK, ClocksOK, ProposalId, Queue
<1>10. ClocksOK' /\ ProposalId' = ProposalId
  BY <1>7, <1>9 DEF IInv, ClocksOK, Queue, voteVars, ProposalId
<1>11. ASSUME NEW q \in ProposalId PROVE (Scheduled(q) /\ Decided(q))'
  <2>1. CASE q = p
    <3>1. Scheduled(q)'
      BY <1>3, <1>6, <1>7, <2>1 DEF IInv, Scheduled, Queue, voteVars
    <3>2. Decided(q)'
      BY <1>2, <1>3, <1>6, <1>7, <1>9, <2>1 DEF Decided, Won, Queue, voteVars
    <3> QED BY <3>1, <3>2
  <2>2. CASE q # p
    BY <1>7, <1>9, <2>2 DEF IInv, Scheduled, Decided, Won, Queue, voteVars
  <2> QED BY <2>1, <2>2
<1> QED BY <1>8, <1>10, <1>11 DEF IInv

(* What is executed was queued; the delay that its actions may set is      *)
(* within the bounds.                                                      *)
LEMMA ExecuteInv ==
    ASSUME IInv, NEW p \in ProposalId, Execute(p)
    PROVE  IInv'
<1> DEFINE r == [proposals[p] EXCEPT !.executed = TRUE]
<1>1. proposals[p] \in Proposal /\ p \in DOMAIN proposals
  BY ProposalFields DEF IInv, TypeOK, ProposalId
<1>2. proposals[p].eta # 0
  BY <1>1 DEF Execute, StateIs, State
<1>3. r \in Proposal
  BY <1>1 DEF Proposal
<1>4. proposals' = [proposals EXCEPT ![p] = r]
  BY <1>1 DEF Execute, Proposal
<1>5. /\ r.startBlock = proposals[p].startBlock /\ r.endBlock = proposals[p].endBlock
      /\ r.eta = proposals[p].eta
      /\ r.forVotes = proposals[p].forVotes /\ r.againstVotes = proposals[p].againstVotes
  BY <1>1 DEF Proposal
<1> HIDE DEF r
<1>6. /\ Len(proposals') = Len(proposals) /\ proposals' \in Seq(Proposal)
      /\ proposals'[p] = r
      /\ \A q \in ProposalId : q # p => proposals'[q] = proposals[q]
  BY <1>3, <1>4, WriteOne DEF IInv
<1>7. delay' \in MINIMUM_DELAY..MAXIMUM_DELAY
  BY DEF IInv, TypeOK, Execute, ExecuteTransactions, RunActions, DelayAccepted
<1>8. TypeOK' /\ ClocksOK' /\ ProposalId' = ProposalId
  BY <1>6, <1>7 DEF IInv, TypeOK, ClocksOK, Execute, ExecuteTransactions, voteVars, ProposalId
<1>9. ASSUME NEW q \in ProposalId PROVE (Scheduled(q) /\ Decided(q))'
  <2>1. CASE q = p
    BY <1>2, <1>5, <1>6, <2>1 DEF IInv, Scheduled, Decided, Won, Execute, voteVars
  <2>2. CASE q # p
    BY <1>6, <2>2 DEF IInv, Scheduled, Decided, Won, Execute, voteVars
  <2> QED BY <2>1, <2>2
<1> QED BY <1>8, <1>9 DEF IInv

LEMMA CancelInv ==
    ASSUME IInv, NEW p \in ProposalId, Cancel(p)
    PROVE  IInv'
<1> DEFINE r == [proposals[p] EXCEPT !.canceled = TRUE]
<1>1. proposals[p] \in Proposal /\ p \in DOMAIN proposals
  BY ProposalFields DEF IInv, TypeOK, ProposalId
<1>2. r \in Proposal
  BY <1>1 DEF Proposal
<1>3. proposals' = [proposals EXCEPT ![p] = r]
  BY <1>1 DEF Cancel, Proposal
<1>4. /\ r.startBlock = proposals[p].startBlock /\ r.endBlock = proposals[p].endBlock
      /\ r.eta = proposals[p].eta /\ r.executed = proposals[p].executed
      /\ r.forVotes = proposals[p].forVotes /\ r.againstVotes = proposals[p].againstVotes
  BY <1>1 DEF Proposal
<1> HIDE DEF r
<1>5. /\ Len(proposals') = Len(proposals) /\ proposals' \in Seq(Proposal)
      /\ proposals'[p] = r
      /\ \A q \in ProposalId : q # p => proposals'[q] = proposals[q]
  BY <1>2, <1>3, WriteOne DEF IInv
<1>6. TypeOK' /\ ClocksOK' /\ ProposalId' = ProposalId
  BY <1>5 DEF IInv, TypeOK, ClocksOK, Cancel, CancelTransactions, voteVars, ProposalId
<1>7. ASSUME NEW q \in ProposalId PROVE (Scheduled(q) /\ Decided(q))'
  <2>1. CASE q = p
    BY <1>4, <1>5, <2>1 DEF IInv, Scheduled, Decided, Won, Cancel, voteVars
  <2>2. CASE q # p
    BY <1>5, <2>2 DEF IInv, Scheduled, Decided, Won, Cancel, voteVars
  <2> QED BY <2>1, <2>2
<1> QED BY <1>6, <1>7 DEF IInv

(* The clocks move on; the votes of the blocks that proposals began at are *)
(* kept.                                                                   *)
LEMMA NextBlockInv ==
    ASSUME IInv, NEW seconds \in BlockTime, NextBlock(seconds)
    PROVE  IInv'
<1> USE BlockAssumption
<1>1. seconds \in Nat /\ block \in Nat /\ timestamp \in Nat /\ block >= 1
  BY DEF IInv, TypeOK, ClocksOK
<1>2. proposals' = proposals /\ ProposalId' = ProposalId /\ queuedAt' = queuedAt
  BY DEF NextBlock, ProposalId
<1>3. DOMAIN votesAt' = {c \in Remembered : c <= block}
  BY DEF NextBlock
<1>4. ASSUME NEW q \in ProposalId PROVE Scheduled(q)'
  <2>1. proposals[q].startBlock \in Nat
    BY ProposalFields DEF IInv, Proposal
  <2>2. proposals[q].startBlock \in Remembered
    BY DEF Remembered
  <2> QED BY <1>1, <1>2, <1>3, <2>1, <2>2 DEF IInv, Scheduled, NextBlock
<1>5. ASSUME NEW q \in ProposalId PROVE Decided(q)'
  <2>1. proposals[q].endBlock \in Nat
    BY ProposalFields DEF IInv, Proposal
  <2> QED BY <1>1, <1>2, <2>1 DEF IInv, Decided, Won, NextBlock
<1>6. Remembered \subseteq Nat
  BY <1>1, ProposalFields DEF Remembered, IInv, Proposal
<1>7. \A b \in DOMAIN votesAt' : votesAt'[b] \in [User -> Nat]
  <2> SUFFICES ASSUME NEW b \in DOMAIN votesAt'
               PROVE  votesAt'[b] \in [User -> Nat]
    OBVIOUS
  <2>1. CASE b = block
    BY <1>3, <2>1 DEF NextBlock, IInv, TypeOK
  <2>2. CASE b # block
    <3>1. b \in DOMAIN votesAt
      <4>1. PICK q \in ProposalId : b = proposals[q].startBlock
        BY <1>3, <2>2 DEF Remembered
      <4>2. b \in Nat /\ b <= block
        BY <1>3, <1>6
      <4>3. b < block
        BY <1>1, <2>2, <4>2
      <4> QED BY <4>1, <4>3 DEF IInv, Scheduled
    <3>2. votesAt'[b] = votesAt[b]
      BY <1>3, <2>2 DEF NextBlock
    <3> QED BY <3>1, <3>2 DEF IInv, TypeOK
  <2> QED BY <2>1, <2>2
<1>8. TypeOK'
  <2>1. DOMAIN votesAt' \subseteq Nat
    BY <1>3, <1>6
  <2>2. \A b \in DOMAIN votesAt' : b <= block
    BY <1>3
  <2>3. DOMAIN votesAt' \subseteq 0..(block' - 1)
    BY <1>1, <2>1, <2>2 DEF NextBlock
  <2> QED BY <1>1, <1>2, <1>7, <2>3 DEF IInv, TypeOK, NextBlock, timelockVars
<1>9. ClocksOK'
  BY <1>1, <1>2, <1>3 DEF IInv, ClocksOK, NextBlock, Remembered
<1> QED BY <1>2, <1>4, <1>5, <1>8, <1>9 DEF IInv

LEMMA NextInv == IInv /\ [Next]_vars => IInv'
<1> SUFFICES ASSUME IInv, [Next]_vars PROVE IInv'
  OBVIOUS
<1>1. ASSUME NEW u \in User, NEW targets \in Lists, Propose(u, targets) PROVE IInv'
  BY <1>1, ProposeInv
<1>2. ASSUME NEW u \in User, NEW p \in ProposalId, NEW support \in BOOLEAN,
             CastVote(u, p, support)
      PROVE  IInv'
  BY <1>2, CastVoteInv
<1>3. ASSUME NEW p \in ProposalId, Queue(p) PROVE IInv'
  BY <1>3, QueueInv
<1>4. ASSUME NEW p \in ProposalId, Execute(p) PROVE IInv'
  BY <1>4, ExecuteInv
<1>5. ASSUME NEW p \in ProposalId, Cancel(p) PROVE IInv'
  BY <1>5, CancelInv
<1>6. CASE Abdicate
  BY <1>6 DEF IInv, TypeOK, ClocksOK, Scheduled, Decided, Won, ProposalId, Abdicate,
              voteVars, timelockVars
<1>7. ASSUME NEW from \in User, NEW to \in User, MoveVote(from, to) PROVE IInv'
  <2>1. votes' \in [User -> Nat]
    BY <1>7 DEF MoveVote, IInv, TypeOK
  <2> QED BY <1>7, <2>1 DEF IInv, TypeOK, ClocksOK, Scheduled, Decided, Won, ProposalId,
                            MoveVote, timelockVars
<1>8. ASSUME NEW seconds \in BlockTime, NextBlock(seconds) PROVE IInv'
  BY <1>8, NextBlockInv
<1>9. CASE UNCHANGED vars
  BY <1>9 DEF vars, IInv, TypeOK, ClocksOK, Scheduled, Decided, Won, ProposalId,
              voteVars, timelockVars
<1> QED BY <1>1, <1>2, <1>3, <1>4, <1>5, <1>6, <1>7, <1>8, <1>9 DEF Next

(* Type correctness, and the rest of the inductive invariant. *)
THEOREM GovernanceTypeOK == Spec => []TypeOK
<1>1. IInv => TypeOK
  BY DEF IInv
<1> QED BY InitInv, NextInv, <1>1, PTL DEF Spec

-----------------------------------------------------------------------------
(* The state of a proposal that an operation does not write changes only   *)
(* with the clocks.                                                        *)
LEMMA StateKept ==
    ASSUME NEW q \in ProposalId, proposals'[q] = proposals[q],
           UNCHANGED <<block, timestamp>>
    PROVE  State(q)' = State(q)
BY DEF State, Won, Late

(* What each operation does to the state of a proposal. *)
LEMMA CastVoteKeeps ==
    ASSUME IInv, NEW u \in User, NEW p \in ProposalId, NEW support \in BOOLEAN,
           CastVote(u, p, support), NEW q \in ProposalId
    PROVE  State(q)' = State(q)
<1>1. proposals[p] \in Proposal /\ p \in DOMAIN proposals
  BY ProposalFields DEF IInv, TypeOK, ProposalId
<1>2. UNCHANGED <<block, timestamp>>
  BY DEF CastVote, voteVars
<1>3. CASE q # p
  <2>1. proposals'[q] = proposals[q]
    BY <1>1, <1>3 DEF CastVote, ProposalId
  <2> QED BY <1>2, <2>1, StateKept
<1>4. CASE q = p
  <2>1. /\ proposals'[p].canceled = proposals[p].canceled
        /\ proposals'[p].startBlock = proposals[p].startBlock
        /\ proposals'[p].endBlock = proposals[p].endBlock
    BY <1>1 DEF CastVote, Proposal
  <2>2. State(p) = "Active"
    BY DEF CastVote, StateIs
  <2>3. ~proposals[p].canceled /\ ~(block <= proposals[p].startBlock)
        /\ block <= proposals[p].endBlock
    BY <2>2 DEF State
  <2>4. State(p)' = "Active"
    BY <1>2, <2>1, <2>3 DEF State
  <2> QED BY <1>4, <2>2, <2>4
<1> QED BY <1>3, <1>4

LEMMA QueueQueues ==
    ASSUME IInv, NEW p \in ProposalId, Queue(p)
    PROVE  /\ State(p) = "Succeeded" /\ State(p)' = "Queued"
           /\ proposals'[p].targets = proposals[p].targets
           /\ proposals'[p].eta = timestamp + delay
           /\ \A q \in ProposalId : q # p => proposals'[q] = proposals[q] /\ State(q)' = State(q)
<1>1. proposals[p] \in Proposal /\ p \in DOMAIN proposals
  BY ProposalFields DEF IInv, TypeOK, ProposalId
<1>2. UNCHANGED <<block, timestamp>>
  BY DEF Queue, voteVars
<1>3. /\ timestamp \in Nat /\ timestamp > 0 /\ delay \in Nat
      /\ timestamp + delay # 0 /\ ~(timestamp >= timestamp + delay + GRACE_PERIOD)
  BY PeriodAssumption DEF IInv, TypeOK, ClocksOK
<1>4. /\ proposals'[p].canceled = proposals[p].canceled
      /\ proposals'[p].startBlock = proposals[p].startBlock
      /\ proposals'[p].endBlock = proposals[p].endBlock
      /\ proposals'[p].forVotes = proposals[p].forVotes
      /\ proposals'[p].againstVotes = proposals[p].againstVotes
      /\ proposals'[p].executed = proposals[p].executed
      /\ proposals'[p].eta = timestamp + delay
      /\ proposals'[p].targets = proposals[p].targets
  BY <1>1 DEF Queue, Proposal
<1>5. State(p) = "Succeeded"
  BY DEF Queue, StateIs
<1>6. /\ ~proposals[p].canceled /\ ~(block <= proposals[p].startBlock)
      /\ ~(block <= proposals[p].endBlock) /\ Won(p) /\ proposals[p].eta = 0
  BY <1>5 DEF State
<1>7. ~proposals[p].executed
  BY <1>6 DEF IInv, Scheduled
<1>8. ~Late(p)' /\ Won(p)'
  BY <1>2, <1>3, <1>4, <1>6 DEF Late, Won
<1>9. State(p)' = "Queued"
  BY <1>2, <1>3, <1>4, <1>6, <1>7, <1>8 DEF State
<1>10. ASSUME NEW q \in ProposalId, q # p
       PROVE  proposals'[q] = proposals[q] /\ State(q)' = State(q)
  BY <1>1, <1>2, <1>10, StateKept DEF Queue
<1> QED BY <1>4, <1>5, <1>9, <1>10

LEMMA ExecuteExecutes ==
    ASSUME IInv, NEW p \in ProposalId, Execute(p)
    PROVE  /\ State(p) = "Queued" /\ State(p)' = "Executed"
           /\ \A q \in ProposalId : q # p => proposals'[q] = proposals[q] /\ State(q)' = State(q)
<1>1. proposals[p] \in Proposal /\ p \in DOMAIN proposals
  BY ProposalFields DEF IInv, TypeOK, ProposalId
<1>2. UNCHANGED <<block, timestamp>>
  BY DEF Execute, voteVars
<1>3. /\ proposals'[p].canceled = proposals[p].canceled
      /\ proposals'[p].startBlock = proposals[p].startBlock
      /\ proposals'[p].endBlock = proposals[p].endBlock
      /\ proposals'[p].forVotes = proposals[p].forVotes
      /\ proposals'[p].againstVotes = proposals[p].againstVotes
      /\ proposals'[p].eta = proposals[p].eta
      /\ proposals'[p].executed
  BY <1>1 DEF Execute, Proposal
<1>4. State(p) = "Queued"
  BY DEF Execute, StateIs
<1>5. /\ ~proposals[p].canceled /\ ~(block <= proposals[p].startBlock)
      /\ ~(block <= proposals[p].endBlock) /\ Won(p) /\ proposals[p].eta # 0
  BY <1>4 DEF State
<1>6. State(p)' = "Executed"
  BY <1>2, <1>3, <1>5 DEF State, Won
<1>7. ASSUME NEW q \in ProposalId, q # p
      PROVE  proposals'[q] = proposals[q] /\ State(q)' = State(q)
  BY <1>1, <1>2, <1>7, StateKept DEF Execute
<1> QED BY <1>4, <1>6, <1>7

LEMMA CancelCancels ==
    ASSUME IInv, NEW p \in ProposalId, Cancel(p)
    PROVE  /\ State(p) # "Executed" /\ State(p)' = "Canceled"
           /\ \A q \in ProposalId : q # p => proposals'[q] = proposals[q] /\ State(q)' = State(q)
<1>1. proposals[p] \in Proposal /\ p \in DOMAIN proposals
  BY ProposalFields DEF IInv, TypeOK, ProposalId
<1>2. UNCHANGED <<block, timestamp>>
  BY DEF Cancel, voteVars
<1>3. proposals'[p].canceled
  BY <1>1 DEF Cancel, Proposal
<1>4. State(p)' = "Canceled"
  BY <1>3 DEF State
<1>5. State(p) # "Executed"
  BY DEF Cancel
<1>6. ASSUME NEW q \in ProposalId, q # p
      PROVE  proposals'[q] = proposals[q] /\ State(q)' = State(q)
  BY <1>1, <1>2, <1>6, StateKept DEF Cancel
<1> QED BY <1>4, <1>5, <1>6

(* Time makes a proposal active, decides its vote, and lets it expire. *)
LEMMA NextBlockAges ==
    ASSUME IInv, NEW seconds \in BlockTime, NextBlock(seconds), NEW q \in ProposalId
    PROVE  \/ State(q)' = State(q)
           \/ <<State(q), State(q)'>> \in
                 {<<"Pending", "Active">>, <<"Active", "Defeated">>,
                  <<"Active", "Succeeded">>, <<"Queued", "Expired">>}
<1> USE BlockAssumption, PeriodAssumption
<1>1. proposals[q] \in Proposal
  BY ProposalFields DEF IInv
<1>2. /\ proposals' = proposals /\ block' = block + 1 /\ timestamp' = timestamp + seconds
      /\ block \in Nat /\ timestamp \in Nat /\ seconds \in Nat
  BY DEF NextBlock, IInv, TypeOK
<1>3. /\ proposals[q].startBlock \in Nat /\ proposals[q].eta \in Nat
      /\ proposals[q].endBlock = proposals[q].startBlock + votingPeriod
      /\ proposals[q].eta # 0 => block > proposals[q].endBlock
  BY <1>1 DEF IInv, Scheduled, Decided, Proposal
<1>4. Won(q)' = Won(q)
  BY <1>2 DEF Won
<1>5. Late(q) => Late(q)'
  BY <1>2, <1>3 DEF Late
<1>6. CASE proposals[q].canceled
  BY <1>2, <1>6 DEF State
<1>7. CASE ~proposals[q].canceled /\ block <= proposals[q].startBlock
  <2>1. State(q) = "Pending"
    BY <1>7 DEF State
  <2>2. block + 1 <= proposals[q].endBlock
    BY <1>2, <1>3, <1>7
  <2>3. State(q)' \in {"Pending", "Active"}
    BY <1>2, <1>7, <2>2 DEF State
  <2> QED BY <2>1, <2>3
<1>8. CASE ~proposals[q].canceled /\ ~(block <= proposals[q].startBlock)
           /\ block <= proposals[q].endBlock
  <2>1. State(q) = "Active"
    BY <1>8 DEF State
  <2>2. proposals[q].eta = 0
    BY <1>2, <1>3, <1>8
  <2>3. ~(block + 1 <= proposals[q].startBlock)
    BY <1>2, <1>3, <1>8
  <2>4. State(q)' \in {"Active", "Defeated", "Succeeded"}
    BY <1>2, <1>8, <2>2, <2>3 DEF State
  <2> QED BY <2>1, <2>4
<1>9. CASE ~proposals[q].canceled /\ ~(block <= proposals[q].startBlock)
           /\ ~(block <= proposals[q].endBlock)
  <2>1. ~(block + 1 <= proposals[q].startBlock) /\ ~(block + 1 <= proposals[q].endBlock)
    BY <1>2, <1>3, <1>9
  <2>2. CASE ~Won(q) \/ proposals[q].eta = 0 \/ proposals[q].executed
    BY <1>2, <1>4, <1>9, <2>1, <2>2 DEF State
  <2>3. CASE Won(q) /\ proposals[q].eta # 0 /\ ~proposals[q].executed
    <3>1. State(q) = IF Late(q) THEN "Expired" ELSE "Queued"
      BY <1>9, <2>3 DEF State
    <3>2. State(q)' = IF Late(q)' THEN "Expired" ELSE "Queued"
      BY <1>2, <1>4, <1>9, <2>1, <2>3 DEF State
    <3> QED BY <1>5, <3>1, <3>2
  <2> QED BY <2>2, <2>3
<1> QED BY <1>6, <1>7, <1>8, <1>9

-----------------------------------------------------------------------------
(* The life of a proposal: pending, active, decided, queued, executed or   *)
(* expired, and cancelled at any time before it is executed.               *)
LEMMA StateRange == \A p \in ProposalId :
    State(p) \in {"Canceled", "Pending", "Active", "Defeated", "Succeeded", "Executed",
                  "Expired", "Queued"}
BY DEF State

LEMMA NextFollows ==
    ASSUME IInv, [Next]_vars, NEW q \in ProposalId
    PROVE  State(q)' = State(q) \/ <<State(q), State(q)'>> \in MayFollow
<1>1. ASSUME NEW u \in User, NEW targets \in Lists, Propose(u, targets)
      PROVE  State(q)' = State(q)
  <2>1. proposals'[q] = proposals[q]
    BY <1>1 DEF Propose, ProposalId, IInv, TypeOK
  <2> QED BY <1>1, <2>1, StateKept DEF Propose, voteVars
<1>2. ASSUME NEW u \in User, NEW p \in ProposalId, NEW support \in BOOLEAN,
             CastVote(u, p, support)
      PROVE  State(q)' = State(q)
  BY <1>2, CastVoteKeeps
<1>3. ASSUME NEW p \in ProposalId, Queue(p)
      PROVE  State(q)' = State(q) \/ <<State(q), State(q)'>> \in MayFollow
  BY <1>3, QueueQueues DEF MayFollow
<1>4. ASSUME NEW p \in ProposalId, Execute(p)
      PROVE  State(q)' = State(q) \/ <<State(q), State(q)'>> \in MayFollow
  BY <1>4, ExecuteExecutes DEF MayFollow
<1>5. ASSUME NEW p \in ProposalId, Cancel(p)
      PROVE  State(q)' = State(q) \/ <<State(q), State(q)'>> \in MayFollow
  BY <1>5, CancelCancels, StateRange DEF MayFollow
<1>6. CASE Abdicate
  BY <1>6, StateKept DEF Abdicate, voteVars
<1>7. ASSUME NEW from \in User, NEW to \in User, MoveVote(from, to)
      PROVE  State(q)' = State(q)
  BY <1>7, StateKept DEF MoveVote
<1>8. ASSUME NEW seconds \in BlockTime, NextBlock(seconds)
      PROVE  State(q)' = State(q) \/ <<State(q), State(q)'>> \in MayFollow
  BY <1>8, NextBlockAges DEF MayFollow
<1>9. CASE UNCHANGED vars
  BY <1>9, StateKept DEF vars, voteVars
<1> QED BY <1>1, <1>2, <1>3, <1>4, <1>5, <1>6, <1>7, <1>8, <1>9 DEF Next

(* For any votes, periods and clocks, a proposal never returns to a state  *)
(* it has left, and is not queued once defeated, nor executed once expired *)
(* or cancelled (PendleGovernance.sol:357-379).                            *)
THEOREM ProposalsFollowLifeCycle == Spec => LifeCycle
<1>1. IInv /\ [Next]_vars =>
        [\A p \in ProposalId :
            State(p)' = State(p) \/ <<State(p), State(p)'>> \in MayFollow]_vars
  BY NextFollows
<1> QED BY InitInv, NextInv, <1>1, PTL DEF Spec, LifeCycle

-----------------------------------------------------------------------------
(* The record of a proposal that an operation other than its execution     *)
(* writes is not marked as executed by it.                                 *)
LEMMA OnlyExecuteExecutes ==
    ASSUME IInv, [Next]_vars, NEW q \in ProposalId,
           proposals'[q].executed, ~proposals[q].executed
    PROVE  Execute(q)
<1>1. proposals[q] \in Proposal /\ q \in DOMAIN proposals
  BY ProposalFields DEF IInv, TypeOK, ProposalId
<1>2. ASSUME NEW u \in User, NEW targets \in Lists, Propose(u, targets) PROVE FALSE
  BY <1>2 DEF Propose, ProposalId, IInv, TypeOK
<1>3. ASSUME NEW u \in User, NEW p \in ProposalId, NEW support \in BOOLEAN,
             CastVote(u, p, support)
      PROVE  FALSE
  <2>1. proposals[p] \in Proposal /\ p \in DOMAIN proposals
    BY ProposalFields DEF IInv, TypeOK, ProposalId
  <2>2. proposals'[q].executed = proposals[q].executed
    BY <1>1, <1>3, <2>1 DEF CastVote, Proposal
  <2> QED BY <2>2
<1>4. ASSUME NEW p \in ProposalId, Queue(p) PROVE FALSE
  <2>1. proposals'[q].executed = proposals[q].executed
    BY <1>1, <1>4 DEF Queue, Proposal
  <2> QED BY <2>1
<1>5. ASSUME NEW p \in ProposalId, Execute(p) PROVE Execute(q)
  <2>1. CASE q # p
    BY <1>5, <2>1, ExecuteExecutes
  <2> QED BY <1>5, <2>1
<1>6. ASSUME NEW p \in ProposalId, Cancel(p) PROVE FALSE
  <2>1. proposals'[q].executed = proposals[q].executed
    BY <1>1, <1>6 DEF Cancel, Proposal
  <2> QED BY <2>1
<1>7. proposals' # proposals
  OBVIOUS
<1> QED BY <1>2, <1>3, <1>4, <1>5, <1>6, <1>7
        DEF Next, Abdicate, MoveVote, NextBlock, vars

(* For any votes, periods and delays, what is executed was accepted by a   *)
(* quorum, its voting is over, and the minimum delay has passed since it   *)
(* was queued (PendleGovernance.sol:295, Timelock.sol:172).                *)
THEOREM OnlyDecidedIsExecuted == Spec => ExecutedAsDecided
<1>1. ASSUME IInv, [Next]_vars, NEW p \in ProposalId,
             proposals'[p].executed, ~proposals[p].executed
      PROVE  /\ proposals[p].forVotes > proposals[p].againstVotes
             /\ proposals[p].forVotes >= quorumVotes
             /\ block > proposals[p].endBlock
             /\ queuedAt[p] > 0 /\ timestamp >= queuedAt[p] + MINIMUM_DELAY
  <2>1. Execute(p)
    BY <1>1, OnlyExecuteExecutes
  <2>2. proposals[p].eta # 0
    BY <2>1 DEF Execute, StateIs, State
  <2>3. /\ Won(p) /\ block > proposals[p].endBlock
        /\ queuedAt[p] > 0 /\ proposals[p].eta >= queuedAt[p] + MINIMUM_DELAY
    BY <1>1, <2>2 DEF IInv, Decided
  <2>4. timestamp >= proposals[p].eta
    BY <2>1 DEF Execute, ExecuteTransactions
  <2>5. queuedAt[p] \in Nat
    BY <1>1, BlockAssumption DEF IInv, ClocksOK, ProposalId, TypeOK
  <2>6. proposals[p].eta \in Nat /\ timestamp \in Nat /\ MINIMUM_DELAY \in Nat
    BY <1>1, ProposalFields, PeriodAssumption DEF IInv, Proposal, TypeOK
  <2>7. timestamp >= queuedAt[p] + MINIMUM_DELAY
    BY <2>3, <2>4, <2>5, <2>6
  <2> QED BY <2>3, <2>7 DEF Won
<1>2. IInv /\ [Next]_vars =>
        [\A p \in ProposalId : proposals'[p].executed /\ ~proposals[p].executed =>
            /\ proposals[p].forVotes > proposals[p].againstVotes
            /\ proposals[p].forVotes >= quorumVotes
            /\ block > proposals[p].endBlock
            /\ queuedAt[p] > 0 /\ timestamp >= queuedAt[p] + MINIMUM_DELAY]_vars
  BY <1>1
<1> QED BY InitInv, NextInv, <1>2, PTL DEF Spec, ExecutedAsDecided

-----------------------------------------------------------------------------
(* What the timelock holds belongs to a proposal that waits. *)
Owns(p, t) ==
    /\ t \in Stamped(proposals[p].targets, proposals[p].eta)
    /\ State(p) \in {"Queued", "Expired"}

Owned == \A t \in queuedTransactions : \E p \in ProposalId : Owns(p, t)

(* An owner that is not written keeps what it owns. *)
LEMMA OwnerKept ==
    ASSUME NEW q \in ProposalId, NEW t, Owns(q, t), proposals'[q] = proposals[q],
           State(q)' = State(q)
    PROVE  Owns(q, t)'
BY DEF Owns, Stamped

(* Executing and cancelling a proposal take what it owns out of the        *)
(* timelock, whole.                                                        *)
LEMMA NextOwned ==
    ASSUME IInv, Owned, [Next]_vars
    PROVE  Owned'
<1> SUFFICES ASSUME NEW t \in queuedTransactions'
             PROVE  \E q \in ProposalId' : Owns(q, t)'
  BY DEF Owned
<1>1. ASSUME NEW u \in User, NEW targets \in Lists, Propose(u, targets)
      PROVE  \E q \in ProposalId' : Owns(q, t)'
  <2>1. PICK q \in ProposalId : Owns(q, t)
    BY <1>1 DEF Owned, Propose, timelockVars
  <2>2. proposals'[q] = proposals[q] /\ q \in ProposalId'
    BY <1>1 DEF Propose, ProposalId, IInv, TypeOK
  <2>3. State(q)' = State(q)
    BY <1>1, <2>2, StateKept DEF Propose, voteVars
  <2> QED BY <2>1, <2>2, <2>3, OwnerKept
<1>2. ASSUME NEW u \in User, NEW p \in ProposalId, NEW support \in BOOLEAN,
             CastVote(u, p, support)
      PROVE  \E q \in ProposalId' : Owns(q, t)'
  <2>1. PICK q \in ProposalId : Owns(q, t)
    BY <1>2 DEF Owned, CastVote, timelockVars
  <2>2. q # p
    BY <1>2, <2>1 DEF CastVote, StateIs, Owns
  <2>3. proposals'[q] = proposals[q] /\ ProposalId' = ProposalId
    BY <1>2, <2>2 DEF CastVote, ProposalId, IInv, TypeOK
  <2>4. State(q)' = State(q)
    BY <1>2, CastVoteKeeps
  <2> QED BY <2>1, <2>3, <2>4, OwnerKept
<1>3. ASSUME NEW p \in ProposalId, Queue(p)
      PROVE  \E q \in ProposalId' : Owns(q, t)'
  <2>1. ProposalId' = ProposalId
    BY <1>3 DEF Queue, ProposalId, IInv, TypeOK
  <2>2. CASE t \in queuedTransactions
    <3>1. PICK q \in ProposalId : Owns(q, t)
      BY <2>2 DEF Owned
    <3>2. q # p
      BY <1>3, <3>1, QueueQueues DEF Owns
    <3> QED BY <1>3, <2>1, <3>1, <3>2, QueueQueues, OwnerKept
  <2>3. CASE t \in Stamped(proposals[p].targets, timestamp + delay)
    <3>1. Owns(p, t)'
      BY <1>3, <2>3, QueueQueues DEF Owns, Stamped
    <3> QED BY <2>1, <3>1
  <2> QED BY <1>3, <2>2, <2>3 DEF Queue, QueueTransactions
<1>4. ASSUME NEW p \in ProposalId, Execute(p)
      PROVE  \E q \in ProposalId' : Owns(q, t)'
  <2>1. /\ t \in queuedTransactions
        /\ t \notin Stamped(proposals[p].targets, proposals[p].eta)
    BY <1>4 DEF Execute, ExecuteTransactions
  <2>2. PICK q \in ProposalId : Owns(q, t)
    BY <2>1 DEF Owned
  <2>3. q # p
    BY <2>1, <2>2 DEF Owns
  <2>4. ProposalId' = ProposalId
    BY <1>4 DEF Execute, ProposalId, IInv, TypeOK
  <2> QED BY <1>4, <2>2, <2>3, <2>4, ExecuteExecutes, OwnerKept
<1>5. ASSUME NEW p \in ProposalId, Cancel(p)
      PROVE  \E q \in ProposalId' : Owns(q, t)'
  <2>1. /\ t \in queuedTransactions
        /\ t \notin Stamped(proposals[p].targets, proposals[p].eta)
    BY <1>5 DEF Cancel, CancelTransactions
  <2>2. PICK q \in ProposalId : Owns(q, t)
    BY <2>1 DEF Owned
  <2>3. q # p
    BY <2>1, <2>2 DEF Owns
  <2>4. ProposalId' = ProposalId
    BY <1>5 DEF Cancel, ProposalId, IInv, TypeOK
  <2> QED BY <1>5, <2>2, <2>3, <2>4, CancelCancels, OwnerKept
<1>6. CASE Abdicate \/ UNCHANGED vars \/ \E from, to \in User : MoveVote(from, to)
  <2>1. /\ UNCHANGED <<block, timestamp, proposals, queuedTransactions>>
        /\ ProposalId' = ProposalId
    BY <1>6 DEF Abdicate, MoveVote, vars, voteVars, timelockVars, ProposalId
  <2>2. PICK q \in ProposalId : Owns(q, t)
    BY <2>1 DEF Owned
  <2>3. State(q)' = State(q)
    BY <2>1, StateKept
  <2> QED BY <2>1, <2>2, <2>3, OwnerKept
<1>7. ASSUME NEW seconds \in BlockTime, NextBlock(seconds)
      PROVE  \E q \in ProposalId' : Owns(q, t)'
  <2>1. /\ proposals' = proposals /\ queuedTransactions' = queuedTransactions
        /\ ProposalId' = ProposalId
    BY <1>7 DEF NextBlock, timelockVars, ProposalId
  <2>2. PICK q \in ProposalId : Owns(q, t)
    BY <2>1 DEF Owned
  <2>3. State(q)' \in {"Queued", "Expired"}
    BY <1>7, <2>2, NextBlockAges DEF Owns
  <2>4. Owns(q, t)'
    BY <2>1, <2>2, <2>3 DEF Owns, Stamped
  <2> QED BY <2>1, <2>4
<1> QED BY <1>1, <1>2, <1>3, <1>4, <1>5, <1>6, <1>7 DEF Next

(* Whatever the timelock could still execute belongs to a proposal that is *)
(* queued or expired, and so was neither executed nor cancelled            *)
(* (PendleGovernance.sol:295-337, Timelock.sol:137-213).                   *)
THEOREM QueueIsOwned == Spec => []QueueHasOwners
<1>1. Init => Owned
  BY DEF Init, TimelockInit, Owned
<1>2. IInv /\ Owned /\ [Next]_vars => IInv' /\ Owned'
  BY NextInv, NextOwned
<1>3. IInv /\ Owned => QueueHasOwners
  BY DEF IInv, Owned, Owns, QueueHasOwners
<1> QED BY InitInv, <1>1, <1>2, <1>3, PTL DEF Spec

-----------------------------------------------------------------------------
(* Votes.  What is counted for and against a proposal are the votes that   *)
(* those who voted had when its voting began; before it begins nobody has. *)
Cast(p) ==
    [u \in User |-> IF proposals[p].receipts[u] = "none" THEN 0
                    ELSE votesAt[proposals[p].startBlock][u]]

Counted(p) ==
    /\ proposals[p].forVotes + proposals[p].againstVotes = SumIn(Cast(p), User)
    /\ proposals[p].startBlock >= block => \A u \in User : proposals[p].receipts[u] = "none"

AllVotes ==
    /\ SumIn(votes, User) = Supply
    /\ \A b \in DOMAIN votesAt : SumIn(votesAt[b], User) = Supply

VInv == IInv /\ AllVotes /\ \A p \in ProposalId : Counted(p)

(* What has been cast of a proposal are votes of users. *)
LEMMA CastType ==
    ASSUME IInv, NEW p \in ProposalId, Counted(p)
    PROVE  /\ Cast(p) \in [User -> Nat]
           /\ proposals[p].startBlock \in Nat
           /\ proposals[p].startBlock < block =>
                /\ votesAt[proposals[p].startBlock] \in [User -> Nat]
                /\ proposals[p].startBlock \in DOMAIN votesAt
<1>1. proposals[p] \in Proposal
  BY ProposalFields DEF IInv
<1>2. proposals[p].startBlock \in Nat /\ block \in Nat
  BY <1>1 DEF Proposal, IInv, TypeOK
<1>3. CASE proposals[p].startBlock < block
  <2>1. proposals[p].startBlock \in DOMAIN votesAt
    BY <1>3 DEF IInv, Scheduled
  <2>2. votesAt[proposals[p].startBlock] \in [User -> Nat]
    BY <2>1 DEF IInv, TypeOK
  <2> QED
    BY <1>2, <2>1, <2>2 DEF Cast
<1>4. CASE proposals[p].startBlock >= block
  BY <1>2, <1>4 DEF Cast, Counted
<1> QED
  BY <1>2, <1>3, <1>4

(* No more has been cast than there are votes.                             *)
LEMMA CastOnce ==
    ASSUME VInv, NEW p \in ProposalId
    PROVE  proposals[p].forVotes + proposals[p].againstVotes <= Supply
<1> USE UserAssumption, VoteAssumption
<1>1. Counted(p) /\ IInv
  BY DEF VInv
<1>2. PICK s \in Nat : s = proposals[p].startBlock
  BY <1>1, CastType
<1>3. PICK c : c = Cast(p) /\ c \in [User -> Nat]
  BY <1>1, CastType
<1>4. CASE s < block
  <2>1. PICK v : v = votesAt[s] /\ v \in [User -> Nat] /\ SumIn(v, User) = Supply
    BY <1>1, <1>2, <1>4, CastType DEF VInv, AllVotes
  <2>2. \A u \in User : c[u] \in Int /\ v[u] \in Int /\ c[u] <= v[u]
    BY <1>2, <1>3, <2>1 DEF Cast
  <2>3. SumIn(c, User) <= SumIn(v, User)
    BY ONLY IsFiniteSet(User), <2>2, SumMonotone
  <2> QED
    BY <1>1, <1>3, <2>1, <2>3, Zenon DEF Counted
<1>5. CASE s >= block
  <2>1. \A u \in User : c[u] = 0
    BY <1>1, <1>2, <1>3, <1>5 DEF Cast, Counted
  <2>2. SumIn(c, User) = 0
    BY <2>1, SumZero
  <2> QED
    BY <1>1, <1>3, <2>2 DEF Counted
<1>6. block \in Nat
  BY DEF VInv, IInv, TypeOK
<1> QED
  BY <1>2, <1>4, <1>5, <1>6

(* A proposal keeps its count when neither its tally nor the votes it      *)
(* counts are written.                                                     *)
LEMMA CountKept ==
    ASSUME VInv, NEW p \in ProposalId, block' = block, votesAt' = votesAt,
           proposals'[p].receipts = proposals[p].receipts,
           proposals'[p].startBlock = proposals[p].startBlock,
           proposals'[p].forVotes = proposals[p].forVotes,
           proposals'[p].againstVotes = proposals[p].againstVotes
    PROVE  Counted(p)'
<1>1. Cast(p)' = Cast(p)
  BY DEF Cast
<1>2. Counted(p)
  BY DEF VInv
<1>3. PICK c : c = Cast(p)' /\ c = Cast(p)
  BY <1>1
<1>4. SumIn(Cast(p)', User) = SumIn(Cast(p), User)
  BY <1>3
<1> QED
  BY <1>2, <1>4 DEF Counted

LEMMA ProposeCounts ==
    ASSUME VInv, NEW u \in User, NEW targets \in Lists, Propose(u, targets),
           NEW q \in ProposalId'
    PROVE  Counted(q)'
<1> USE UserAssumption, BlockAssumption
<1>1. /\ block' = block /\ votesAt' = votesAt /\ proposals \in Seq(Proposal)
      /\ proposals' = Append(proposals, NewProposal(u, targets))
  BY DEF Propose, voteVars, VInv, IInv, TypeOK
<1>2. CASE q \in ProposalId
  <2>1. proposals'[q] = proposals[q]
    BY <1>1, <1>2 DEF ProposalId
  <2> QED
    BY <1>1, <1>2, <2>1, CountKept
<1>3. CASE q \notin ProposalId
  <2>1. proposals'[q] = NewProposal(u, targets)
    <3>1. q = Len(proposals) + 1
      BY <1>1, <1>3 DEF ProposalId
    <3> QED
      BY <1>1, <3>1
  <2>2. /\ proposals'[q].forVotes = 0 /\ proposals'[q].againstVotes = 0
        /\ \A v \in User : proposals'[q].receipts[v] = "none"
    BY <2>1 DEF NewProposal
  <2>3. PICK c : c = Cast(q)'
    OBVIOUS
  <2>4. \A v \in User : c[v] = 0
    BY <2>2, <2>3 DEF Cast
  <2>5. SumIn(c, User) = 0
    BY <2>4, SumZero
  <2> QED
    BY <2>2, <2>3, <2>5 DEF Counted
<1> QED
  BY <1>2, <1>3

(* One vote adds what the voter had, once: his receipt was empty.          *)
LEMMA CastVoteCounts ==
    ASSUME VInv, NEW u \in User, NEW p \in ProposalId, NEW support \in BOOLEAN,
           CastVote(u, p, support), NEW q \in ProposalId
    PROVE  Counted(q)'
<1> USE UserAssumption
<1>1. proposals[p] \in Proposal /\ p \in DOMAIN proposals /\ q \in DOMAIN proposals
  BY ProposalFields DEF VInv, IInv, TypeOK, ProposalId
<1>2. block' = block /\ votesAt' = votesAt /\ block \in Nat
  BY DEF CastVote, voteVars, VInv, IInv, TypeOK
<1>3. CASE q # p
  <2>1. proposals'[q] = proposals[q]
    BY <1>1, <1>3 DEF CastVote
  <2> QED
    BY <1>2, <2>1, CountKept
<1>4. CASE q = p
  <2>1. PICK s \in Nat : s = proposals[p].startBlock
    BY <1>1 DEF Proposal
  <2>2. s < block /\ proposals[p].receipts[u] = "none"
    BY <1>1, <1>2, <2>1 DEF CastVote, StateIs, State
  <2>3. PICK v : v = votesAt[s] /\ v \in [User -> Nat]
    BY <2>1, <2>2, CastType DEF VInv
  <2>4. PICK n \in Nat : n = v[u]
    BY <2>3
  <2>5. PICK f, a, r, f1, a1, r1 :
           /\ f = proposals[p].forVotes /\ a = proposals[p].againstVotes /\ r = proposals[p].receipts
           /\ f1 = proposals'[p].forVotes /\ a1 = proposals'[p].againstVotes
           /\ r1 = proposals'[p].receipts /\ f \in Nat /\ a \in Nat
    BY <1>1 DEF Proposal
  <2>6. r \in [User -> {"none", "for", "against"}] /\ r[u] = "none"
    BY <1>1, <2>2, <2>5 DEF Proposal
  <2>7. /\ proposals'[p].startBlock = s
        /\ f1 + a1 = (f + a) + n
        /\ r1[u] # "none" /\ \A w \in User \ {u} : r1[w] = r[w]
    <3>1. CASE support
      <4>1. proposals' = [proposals EXCEPT ![p].receipts[u] = "for", ![p].forVotes = @ + n]
        BY <2>1, <2>3, <2>4, <3>1 DEF CastVote
      <4>2. f1 = f + n /\ a1 = a /\ r1 = [r EXCEPT ![u] = "for"] /\ proposals'[p].startBlock = s
        BY <1>1, <2>1, <2>5, <4>1 DEF Proposal
      <4> QED
        BY <2>4, <2>5, <2>6, <4>2
    <3>2. CASE ~support
      <4>1. proposals' = [proposals EXCEPT ![p].receipts[u] = "against", ![p].againstVotes = @ + n]
        BY <2>1, <2>3, <2>4, <3>2 DEF CastVote
      <4>2. f1 = f /\ a1 = a + n /\ r1 = [r EXCEPT ![u] = "against"] /\ proposals'[p].startBlock = s
        BY <1>1, <2>1, <2>5, <4>1 DEF Proposal
      <4> QED
        BY <2>4, <2>5, <2>6, <4>2
    <3> QED
      BY <3>1, <3>2
  <2>8. PICK c, d : c = Cast(p) /\ d = Cast(p)'
    OBVIOUS
  <2>9. c \in [User -> Nat] /\ c[u] = 0
    BY <2>5, <2>6, <2>8, CastType DEF Cast, VInv
  <2>10. d[u] = n
    BY <1>2, <2>3, <2>4, <2>5, <2>7, <2>8 DEF Cast
  <2>11. \A w \in User \ {u} : d[w] = c[w]
    BY <1>2, <2>1, <2>5, <2>7, <2>8 DEF Cast
  <2>12. SumIn(d, User) = SumIn(c, User) + (d[u] - c[u])
    <3>1. \A w \in User : c[w] \in Int
      BY <2>9
    <3>2. d[u] \in Int
      BY <2>10
    <3> QED
      BY ONLY IsFiniteSet(User), u \in User, <2>11, <3>1, <3>2, SumChange, Z3
  <2>13. f + a = SumIn(c, User)
    BY <2>5, <2>8, Zenon DEF VInv, Counted
  <2>14. f1 + a1 = SumIn(d, User)
    BY <2>7, <2>9, <2>10, <2>12, <2>13
  <2>15. ~(s >= block)
    BY <1>2, <2>1, <2>2
  <2> QED
    BY <1>2, <1>4, <2>5, <2>7, <2>8, <2>14, <2>15, Zenon DEF Counted
<1> QED
  BY <1>3, <1>4

(* The votes of the block that ends are what a voting that begins will ask *)
(* for; nobody has voted in it yet.                                        *)
LEMMA NextBlockCounts ==
    ASSUME VInv, NEW seconds \in BlockTime, NextBlock(seconds), NEW q \in ProposalId
    PROVE  Counted(q)'
<1> USE UserAssumption
<1>1. block \in Nat /\ block' = block + 1 /\ proposals' = proposals
  BY DEF NextBlock, VInv, IInv, TypeOK
<1>2. PICK s \in Nat : s = proposals[q].startBlock
  BY CastType DEF VInv
<1>3. Counted(q)
  BY DEF VInv
<1>4. PICK c, d : c = Cast(q) /\ d = Cast(q)'
  OBVIOUS
<1>5. \A u \in User : d[u] = c[u] /\ c[u] \in Int
  <2>0. \A u \in User : c[u] \in Int
    BY <1>3, <1>4, CastType DEF VInv
  <2>1. CASE s >= block
    BY <1>1, <1>2, <1>3, <1>4, <2>0, <2>1 DEF Cast, Counted
  <2>2. CASE s < block
    <3>1. s \in {b \in Remembered : b <= block}
      BY <1>1, <1>2, <2>2 DEF Remembered
    <3>2. votesAt'[s] = votesAt[s]
      BY <1>1, <2>2, <3>1 DEF NextBlock
    <3> QED
      BY <1>1, <1>2, <1>4, <2>0, <3>2 DEF Cast
  <2> QED
    BY <1>1, <2>1, <2>2
<1>6. SumIn(d, User) = SumIn(c, User)
  <2>1. \A u \in User : d[u] \in Int /\ d[u] = c[u]
    BY <1>5
  <2> QED
    BY <2>1, SumSame
<1>7. proposals'[q].startBlock >= block' => proposals[q].startBlock >= block
  BY <1>1, <1>2
<1>8. /\ proposals'[q].forVotes + proposals'[q].againstVotes = SumIn(d, User)
      /\ proposals'[q].startBlock >= block' => \A u \in User : proposals'[q].receipts[u] = "none"
  BY <1>1, <1>3, <1>4, <1>6, <1>7, Zenon DEF Counted
<1> QED
  BY <1>4, <1>8, Zenon DEF Counted

(* Votes move, and are never made.                                         *)
LEMMA NextVotes ==
    ASSUME VInv, [Next]_vars
    PROVE  AllVotes'
<1> USE UserAssumption
<1>1. CASE UNCHANGED <<votes, votesAt>>
  BY <1>1 DEF VInv, AllVotes
<1>2. ASSUME NEW from \in User, NEW to \in User, MoveVote(from, to) PROVE AllVotes'
  <2>1. votes \in [User -> Nat]
    BY DEF VInv, IInv, TypeOK
  <2>2. votes \in [User -> Int]
    BY <2>1
  <2>3. /\ from # to /\ votes'[from] = votes[from] - 1 /\ votes'[to] = votes[to] + 1
        /\ \A w \in User \ {from, to} : votes'[w] = votes[w]
        /\ votesAt' = votesAt
    BY <1>2, <2>1 DEF MoveVote
  <2>4. 1 \in Int
    OBVIOUS
  <2>5. SumIn(votes', User) = SumIn(votes, User)
    BY ONLY IsFiniteSet(User), from \in User, to \in User, <2>2, <2>3, <2>4, SumMoved, SMTT(60)
  <2> QED
    BY <2>3, <2>5 DEF VInv, AllVotes
<1>3. ASSUME NEW seconds \in BlockTime, NextBlock(seconds) PROVE AllVotes'
  <2>1. /\ votes' = votes
        /\ votesAt' = [b \in {c \in Remembered : c <= block} |->
                          IF b = block THEN votes ELSE votesAt[b]]
    BY <1>3 DEF NextBlock
  <2>2. block \in Nat
    BY DEF VInv, IInv, TypeOK
  <2>3. ASSUME NEW b \in DOMAIN votesAt' PROVE SumIn(votesAt'[b], User) = Supply
    <3>1. b \in Remembered /\ b <= block
      BY <2>1
    <3>2. CASE b = block
      <4>1. votesAt'[b] = votes
        BY <2>1, <3>1, <3>2
      <4> QED
        BY <4>1 DEF VInv, AllVotes
    <3>3. CASE b # block
      <4>1. PICK q \in ProposalId : b = proposals[q].startBlock
        BY <3>1, <3>3 DEF Remembered
      <4>2. b \in Nat
        BY <4>1, CastType DEF VInv
      <4>3. b \in DOMAIN votesAt
        BY <2>2, <3>1, <3>3, <4>1, <4>2, CastType DEF VInv
      <4>4. votesAt'[b] = votesAt[b]
        BY <2>1, <3>1, <3>3
      <4> QED
        BY <4>3, <4>4 DEF VInv, AllVotes
    <3> QED
      BY <3>2, <3>3
  <2> QED
    BY <2>1, <2>3 DEF VInv, AllVotes
<1>4. \/ UNCHANGED <<votes, votesAt>>
      \/ \E from, to \in User : MoveVote(from, to)
      \/ \E seconds \in BlockTime : NextBlock(seconds)
  BY DEF Next, Propose, CastVote, Queue, Execute, Cancel, Abdicate, voteVars, vars
<1> QED
  BY <1>1, <1>2, <1>3, <1>4

LEMMA NextCounts ==
    ASSUME VInv, [Next]_vars, NEW q \in ProposalId'
    PROVE  Counted(q)'
<1>1. proposals \in Seq(Proposal) /\ IInv
  BY DEF VInv, IInv, TypeOK
<1>2. ASSUME NEW u \in User, NEW targets \in Lists, Propose(u, targets) PROVE Counted(q)'
  BY <1>2, ProposeCounts
<1>3. ASSUME NEW u \in User, NEW p \in ProposalId, NEW support \in BOOLEAN, CastVote(u, p, support)
      PROVE  Counted(q)'
  <2>1. q \in ProposalId
    BY <1>1, <1>3 DEF CastVote, ProposalId
  <2> QED
    BY <1>3, <2>1, CastVoteCounts
<1>4. ASSUME NEW p \in ProposalId, Queue(p) \/ Execute(p) \/ Cancel(p) PROVE Counted(q)'
  <2>1. q \in ProposalId /\ q \in DOMAIN proposals /\ p \in DOMAIN proposals
    BY <1>1, <1>4 DEF Queue, Execute, Cancel, ProposalId
  <2>2. proposals[q] \in Proposal
    BY <1>1, <2>1
  <2>3. /\ proposals'[q].receipts = proposals[q].receipts
        /\ proposals'[q].startBlock = proposals[q].startBlock
        /\ proposals'[q].forVotes = proposals[q].forVotes
        /\ proposals'[q].againstVotes = proposals[q].againstVotes
    BY <1>4, <2>1, <2>2 DEF Queue, Execute, Cancel, Proposal
  <2>4. block' = block /\ votesAt' = votesAt
    BY <1>4 DEF Queue, Execute, Cancel, voteVars
  <2> QED
    BY <2>1, <2>3, <2>4, CountKept
<1>5. CASE Abdicate \/ UNCHANGED vars \/ \E from, to \in User : MoveVote(from, to)
  <2>1. q \in ProposalId /\ proposals' = proposals /\ block' = block /\ votesAt' = votesAt
    BY <1>5 DEF Abdicate, MoveVote, vars, voteVars, ProposalId
  <2> QED
    BY <2>1, CountKept
<1>6. ASSUME NEW seconds \in BlockTime, NextBlock(seconds) PROVE Counted(q)'
  <2>1. q \in ProposalId
    BY <1>6 DEF NextBlock, ProposalId
  <2> QED
    BY <1>6, <2>1, NextBlockCounts
<1> QED
  BY <1>2, <1>3, <1>4, <1>5, <1>6 DEF Next

LEMMA InitVotes == Init => VInv
<1> SUFFICES ASSUME Init PROVE VInv
  OBVIOUS
<1>1. IInv
  BY InitInv
<1>2. SumIn(votes, User) = Supply
  BY Zenon DEF Init, SumIn
<1>3. \A b \in DOMAIN votesAt : votesAt[b] = votes
  BY DEF Init
<1>4. ProposalId = {}
  BY DEF Init, ProposalId
<1> QED
  BY <1>1, <1>2, <1>3, <1>4 DEF VInv, AllVotes

(* However the votes move between users while a proposal is voted on, no   *)
(* more are counted than there are: castVote reads them at the block where *)
(* the voting began, and once for a user (PendleGovernance.sol:403-425).   *)
THEOREM VotesCountOnce == Spec => []NoVoteTwice
<1>1. VInv /\ [Next]_vars => VInv'
  BY NextInv, NextVotes, NextCounts DEF VInv
<1>2. VInv => NoVoteTwice
  BY CastOnce DEF NoVoteTwice
<1> QED BY InitVotes, <1>1, <1>2, PTL DEF Spec

-----------------------------------------------------------------------------
(***************************************************************************)
(* The token.  Its books agree (VotesAreBalances): the balances make up    *)
(* the supply, and the votes of a delegate are those of the tokens that    *)
(* are delegated to it, up to what was burnt and minted.                   *)
(***************************************************************************)
(* The tokens delegated to d, account by account.                          *)
HeldBy(d) == [a \in Account |-> IF delegates[a] = d THEN balances[a] ELSE 0]

TokenInv ==
    /\ Token!TypeOK
    /\ totalSupply = SumIn(balances, Account)
    /\ \A d \in Account : Token!CurrentVotes(d) = drift[d] + SumIn(HeldBy(d), Account)

LEMMA AccountsFinite == IsFiniteSet(Account)
BY TokenAssumption DEF Token!Assumptions, Token!IsFiniteSet, IsFiniteSet

LEMMA HeldSum ==
    ASSUME Token!TypeOK, NEW d \in Account
    PROVE  SumIn(HeldBy(d), Account) = SumIn(balances, {a \in Account : delegates[a] = d})
<1> DEFINE T == {a \in Account : delegates[a] = d}
<1>1. PICK f, g : f = balances /\ g = HeldBy(d)
  OBVIOUS
<1>2. \A a \in T : f[a] \in Int /\ g[a] = f[a]
  BY <1>1 DEF Token!TypeOK, HeldBy
<1>3. \A a \in Account \ T : g[a] = 0
  BY <1>1 DEF HeldBy
<1>4. IsFiniteSet(Account) /\ T \in SUBSET Account
  BY AccountsFinite
<1> HIDE DEF T
<1>5. SumIn(g, Account) = SumIn(f, T)
  BY ONLY <1>2, <1>3, <1>4, SumWiden
<1> QED
  BY <1>1, <1>5 DEF T

LEMMA TokenInvImplies == TokenInv => Token!VotesAreBalances
<1> SUFFICES ASSUME TokenInv PROVE Token!VotesAreBalances
  OBVIOUS
<1>1. \A d \in Account :
         Token!CurrentVotes(d) = drift[d] + SumIn(balances, {a \in Account : delegates[a] = d})
  BY HeldSum DEF TokenInv
<1>2. Token!TypeOK /\ totalSupply = SumIn(balances, Account)
  BY DEF TokenInv
<1> QED
  BY <1>1, <1>2, Zenon
  DEF Token!VotesAreBalances, Token!MapThenSumSet, Token!MapThenFoldSet,
      SumIn, MapThenSumSet, MapThenFoldSet

(* One balance changes, and with it what its delegate holds.               *)
LEMMA BalanceChanged ==
    ASSUME Token!TypeOK, NEW a \in Account, NEW n \in Int,
           balances' = [balances EXCEPT ![a] = @ + n], delegates' = delegates
    PROVE  /\ SumIn(balances', Account) = SumIn(balances, Account) + n
           /\ \A d \in Account : SumIn(HeldBy(d)', Account)
                 = SumIn(HeldBy(d), Account) + (IF delegates[a] = d THEN n ELSE 0)
<1>1. IsFiniteSet(Account)
  BY AccountsFinite
<1>2. balances \in [Account -> Int]
  BY DEF Token!TypeOK
<1>3. SumIn(balances', Account) = SumIn(balances, Account) + n
  BY <1>1, <1>2, SumAdded, ZenonT(60)
<1>4. ASSUME NEW d \in Account
      PROVE  SumIn(HeldBy(d)', Account)
                = SumIn(HeldBy(d), Account) + (IF delegates[a] = d THEN n ELSE 0)
  <2>1. PICK f, g : f = HeldBy(d) /\ g = HeldBy(d)'
    OBVIOUS
  <2>2. PICK m \in Int : m = IF delegates[a] = d THEN n ELSE 0
    OBVIOUS
  <2>3. f \in [Account -> Int] /\ g = [f EXCEPT ![a] = @ + m]
    BY <1>2, <2>1, <2>2 DEF HeldBy
  <2>4. SumIn(g, Account) = SumIn(f, Account) + m
    BY <1>1, <2>3, SumAdded, ZenonT(60)
  <2> QED
    BY <2>1, <2>2, <2>4
<1> QED
  BY <1>3, <1>4

LEMMA LastEntry ==
    ASSUME NEW R, NEW c \in Seq(R), c # <<>>
    PROVE  Len(c) \in 1..Len(c) /\ c[Len(c)] \in R
<1>1. Len(c) \in 1..Len(c)
  OBVIOUS
<1> QED
  BY <1>1

LEMMA LastReplaced ==
    ASSUME NEW R, NEW c \in Seq(R), c # <<>>, NEW r \in R, NEW w, w = [c EXCEPT ![Len(c)] = r]
    PROVE  w \in Seq(R) /\ w # <<>> /\ w[Len(w)] = r
OBVIOUS

Checkpoints == Seq([fromBlock : Nat, votes : Nat])

LEMMA CheckpointWritten ==
    ASSUME NEW c \in Checkpoints, NEW n \in Nat, tokenBlock \in Nat
    PROVE  /\ Token!WriteCheckpoint(c, n) \in Checkpoints
           /\ Token!VotesOf(Token!WriteCheckpoint(c, n)) = n
<1>1. CASE c # <<>> /\ c[Len(c)].fromBlock = tokenBlock
  <2>1. PICK w : w = [c EXCEPT ![Len(c)].votes = n]
    OBVIOUS
  <2>2. Token!WriteCheckpoint(c, n) = w
    BY <1>1, <2>1 DEF Token!WriteCheckpoint, Token!Last
  <2>3. c[Len(c)] \in [fromBlock : Nat, votes : Nat]
    BY <1>1, LastEntry DEF Checkpoints
  <2>4. PICK r : r = [c[Len(c)] EXCEPT !.votes = n]
    OBVIOUS
  <2>5. r \in [fromBlock : Nat, votes : Nat] /\ r.votes = n /\ w = [c EXCEPT ![Len(c)] = r]
    BY <2>1, <2>3, <2>4
  <2>6. w \in Checkpoints /\ w # <<>> /\ w[Len(w)] = r
    BY <1>1, <2>5, LastReplaced DEF Checkpoints
  <2> QED
    BY <2>2, <2>5, <2>6 DEF Token!VotesOf, Token!Last
<1>2. CASE ~(c # <<>> /\ c[Len(c)].fromBlock = tokenBlock)
  <2>1. PICK w : w = Append(c, [fromBlock |-> tokenBlock, votes |-> n])
    OBVIOUS
  <2>2. Token!WriteCheckpoint(c, n) = w
    BY <1>2, <2>1 DEF Token!WriteCheckpoint, Token!Last
  <2>3. w \in Checkpoints /\ w # <<>> /\ w[Len(w)].votes = n
    BY <2>1 DEF Checkpoints
  <2> QED
    BY <2>2, <2>3 DEF Token!VotesOf, Token!Last
<1> QED
  BY <1>1, <1>2

LEMMA VotesType ==
    ASSUME Token!TypeOK, NEW d \in Account
    PROVE  checkpoints[d] \in Checkpoints /\ Token!CurrentVotes(d) \in Nat
<1>1. checkpoints[d] \in Checkpoints
  BY DEF Token!TypeOK, Checkpoints
<1> QED
  <2>1. CASE checkpoints[d] = <<>>
    BY <1>1, <2>1 DEF Token!CurrentVotes, Token!VotesOf
  <2>2. CASE checkpoints[d] # <<>>
    <3>1. PICK c \in Checkpoints : c = checkpoints[d]
      BY <1>1
    <3>2. Len(c) \in 1..Len(c) /\ c[Len(c)] \in [fromBlock : Nat, votes : Nat]
      BY <2>2, <3>1, LastEntry DEF Checkpoints
    <3>3. Token!CurrentVotes(d) = c[Len(c)].votes
      BY <2>2, <3>1 DEF Token!CurrentVotes, Token!VotesOf, Token!Last
    <3>4. c[Len(c)].votes \in Nat
      BY <3>2
    <3> QED
      BY <1>1, <3>3, <3>4
  <2> QED
    BY <2>1, <2>2

(* Votes move from one delegate to another. *)
LEMMA VotesMoved ==
    ASSUME Token!TypeOK, NEW src, NEW dst, NEW amount \in Nat,
           src \in Account \cup {NoDelegate}, dst \in Account \cup {NoDelegate},
           Token!CanMoveDelegates(src, dst, amount), Token!MoveDelegates(src, dst, amount)
    PROVE  /\ checkpoints' \in [Account -> Checkpoints]
           /\ \A d \in Account : Token!CurrentVotes(d)'
                 = Token!CurrentVotes(d) - (IF d = src THEN amount ELSE 0)
                                         + (IF d = dst THEN amount ELSE 0)
<1> USE VotesType
<1>1. CASE src = dst \/ amount = 0
  <2>1. checkpoints' = checkpoints
    BY <1>1 DEF Token!MoveDelegates
  <2>2. \A d \in Account : Token!CurrentVotes(d)' = Token!CurrentVotes(d)
    BY <2>1 DEF Token!CurrentVotes
  <2>3. checkpoints' \in [Account -> Checkpoints]
    BY <2>1 DEF Token!TypeOK, Checkpoints
  <2> QED
    BY <1>1, <2>2, <2>3
<1>2. CASE src # dst /\ amount # 0
  <2>1. checkpoints' =
          [d \in Account |->
             CASE d = src -> Token!WriteCheckpoint(checkpoints[d], Token!CurrentVotes(d) - amount)
               [] d = dst -> Token!WriteCheckpoint(checkpoints[d], Token!CurrentVotes(d) + amount)
               [] OTHER -> checkpoints[d]]
    BY <1>2 DEF Token!MoveDelegates
  <2>2. ASSUME NEW d \in Account
        PROVE  /\ checkpoints'[d] \in Checkpoints
               /\ Token!VotesOf(checkpoints'[d])
                    = Token!CurrentVotes(d) - (IF d = src THEN amount ELSE 0)
                                            + (IF d = dst THEN amount ELSE 0)
    <3>0. tokenBlock \in Nat
      BY DEF Token!TypeOK
    <3>1. CASE d = src
      <4>1. Token!CurrentVotes(d) - amount \in Nat
        BY <1>2, <3>1, TokenAssumption DEF Token!CanMoveDelegates, Token!Assumptions
      <4>2. checkpoints'[d] = Token!WriteCheckpoint(checkpoints[d], Token!CurrentVotes(d) - amount)
        BY <1>2, <2>1, <3>1
      <4> QED
        BY <1>2, <3>0, <3>1, <4>1, <4>2, CheckpointWritten
    <3>2. CASE d = dst
      <4>1. checkpoints'[d] = Token!WriteCheckpoint(checkpoints[d], Token!CurrentVotes(d) + amount)
        BY <1>2, <2>1, <3>2
      <4>2. Token!CurrentVotes(d) + amount \in Nat
        OBVIOUS
      <4> QED
        BY <1>2, <3>0, <3>2, <4>1, <4>2, CheckpointWritten
    <3>3. CASE d # src /\ d # dst
      <4>1. checkpoints'[d] = checkpoints[d]
        BY <2>1, <3>3
      <4> QED
        BY <3>3, <4>1 DEF Token!CurrentVotes
    <3> QED
      BY <3>1, <3>2, <3>3
  <2>3. checkpoints' \in [Account -> Checkpoints]
    BY <2>1, <2>2
  <2> QED
    BY <2>2, <2>3 DEF Token!CurrentVotes
<1> QED
  BY <1>1, <1>2
(***************************************************************************)
(* The weeks that are minted at once, one after the other: the fold of     *)
(* MintLiquidityEmissions as the sequence of its intermediate results.     *)
(***************************************************************************)
Unminted == [emission |-> lastWeeklyEmission, supply |-> totalSupply, minted |-> 0, paid |-> paid]

Minted(s, i) == Token!MintWeek(s, i)

Weeks == Token!WeeksToSend

MintedAll == Token!FoldLeft(Token!MintWeek, Unminted, Weeks)

(* What the recursive function in the fold satisfies on the sets in D.     *)
FoldEquation(g, D) ==
    g = [T \in D |-> IF T = {} THEN Unminted
                     ELSE LET x == Token!Max(T) IN Minted(g[T \ {x}], Weeks[x])]

LEMMA LargestOf ==
    ASSUME NEW k \in Nat, NEW T \in SUBSET (1..k), k \in T
    PROVE  Token!Max(T) = k
<1>1. \A y \in T : k >= y
  OBVIOUS
<1>2. \A x \in T : x >= k => x = k
  OBVIOUS
<1> QED
  BY <1>1, <1>2, Zenon DEF Token!Max

LEMMA WeeksFold ==
    ASSUME NEW n \in Nat
    PROVE  \E g : FoldEquation(g, SUBSET (1..n))
<1> DEFINE N == {k \in Nat : \E g : FoldEquation(g, SUBSET (1..k))}
<1>1. 0 \in N
  <2> DEFINE g == [T \in {{}} |-> Unminted]
  <2>1. SUBSET (1..0) = {{}}
    OBVIOUS
  <2>2. FoldEquation(g, SUBSET (1..0))
    BY <2>1 DEF FoldEquation
  <2> QED
    BY <2>2
<1>2. ASSUME NEW k \in Nat, k \in N PROVE k + 1 \in N
  <2>1. PICK g : FoldEquation(g, SUBSET (1..k))
    BY <1>2
  <2> DEFINE h == [T \in SUBSET (1..(k + 1)) |->
                     IF k + 1 \in T THEN Minted(g[T \ {k + 1}], Weeks[k + 1]) ELSE g[T]]
  <2>2. ASSUME NEW T \in SUBSET (1..(k + 1))
        PROVE  h[T] = IF T = {} THEN Unminted
                      ELSE LET x == Token!Max(T) IN Minted(h[T \ {x}], Weeks[x])
    <3>1. CASE k + 1 \in T
      <4>1. Token!Max(T) = k + 1 /\ T # {}
        BY <3>1, LargestOf
      <4>2. T \ {k + 1} \in SUBSET (1..(k + 1)) /\ k + 1 \notin T \ {k + 1}
        OBVIOUS
      <4>3. h[T \ {k + 1}] = g[T \ {k + 1}] /\ h[T] = Minted(g[T \ {k + 1}], Weeks[k + 1])
        BY <3>1, <4>2
      <4> QED
        BY <4>1, <4>3, Zenon
    <3>2. CASE k + 1 \notin T
      <4>1. T \in SUBSET (1..k)
        BY <3>2
      <4>2. g[T] = IF T = {} THEN Unminted
                   ELSE LET x == Token!Max(T) IN Minted(g[T \ {x}], Weeks[x])
        BY <2>1, <4>1, Zenon DEF FoldEquation
      <4>3. h[T] = g[T] /\ \A x : h[T \ {x}] = g[T \ {x}]
        BY <3>2
      <4> QED
        BY <4>2, <4>3, Zenon
    <3> QED
      BY <3>1, <3>2
  <2>3. h = [T \in SUBSET (1..(k + 1)) |-> h[T]]
    OBVIOUS
  <2> HIDE DEF h
  <2>4. FoldEquation(h, SUBSET (1..(k + 1)))
    BY <2>2, <2>3, Zenon DEF FoldEquation
  <2> QED
    BY <2>4
<1>3. Nat \subseteq N
  <2> HIDE DEF N
  <2> QED BY <1>1, <1>2, NatSetInduction
<1> QED
  BY <1>3

LEMMA WeeksCounted ==
    ASSUME tokenTimestamp \in Nat, lastWeekEmissionSent \in Nat
    PROVE  \E n \in Nat : /\ DOMAIN Weeks = 1..n /\ Len(Weeks) = n
                          /\ \A k \in 1..n : Weeks[k] = lastWeekEmissionSent + k
                          /\ n > 0 => lastWeekEmissionSent + n = Token!WeekOf(tokenTimestamp)
                          /\ n = 0 => Token!WeekOf(tokenTimestamp) <= lastWeekEmissionSent
<1>1. Week \in Nat \ {0}
  BY TokenAssumption DEF Token!Assumptions
<1>2. Token!WeekOf(tokenTimestamp) \in Int
  BY <1>1 DEF Token!WeekOf, Token!startTime
<1>3. PICK d \in Int : d = Token!WeekOf(tokenTimestamp) - lastWeekEmissionSent
  BY <1>2
<1>4. PICK n \in Nat : n = (IF d < 0 THEN 0 ELSE d)
  BY <1>3
<1>5. 1..d = 1..n
  BY <1>4
<1>6. Weeks = [k \in 1..n |-> lastWeekEmissionSent + k]
  BY <1>3, <1>5 DEF Weeks, Token!WeeksToSend
<1>7. Len(Weeks) = n
  BY <1>6
<1> QED
  BY <1>2, <1>3, <1>4, <1>6, <1>7

(* The results week by week: what is minted for week k is added to those   *)
(* of the week before.                                                     *)
ByWeek(n, s) ==
    /\ s[0] = Unminted
    /\ \A k \in 1..n : s[k] = Minted(s[k - 1], lastWeekEmissionSent + k)

LEMMA MintedWeekByWeek ==
    ASSUME tokenTimestamp \in Nat, lastWeekEmissionSent \in Nat
    PROVE  \E n \in Nat : \E s :
              /\ ByWeek(n, s)
              /\ MintedAll = s[n]
              /\ Len(Weeks) = n
              /\ n > 0 => lastWeekEmissionSent + n = Token!WeekOf(tokenTimestamp)
              /\ n = 0 => Token!WeekOf(tokenTimestamp) <= lastWeekEmissionSent
<1>1. PICK n \in Nat : /\ DOMAIN Weeks = 1..n /\ Len(Weeks) = n
                       /\ \A k \in 1..n : Weeks[k] = lastWeekEmissionSent + k
                       /\ n > 0 => lastWeekEmissionSent + n = Token!WeekOf(tokenTimestamp)
                       /\ n = 0 => Token!WeekOf(tokenTimestamp) <= lastWeekEmissionSent
  BY WeeksCounted
<1> DEFINE g == CHOOSE h : FoldEquation(h, SUBSET (1..n))
<1>2. FoldEquation(g, SUBSET (1..n))
  BY WeeksFold
<1>3. MintedAll = g[1..n]
  BY <1>1, Zenon DEF MintedAll, Token!FoldLeft, Token!MapThenFoldSet, FoldEquation, Minted
<1> HIDE DEF g
<1> DEFINE s == [k \in 0..n |-> g[1..k]]
<1>4. s[0] = Unminted
  <2>1. {} \in SUBSET (1..n) /\ 1..0 = {}
    OBVIOUS
  <2>2. g[{}] = Unminted
    BY <1>2, <2>1, Zenon DEF FoldEquation
  <2> QED
    BY <2>1, <2>2
<1>5. ASSUME NEW k \in 1..n PROVE s[k] = Minted(s[k - 1], lastWeekEmissionSent + k)
  <2>1. /\ 1..k \in SUBSET (1..n) /\ 1..k # {} /\ (1..k) \ {k} = 1..(k - 1)
        /\ k \in 0..n /\ k - 1 \in 0..n /\ k \in Nat /\ k \in 1..k
    OBVIOUS
  <2>2. Token!Max(1..k) = k
    BY <2>1, LargestOf
  <2>3. g[1..k] = Minted(g[(1..k) \ {k}], Weeks[k])
    BY <1>2, <2>1, <2>2, Zenon DEF FoldEquation
  <2>4. s[k] = g[1..k] /\ s[k - 1] = g[1..(k - 1)]
    BY <2>1
  <2>5. Weeks[k] = lastWeekEmissionSent + k
    BY <1>1
  <2> HIDE DEF s
  <2> QED
    BY <2>1, <2>3, <2>4, <2>5, Zenon
<1>6. s[n] = g[1..n]
  OBVIOUS
<1> HIDE DEF s
<1> QED
  BY <1>1, <1>3, <1>4, <1>5, <1>6 DEF ByWeek

(* An induction over those weeks.                                          *)
LEMMA WeekInduction ==
    ASSUME NEW n \in Nat, NEW P, 0 \in P, \A k \in 1..n : k - 1 \in P => k \in P
    PROVE  0..n \subseteq P
<1> DEFINE N == {k \in Nat : k <= n => k \in P}
<1>1. 0 \in N
  OBVIOUS
<1>2. ASSUME NEW k \in Nat, k \in N PROVE k + 1 \in N
  <2>1. k + 1 <= n => k + 1 \in 1..n /\ (k + 1) - 1 = k
    OBVIOUS
  <2> QED
    BY <1>2, <2>1
<1>3. Nat \subseteq N
  <2> HIDE DEF N
  <2> QED BY <1>1, <1>2, NatSetInduction
<1> QED
  BY <1>3
LEMMA EmissionType ==
    ASSUME Token!TypeOK, NEW e \in Nat, NEW t \in Nat
    PROVE  /\ Token!Decayed(e, config.multiplier) \in Nat
           /\ Token!Inflated(t, config.inflation) \in Nat
<1>1. CONFIG_DENOMINATOR \in Nat \ {0} /\ config.multiplier \in Nat /\ config.inflation \in Nat
  BY TokenAssumption DEF Token!Assumptions, Token!TypeOK, Token!Config
<1>2. e * config.multiplier \in Nat /\ t * config.inflation \in Nat
  BY <1>1
<1>3. \A x, y \in Nat : y # 0 => x \div y \in Nat
  OBVIOUS
<1>4. /\ (e * config.multiplier) \div CONFIG_DENOMINATOR \in Nat
      /\ (t * config.inflation) \div CONFIG_DENOMINATOR \in Nat
  BY <1>1, <1>2, <1>3
<1> QED
  BY <1>4, Zenon DEF Token!Decayed, Token!Inflated

(* The supply has grown by what was minted.                                *)
LEMMA WeeksType ==
    ASSUME Token!TypeOK, NEW n \in Nat, NEW s, ByWeek(n, s), NEW k \in 0..n
    PROVE  /\ s[k].emission \in Nat /\ s[k].minted \in Nat /\ s[k].supply \in Nat
           /\ s[k].supply = totalSupply + s[k].minted
<1> DEFINE Good(r) == /\ r.emission \in Nat /\ r.minted \in Nat /\ r.supply \in Nat
                      /\ r.supply = totalSupply + r.minted
           P == {h \in 0..n : Good(s[h])}
<1>1. 0 \in P
  BY DEF ByWeek, Unminted, Token!TypeOK
<1>2. ASSUME NEW h \in 1..n, h - 1 \in P PROVE h \in P
  <2>1. PICK r, i : r = s[h - 1] /\ i = lastWeekEmissionSent + h /\ Good(r)
    BY <1>2
  <2>2. PICK e : e = IF i <= DecayWeeks THEN Token!Decayed(r.emission, config.multiplier)
                     ELSE Token!Inflated(r.supply, config.inflation)
    OBVIOUS
  <2>3. e \in Nat
    BY <2>1, <2>2, EmissionType
  <2>4. s[h].emission = e /\ s[h].supply = r.supply + e /\ s[h].minted = r.minted + e
    <3>1. s[h] = Minted(r, i)
      BY <2>1 DEF ByWeek
    <3>2. \E q : Minted(r, i) = [emission |-> e, supply |-> r.supply + e,
                                minted |-> r.minted + e, paid |-> q]
      BY <2>2, Zenon DEF Minted, Token!MintWeek
    <3> QED
      BY <3>1, <3>2
  <2>5. totalSupply \in Nat
    BY DEF Token!TypeOK
  <2> QED
    BY <2>1, <2>3, <2>4, <2>5
<1>3. k \in P
  <2> HIDE DEF P
  <2> QED BY <1>1, <1>2, WeekInduction
<1> QED
  BY <1>3

(* What is minted is added to the supply and to the recipient's balance.   *)
LEMMA MintedAdds ==
    ASSUME Token!TypeOK, Token!MintLiquidityEmissions
    PROVE  \E n \in Nat :
              /\ totalSupply' = totalSupply + n
              /\ balances' = [balances EXCEPT ![config.recipient] = @ + n]
              /\ drift' = [d \in Account |->
                             drift[d] - (IF d = delegates[config.recipient] THEN n ELSE 0)]
              /\ lastWeeklyEmission' \in Nat /\ lastWeekEmissionSent' \in Nat
<1>1. tokenTimestamp \in Nat /\ lastWeekEmissionSent \in Nat
  BY DEF Token!TypeOK
<1>2. PICK n \in Nat : \E s : ByWeek(n, s) /\ MintedAll = s[n] /\ Len(Weeks) = n
  BY <1>1, MintedWeekByWeek
<1>3. PICK s : ByWeek(n, s) /\ MintedAll = s[n] /\ Len(Weeks) = n
  BY <1>2
<1>4. PICK m : m = MintedAll.minted /\ m \in Nat /\ MintedAll.emission \in Nat
                /\ MintedAll.supply = totalSupply + m
  BY <1>3, WeeksType, n \in 0..n
<1>5. /\ totalSupply' = MintedAll.supply
      /\ balances' = [balances EXCEPT ![config.recipient] = @ + m]
      /\ drift' = [d \in Account |->
                     drift[d] - (IF d = delegates[config.recipient] THEN m ELSE 0)]
      /\ lastWeeklyEmission' = MintedAll.emission
      /\ lastWeekEmissionSent' = lastWeekEmissionSent + n
  BY <1>3, <1>4, Zenon DEF Token!MintLiquidityEmissions, MintedAll, Unminted, Weeks
<1>6. m \in Nat /\ lastWeeklyEmission' \in Nat /\ lastWeekEmissionSent' \in Nat
  BY <1>1, <1>4, <1>5
<1>7. totalSupply' = totalSupply + m
  BY <1>4, <1>5
<1> QED
  BY <1>5, <1>6, <1>7, Zenon

-----------------------------------------------------------------------------
LEMMA TokenInitInv == Token!Init => TokenInv
<1> SUFFICES ASSUME Token!Init PROVE TokenInv
  OBVIOUS
<1>1. Token!TypeOK
  <2>1. /\ Genesis \in Nat /\ INITIAL_LIQUIDITY_EMISSION \in Nat /\ InitialWeeks \in Nat
        /\ FirstRecipient \in Account
    BY TokenAssumption DEF Token!Assumptions
  <2>2. balances \in [Account -> Nat] /\ totalSupply \in Nat
    BY <2>1 DEF Token!Init
  <2>3. /\ delegates \in [Account -> Account \cup {NoDelegate}]
        /\ drift \in [Account -> Int]
    BY DEF Token!Init
  <2>4. checkpoints \in [Account -> Seq([fromBlock : Nat, votes : Nat])]
    <3>1. PICK c : c = <<>> /\ c \in Seq([fromBlock : Nat, votes : Nat])
      BY EmptySeq
    <3>2. checkpoints = [d \in Account |-> c]
      BY <3>1 DEF Token!Init
    <3> QED BY <3>1, <3>2
  <2>5. config \in Token!Config /\ pending \in Token!Config
    BY <2>1 DEF Token!Init, Token!Config
  <2> QED
    BY <2>1, <2>2, <2>3, <2>4, <2>5 DEF Token!Init, Token!TypeOK, Token!startTime
<1>2. totalSupply = SumIn(balances, Account)
  BY Zenon DEF Token!Init, Token!MapThenSumSet, Token!MapThenFoldSet,
       SumIn, MapThenSumSet, MapThenFoldSet
<1>3. ASSUME NEW d \in Account
      PROVE  Token!CurrentVotes(d) = drift[d] + SumIn(HeldBy(d), Account)
  <2>1. \A a \in Account : HeldBy(d)[a] = 0
    BY TokenAssumption DEF Token!Init, HeldBy, Token!Assumptions
  <2>2. PICK g : g = HeldBy(d)
    OBVIOUS
  <2>3. SumIn(g, Account) = 0
    BY <2>1, <2>2, AccountsFinite, SumZero
  <2> QED
    BY <2>2, <2>3 DEF Token!Init, Token!CurrentVotes, Token!VotesOf
<1> QED
  BY <1>1, <1>2, <1>3 DEF TokenInv

LEMMA TransferKeeps ==
    ASSUME TokenInv, NEW src \in Account, NEW dst \in Account, NEW amount \in Nat,
           Token!Transfer(src, dst, amount)
    PROVE  TokenInv'
<1>1. Token!TypeOK /\ amount <= balances[src]
  BY DEF TokenInv, Token!Transfer, Token!TypeOK
<1>2. delegates[src] \in Account \cup {NoDelegate} /\ delegates[dst] \in Account \cup {NoDelegate}
  BY <1>1 DEF Token!TypeOK
<1>3. /\ checkpoints' \in [Account -> Checkpoints]
      /\ \A d \in Account : Token!CurrentVotes(d)'
            = Token!CurrentVotes(d) - (IF d = delegates[src] THEN amount ELSE 0)
                                    + (IF d = delegates[dst] THEN amount ELSE 0)
  BY <1>1, <1>2, VotesMoved DEF Token!Transfer
<1>4. balances' \in [Account -> Nat]
  BY <1>1 DEF Token!Transfer, Token!TypeOK
<1>5. Token!TypeOK'
  BY <1>1, <1>3, <1>4 DEF Token!Transfer, Token!TypeOK, Token!clock, Token!configVars,
     Token!emissionVars, Checkpoints
<1>6. totalSupply' = totalSupply /\ delegates' = delegates /\ drift' = drift
  BY DEF Token!Transfer
<1>7. CASE src = dst
  <2>1. balances' = balances
    BY <1>1, <1>7 DEF Token!Transfer, Token!TypeOK
  <2>2. \A d \in Account : Token!CurrentVotes(d)' = Token!CurrentVotes(d)
    BY <1>1, <1>3, <1>7, VotesType
  <2>3. \A d \in Account : HeldBy(d)' = HeldBy(d)
    BY <1>6, <2>1 DEF HeldBy
  <2> QED
    BY <1>5, <1>6, <2>1, <2>2, <2>3 DEF TokenInv
<1>8. CASE src # dst
  <2>1. balances'[src] = balances[src] - amount /\ balances'[dst] = balances[dst] + amount
    BY <1>1, <1>8 DEF Token!Transfer, Token!TypeOK
  <2>2. \A a \in Account \ {src, dst} : balances'[a] = balances[a]
    BY <1>1 DEF Token!Transfer, Token!TypeOK
  <2>3. SumIn(balances', Account) = SumIn(balances, Account)
    <3>1. balances \in [Account -> Int]
      BY <1>1 DEF Token!TypeOK
    <3> QED
      BY <1>8, <2>1, <2>2, <3>1, AccountsFinite, SumMoved
  <2>4. ASSUME NEW d \in Account
        PROVE  Token!CurrentVotes(d)' = drift'[d] + SumIn(HeldBy(d)', Account)
    <3>1. PICK f, g : f = HeldBy(d) /\ g = HeldBy(d)'
      OBVIOUS
    <3>2. PICK m \in Int, n \in Int : /\ m = IF d = delegates[src] THEN amount ELSE 0
                                      /\ n = IF d = delegates[dst] THEN amount ELSE 0
      OBVIOUS
    <3>3. f \in [Account -> Int]
      BY <1>1, <3>1 DEF HeldBy, Token!TypeOK
    <3>4. f[src] \in Int /\ f[dst] \in Int /\ \A a \in Account : f[a] \in Int
      BY <3>3
    <3>5. g[src] = f[src] - m /\ g[dst] = f[dst] + n
      BY <1>1, <1>6, <2>1, <3>1, <3>2 DEF HeldBy, Token!TypeOK
    <3>6. \A a \in Account \ {src, dst} : g[a] = f[a]
      BY <1>6, <2>2, <3>1 DEF HeldBy
    <3>7. g[src] \in Int /\ g[dst] \in Int /\ g[src] - f[src] = 0 - m /\ g[dst] - f[dst] = n
      BY <3>4, <3>5
    <3>8. \A a \in Account : f[a] \in Int
      BY <3>4
    <3>9. g[src] \in Int
      BY <3>7
    <3>10. g[dst] \in Int
      BY <3>7
    <3>11. SumIn(g, Account) = SumIn(f, Account) + (g[src] - f[src]) + (g[dst] - f[dst])
      BY ONLY AccountsFinite, src \in Account, dst \in Account, <1>8, <3>6, <3>8, <3>9, <3>10,
         SumChangeTwo
    <3>12. SumIn(f, Account) \in Int
      BY ONLY AccountsFinite, <3>8, SumInt
    <3>13. PICK v \in Int, w \in Int, x \in Int :
              /\ v = SumIn(f, Account) /\ w = drift[d] /\ x = Token!CurrentVotes(d)
      BY <1>1, <3>12, VotesType DEF Token!TypeOK
    <3>14. SumIn(g, Account) = v + (0 - m) + n
      BY <3>7, <3>11, <3>13, Zenon
    <3>15. Token!CurrentVotes(d)' = x - m + n
      BY <1>3, <3>2, <3>13, Zenon
    <3>16. x = w + v
      BY <3>1, <3>13, Zenon DEF TokenInv
    <3>17. drift'[d] + SumIn(HeldBy(d)', Account) = w + (v + (0 - m) + n)
      BY <1>6, <3>1, <3>13, <3>14, Zenon
    <3> QED
      BY <3>15, <3>16, <3>17
  <2> QED
    BY <1>5, <1>6, <2>3, <2>4 DEF TokenInv
<1> QED
  BY <1>7, <1>8
(* One account changes what it adds to a sum.                             *)
LEMMA AccountSum ==
    ASSUME NEW a \in Account, NEW f, NEW g, \A x \in Account : f[x] \in Int, g[a] \in Int,
           \A x \in Account \ {a} : g[x] = f[x]
    PROVE  SumIn(g, Account) = SumIn(f, Account) + (g[a] - f[a])
BY AccountsFinite, SumChange

LEMMA DelegateKeeps ==
    ASSUME TokenInv, NEW a \in Account, NEW to \in Account \cup {NoDelegate}, Token!Delegate(a, to)
    PROVE  TokenInv'
<1>1. Token!TypeOK
  BY DEF TokenInv
<1>2. PICK n \in Nat : n = balances[a]
  BY <1>1 DEF Token!TypeOK
<1>3. delegates[a] \in Account \cup {NoDelegate}
  BY <1>1 DEF Token!TypeOK
<1>4. /\ checkpoints' \in [Account -> Checkpoints]
      /\ \A d \in Account : Token!CurrentVotes(d)'
            = Token!CurrentVotes(d) - (IF d = delegates[a] THEN n ELSE 0)
                                    + (IF d = to THEN n ELSE 0)
  <2>1. Token!CanMoveDelegates(delegates[a], to, n) /\ Token!MoveDelegates(delegates[a], to, n)
    BY <1>2 DEF Token!Delegate
  <2> QED
    BY <1>1, <1>3, <2>1, VotesMoved
<1>5. /\ totalSupply' = totalSupply /\ balances' = balances /\ drift' = drift
      /\ delegates' = [delegates EXCEPT ![a] = to]
  BY DEF Token!Delegate
<1>6. Token!TypeOK'
  BY <1>1, <1>4, <1>5 DEF Token!Delegate, Token!TypeOK, Token!clock, Token!configVars,
     Token!emissionVars, Checkpoints
<1>7. ASSUME NEW d \in Account
      PROVE  Token!CurrentVotes(d)' = drift'[d] + SumIn(HeldBy(d)', Account)
  <2>1. PICK f, g : f = HeldBy(d) /\ g = HeldBy(d)'
    OBVIOUS
  <2>2. PICK m \in Int, k \in Int : /\ m = IF d = delegates[a] THEN n ELSE 0
                                    /\ k = IF d = to THEN n ELSE 0
    OBVIOUS
  <2>3. f \in [Account -> Int] /\ f[a] = m
    BY <1>1, <1>2, <2>1, <2>2 DEF HeldBy, Token!TypeOK
  <2>4. g[a] = k /\ g[a] \in Int /\ g[a] - f[a] = k - m
    BY <1>1, <1>2, <1>5, <2>1, <2>2, <2>3 DEF HeldBy, Token!TypeOK
  <2>5. SumIn(g, Account) = SumIn(f, Account) + (k - m)
    <3>1. \A x \in Account \ {a} : g[x] = f[x]
      BY <1>1, <1>5, <2>1 DEF HeldBy, Token!TypeOK
    <3>2. \A x \in Account : f[x] \in Int
      BY <2>3
    <3>3. g[a] \in Int
      BY <2>4
    <3>4. SumIn(g, Account) = SumIn(f, Account) + (g[a] - f[a])
      BY <3>1, <3>2, <3>3, AccountSum
    <3> QED
      BY <2>4, <3>4, Zenon
  <2>6. \A x \in Account : f[x] \in Int
    BY <2>3
  <2>7. SumIn(f, Account) \in Int
    BY ONLY AccountsFinite, <2>6, SumInt
  <2>8. PICK v \in Int, w \in Int, x \in Int :
           /\ v = SumIn(f, Account) /\ w = drift[d] /\ x = Token!CurrentVotes(d)
    BY <1>1, <2>7, VotesType DEF Token!TypeOK
  <2>9. x = w + v
    BY <2>1, <2>8, Zenon DEF TokenInv
  <2>10. Token!CurrentVotes(d)' = x - m + k
    BY <1>4, <2>2, <2>8, Zenon
  <2>11. drift'[d] + SumIn(HeldBy(d)', Account) = w + (v + (k - m))
    BY <1>5, <2>1, <2>5, <2>8, Zenon
  <2> QED
    BY <2>9, <2>10, <2>11
<1> QED
  BY <1>5, <1>6, <1>7 DEF TokenInv

(* Tokens are minted or burnt: the supply follows the balance, and what    *)
(* the votes are short of, or exceed it by, is noted.                      *)
LEMMA SupplyChanged ==
    ASSUME TokenInv, NEW a \in Account, NEW n \in Int, Token!TypeOK',
           balances' = [balances EXCEPT ![a] = @ + n], totalSupply' = totalSupply + n,
           drift' = [d \in Account |-> drift[d] - (IF d = delegates[a] THEN n ELSE 0)],
           delegates' = delegates, checkpoints' = checkpoints
    PROVE  TokenInv'
<1>1. Token!TypeOK
  BY DEF TokenInv
<1>2. totalSupply' = SumIn(balances', Account)
  BY <1>1, BalanceChanged DEF TokenInv
<1>3. ASSUME NEW d \in Account
      PROVE  Token!CurrentVotes(d)' = drift'[d] + SumIn(HeldBy(d)', Account)
  <2>1. PICK m \in Int : m = IF d = delegates[a] THEN n ELSE 0
    OBVIOUS
  <2>2. SumIn(HeldBy(d)', Account) = SumIn(HeldBy(d), Account) + m
    BY <1>1, <2>1, BalanceChanged
  <2>3. drift'[d] = drift[d] - m
    BY <2>1
  <2>4. Token!CurrentVotes(d)' = Token!CurrentVotes(d)
    BY DEF Token!CurrentVotes
  <2>5. \A x \in Account : HeldBy(d)[x] \in Int
    BY <1>1 DEF HeldBy, Token!TypeOK
  <2>6. PICK f : f = HeldBy(d) /\ \A x \in Account : f[x] \in Int
    BY <2>5
  <2>7. SumIn(f, Account) \in Int
    BY ONLY AccountsFinite, <2>6, SumInt
  <2>8. PICK v \in Int, w \in Int, x \in Int :
           /\ v = SumIn(HeldBy(d), Account) /\ w = drift[d] /\ x = Token!CurrentVotes(d)
    BY <1>1, <2>6, <2>7, VotesType, SMTT(60) DEF Token!TypeOK
  <2>9. x = w + v
    BY <2>8, Zenon DEF TokenInv
  <2>10. drift'[d] + SumIn(HeldBy(d)', Account) = (w - m) + (v + m)
    BY <2>2, <2>3, <2>8, Zenon
  <2>11. (w - m) + (v + m) = x
    BY <2>9
  <2> QED
    BY <2>4, <2>8, <2>10, <2>11, Zenon
<1> QED
  BY <1>2, <1>3 DEF TokenInv

LEMMA BurnKeeps ==
    ASSUME TokenInv, NEW a \in Account, NEW amount \in Nat, Token!Burn(a, amount)
    PROVE  TokenInv'
<1>1. /\ amount <= balances[a]
      /\ balances' = [balances EXCEPT ![a] = @ - amount]
      /\ totalSupply' = totalSupply - amount
      /\ drift' = [d \in Account |-> drift[d] + (IF d = delegates[a] THEN amount ELSE 0)]
      /\ delegates' = delegates /\ checkpoints' = checkpoints
  BY DEF Token!Burn, TokenInv, Token!TypeOK
<1>2. Token!TypeOK
  BY DEF TokenInv
<1>3. balances[a] <= totalSupply
  <2>1. \A x \in Account : balances[x] \in Nat
    BY <1>2 DEF Token!TypeOK
  <2>2. balances[a] <= SumIn(balances, Account)
    BY <2>1, AccountsFinite, SumNat
  <2> QED
    BY <2>2 DEF TokenInv
<1>4. totalSupply' \in Nat
  BY <1>1, <1>2, <1>3 DEF Token!TypeOK
<1>5. balances' \in [Account -> Nat]
  BY <1>1, <1>2 DEF Token!TypeOK
<1>6. drift' \in [Account -> Int]
  BY <1>1, <1>2 DEF Token!TypeOK
<1>7. Token!TypeOK'
  BY <1>1, <1>2, <1>4, <1>5, <1>6 DEF Token!Burn, Token!TypeOK, Token!clock, Token!configVars,
     Token!emissionVars
<1>8. PICK n \in Int : n = 0 - amount
  OBVIOUS
<1>9. balances' = [balances EXCEPT ![a] = @ + n]
  <2>1. balances[a] \in Nat /\ balances[a] - amount = balances[a] + n
    BY <1>2, <1>8 DEF Token!TypeOK
  <2> QED
    BY <1>1, <2>1, Zenon
<1>10. totalSupply' = totalSupply + n
  BY <1>1, <1>2, <1>8 DEF Token!TypeOK
<1>11. drift' = [d \in Account |-> drift[d] - (IF d = delegates[a] THEN n ELSE 0)]
  BY <1>1, <1>2, <1>8 DEF Token!TypeOK
<1> QED
  BY <1>1, <1>7, <1>9, <1>10, <1>11, SupplyChanged

LEMMA MintKeeps ==
    ASSUME TokenInv, Token!MintLiquidityEmissions,
           UNCHANGED <<tokenBlock, tokenTimestamp, delegates, checkpoints, pending>>,
           config' \in Token!Config, configChangesInitiated' \in Nat
    PROVE  TokenInv'
<1>1. Token!TypeOK /\ config.recipient \in Account
  BY DEF TokenInv, Token!TypeOK, Token!Config
<1>2. PICK n \in Nat :
         /\ totalSupply' = totalSupply + n
         /\ balances' = [balances EXCEPT ![config.recipient] = @ + n]
         /\ drift' = [d \in Account |->
                        drift[d] - (IF d = delegates[config.recipient] THEN n ELSE 0)]
         /\ lastWeeklyEmission' \in Nat /\ lastWeekEmissionSent' \in Nat
  BY <1>1, MintedAdds
<1>3. balances' \in [Account -> Nat] /\ totalSupply' \in Nat
  BY <1>1, <1>2 DEF Token!TypeOK
<1>4. drift' \in [Account -> Int]
  BY <1>1, <1>2 DEF Token!TypeOK
<1>5. Token!TypeOK'
  BY <1>1, <1>2, <1>3, <1>4 DEF Token!TypeOK
<1>6. n \in Int
  OBVIOUS
<1> QED
  BY <1>1, <1>2, <1>5, <1>6, SupplyChanged

LEMMA BooksUntouched ==
    ASSUME TokenInv, Token!TypeOK',
           UNCHANGED <<balances, totalSupply, delegates, checkpoints, drift>>
    PROVE  TokenInv'
<1>1. \A d \in Account : /\ HeldBy(d)' = HeldBy(d)
                         /\ Token!CurrentVotes(d)' = Token!CurrentVotes(d)
  BY DEF HeldBy, Token!CurrentVotes
<1> QED
  BY <1>1 DEF TokenInv

LEMMA TokenNextInv == TokenInv /\ [Token!Next]_(Token!vars) => TokenInv'
<1> SUFFICES ASSUME TokenInv, [Token!Next]_(Token!vars) PROVE TokenInv'
  OBVIOUS
<1>0. Token!TypeOK
  BY DEF TokenInv
<1>1. ASSUME NEW src \in Account, NEW dst \in Account, NEW amount \in 1..balances[src],
             Token!Transfer(src, dst, amount)
      PROVE  TokenInv'
  <2>1. amount \in Nat
    BY <1>0 DEF Token!TypeOK
  <2> QED
    BY <1>1, <2>1, TransferKeeps
<1>2. ASSUME NEW a \in Account, NEW to \in Account \cup {NoDelegate}, Token!Delegate(a, to)
      PROVE  TokenInv'
  BY <1>2, DelegateKeeps
<1>3. ASSUME NEW a \in Account, NEW amount \in 1..balances[a], Token!Burn(a, amount)
      PROVE  TokenInv'
  <2>1. amount \in Nat
    BY <1>0 DEF Token!TypeOK
  <2> QED
    BY <1>3, <2>1, BurnKeeps
<1>4. ASSUME NEW settings \in Token!Config, Token!InitiateConfigChanges(settings)
      PROVE  TokenInv'
  <2>1. Token!TypeOK'
    BY <1>0, <1>4 DEF Token!InitiateConfigChanges, Token!TypeOK, Token!clock, Token!emissionVars
  <2> QED
    BY <1>4, <2>1, BooksUntouched DEF Token!InitiateConfigChanges
<1>5. CASE Token!ApplyConfigChanges
  <2>1. config' \in Token!Config /\ configChangesInitiated' \in Nat
    BY <1>0, <1>5 DEF Token!ApplyConfigChanges, Token!TypeOK
  <2> QED
    BY <1>5, <2>1, MintKeeps DEF Token!ApplyConfigChanges, Token!clock
<1>6. CASE Token!ClaimLiquidityEmissions
  <2>1. config' \in Token!Config /\ configChangesInitiated' \in Nat
    BY <1>0, <1>6 DEF Token!ClaimLiquidityEmissions, Token!TypeOK, Token!configVars
  <2> QED
    BY <1>6, <2>1, MintKeeps DEF Token!ClaimLiquidityEmissions, Token!clock, Token!configVars
<1>7. CASE Token!NextBlock
  <2>1. PICK t \in TokenBlockTime : tokenTimestamp' = tokenTimestamp + t
    BY <1>7 DEF Token!NextBlock
  <2>2. tokenTimestamp' \in Nat /\ tokenBlock' \in Nat
    BY <1>0, <1>7, <2>1, TokenAssumption DEF Token!NextBlock, Token!TypeOK, Token!Assumptions
  <2>3. Token!TypeOK'
    BY <1>0, <1>7, <2>2 DEF Token!NextBlock, Token!TypeOK, Token!configVars, Token!emissionVars
  <2> QED
    BY <1>7, <2>3, BooksUntouched DEF Token!NextBlock
<1>8. CASE UNCHANGED Token!vars
  <2>1. Token!TypeOK'
    BY <1>0, <1>8 DEF Token!vars, Token!clock, Token!configVars, Token!emissionVars, Token!TypeOK
  <2> QED
    BY <1>8, <2>1, BooksUntouched DEF Token!vars
<1> QED
  BY <1>1, <1>2, <1>3, <1>4, <1>5, <1>6, <1>7, <1>8 DEF Token!Next

(* Beside Governance the token behaves as it does alone.                   *)
LEMMA VotingHasToken == VotingSpec => Token!Spec
<1>1. VotingInit => Token!Init
  BY DEF VotingInit
<1>2. [VotingNext]_<<vars, tokenVars, component, steps>> => [Token!Next]_(Token!vars)
  BY DEF VotingNext, TokenNext, tokenVars, Token!vars, Token!clock, Token!configVars, Token!emissionVars
<1> QED
  BY <1>1, <1>2, PTL DEF VotingSpec, Token!Spec

LEMMA TokenBooksAgree == Token!Spec => []Token!VotesAreBalances
<1>1. Token!Spec => []TokenInv
  BY TokenInitInv, TokenNextInv, PTL DEF Token!Spec
<1> QED
  BY <1>1, TokenInvImplies, PTL

(* However tokens are transferred, delegated, burnt and minted: a delegate *)
(* has the votes of the balances that are delegated to it, but for what    *)
(* was burnt and minted, and the balances make up the supply (transfer,    *)
(* delegate, _mint, _burn and _moveDelegates of PENDLE.sol).               *)
THEOREM VotesFollowBalances == VotingSpec => []VotesAreBalances
<1>1. Token!VotesAreBalances => VotesAreBalances
  BY DEF VotesAreBalances
<1> QED
  BY <1>1, VotingHasToken, TokenBooksAgree, PTL

-----------------------------------------------------------------------------
(***************************************************************************)
(* The weekly emissions.  Due is defined by recursion over the weeks: some *)
(* function satisfies its equation, so Due does, and what it says of a     *)
(* week depends on the settings of that week and the earlier ones only.    *)
(***************************************************************************)
DueStep(g, c, w) ==
    IF w <= InitialWeeks THEN INITIAL_LIQUIDITY_EMISSION
    ELSE Token!Decayed(g[w - 1], c[w].multiplier)

DueUntil(g, c, n) == \A w \in 0..n : g[w] = DueStep(g, c, w)

LEMMA DueExists ==
    ASSUME NEW c, NEW n \in Nat
    PROVE  \E g : DueUntil(g, c, n)
<1> USE TokenAssumption DEF Token!Assumptions
<1> DEFINE N == {k \in Nat : \E g : DueUntil(g, c, k)}
<1>1. 0 \in N
  <2> DEFINE g == [w \in {0} |-> INITIAL_LIQUIDITY_EMISSION]
  <2>1. DueUntil(g, c, 0)
    BY DEF DueUntil, DueStep
  <2> QED
    BY <2>1
<1>2. ASSUME NEW k \in Nat, k \in N PROVE k + 1 \in N
  <2>1. PICK g : DueUntil(g, c, k)
    BY <1>2
  <2> DEFINE h == [w \in 0..(k + 1) |-> IF w = k + 1 THEN DueStep(g, c, w) ELSE g[w]]
  <2>2. ASSUME NEW w \in 0..(k + 1) PROVE h[w] = DueStep(h, c, w)
    <3>1. h[w] = DueStep(g, c, w)
      BY <2>1 DEF DueUntil
    <3>2. w > InitialWeeks => h[w - 1] = g[w - 1]
      OBVIOUS
    <3> HIDE DEF h
    <3> QED
      BY <3>1, <3>2 DEF DueStep
  <2> HIDE DEF h
  <2>3. DueUntil(h, c, k + 1)
    BY <2>2 DEF DueUntil
  <2> QED
    BY <2>3
<1>3. Nat \subseteq N
  <2> HIDE DEF N
  <2> QED BY <1>1, <1>2, NatSetInduction
<1> QED
  BY <1>3

LEMMA DueUnique ==
    ASSUME NEW c, NEW d, NEW n \in Nat, NEW g, NEW h, DueUntil(g, c, n), DueUntil(h, d, n),
           \A w \in 1..n : w > InitialWeeks => c[w] = d[w]
    PROVE  \A w \in 0..n : g[w] = h[w]
<1> USE TokenAssumption DEF Token!Assumptions
<1> DEFINE P == {w \in 0..n : g[w] = h[w]}
<1>1. 0 \in P
  BY DEF DueUntil, DueStep
<1>2. ASSUME NEW w \in 1..n, w - 1 \in P PROVE w \in P
  <2>1. g[w] = DueStep(g, c, w) /\ h[w] = DueStep(h, d, w) /\ g[w - 1] = h[w - 1]
    BY <1>2 DEF DueUntil
  <2>2. DueStep(g, c, w) = DueStep(h, d, w)
    BY <2>1 DEF DueStep
  <2> QED
    BY <2>1, <2>2
<1>3. 0..n \subseteq P
  <2> HIDE DEF P
  <2> QED BY <1>1, <1>2, WeekInduction
<1> QED
  BY <1>3

LEMMA DueSame ==
    ASSUME NEW c, NEW n \in Nat, NEW g, NEW h, DueUntil(g, c, n), DueUntil(h, c, n)
    PROVE  \A w \in 0..n : g[w] = h[w]
<1>1. PICK d : d = c
  OBVIOUS
<1>2. DueUntil(h, d, n) /\ \A w \in 1..n : w > InitialWeeks => c[w] = d[w]
  BY <1>1
<1> QED
  BY ONLY n \in Nat, DueUntil(g, c, n), <1>2, DueUnique

LEMMA DueEverywhere ==
    ASSUME NEW c
    PROVE  \E g : g = [w \in Nat |-> IF w <= InitialWeeks THEN INITIAL_LIQUIDITY_EMISSION
                                     ELSE Token!Decayed(g[w - 1], c[w].multiplier)]
<1> USE TokenAssumption DEF Token!Assumptions
<1> DEFINE until(n) == CHOOSE h : DueUntil(h, c, n)
<1>1. \A n \in Nat : DueUntil(until(n), c, n)
  BY DueExists
<1> HIDE DEF until
<1> DEFINE g == [w \in Nat |-> until(w)[w]]
<1>2. ASSUME NEW w \in Nat
      PROVE  g[w] = IF w <= InitialWeeks THEN INITIAL_LIQUIDITY_EMISSION
                    ELSE Token!Decayed(g[w - 1], c[w].multiplier)
  <2>1. until(w)[w] = DueStep(until(w), c, w)
    BY <1>1 DEF DueUntil
  <2>2. CASE w <= InitialWeeks
    BY <2>1, <2>2 DEF DueStep
  <2>3. CASE w > InitialWeeks
    <3>1. w - 1 \in Nat /\ w - 1 \in 0..(w - 1) /\ 0..(w - 1) \subseteq 0..w
      BY <2>3
    <3>2. PICK p, q : p = until(w) /\ q = until(w - 1)
      OBVIOUS
    <3>3. DueUntil(p, c, w - 1) /\ DueUntil(q, c, w - 1)
      BY <1>1, <3>1, <3>2 DEF DueUntil
    <3>4. p[w - 1] = q[w - 1]
      <4>1. PICK v \in Nat : v = w - 1
        BY <3>1
      <4>2. DueUntil(p, c, v) /\ DueUntil(q, c, v)
        BY <3>3, <4>1
      <4>3. \A x \in 0..v : p[x] = q[x]
        BY ONLY v \in Nat, <4>2, DueSame
      <4> QED
        BY <4>1, <4>3
    <3>5. g[w] = until(w)[w] /\ g[w - 1] = until(w - 1)[w - 1]
      BY <3>1
    <3> HIDE DEF g
    <3> QED
      BY <2>1, <2>3, <3>2, <3>4, <3>5 DEF DueStep
  <2> QED
    BY <2>2, <2>3
<1>3. g = [w \in Nat |-> g[w]]
  OBVIOUS
<1> HIDE DEF g
<1>4. g = [w \in Nat |-> IF w <= InitialWeeks THEN INITIAL_LIQUIDITY_EMISSION
                         ELSE Token!Decayed(g[w - 1], c[w].multiplier)]
  BY <1>2, <1>3
<1> QED
  BY <1>4

LEMMA DueIs ==
    ASSUME NEW n \in Nat
    PROVE  DueUntil(Token!Due, weekConfig, n)
<1> DEFINE E(g) == g = [w \in Nat |-> IF w <= InitialWeeks THEN INITIAL_LIQUIDITY_EMISSION
                                      ELSE Token!Decayed(g[w - 1], weekConfig[w].multiplier)]
<1>1. Token!Due = CHOOSE g : E(g)
  BY DEF Token!Due
<1>2. \E g : E(g)
  BY DueEverywhere
<1> HIDE DEF E
<1>3. E(Token!Due)
  BY <1>1, <1>2
<1>4. \A w \in 0..n : w \in Nat
  OBVIOUS
<1> QED
  BY <1>3, <1>4 DEF E, DueUntil, DueStep

LEMMA DueIsAfter ==
    ASSUME NEW n \in Nat
    PROVE  DueUntil(Token!Due', weekConfig', n)
<1> DEFINE E(g) == g = [w \in Nat |-> IF w <= InitialWeeks THEN INITIAL_LIQUIDITY_EMISSION
                                      ELSE Token!Decayed(g[w - 1], weekConfig'[w].multiplier)]
<1>1. Token!Due' = CHOOSE g : E(g)
  BY DEF Token!Due
<1>2. \E g : E(g)
  BY DueEverywhere
<1> HIDE DEF E
<1>3. E(Token!Due')
  BY <1>1, <1>2
<1>4. \A w \in 0..n : w \in Nat
  OBVIOUS
<1> QED
  BY <1>3, <1>4 DEF E, DueUntil, DueStep

-----------------------------------------------------------------------------
(* What is recorded of the payment that comes at place k.                  *)
PaymentOK(p, k) ==
    /\ p.week = InitialWeeks + k
    /\ p.recipient = weekConfig[p.week].recipient
    /\ p.amount = IF p.week <= DecayWeeks THEN Token!Due[p.week]
                  ELSE Token!Inflated(p.supply, weekConfig[p.week].inflation)

Payment == [week : Nat, recipient : Account, amount : Nat, supply : Nat]

(* The weeks that have begun have their settings; those that are not paid  *)
(* yet began under the settings in force.                                  *)
WeeksInv ==
    /\ paid \in Seq(Payment)
    /\ lastWeekEmissionSent = InitialWeeks + Len(paid)
    /\ Len(paid) > 0 => lastWeekEmissionSent <= Token!WeekOf(tokenTimestamp)
    /\ DOMAIN weekConfig = 1..Token!WeekOf(tokenTimestamp)
    /\ \A w \in 1..Token!WeekOf(tokenTimestamp) :
          w > lastWeekEmissionSent => weekConfig[w] = config
    /\ lastWeekEmissionSent <= DecayWeeks => lastWeeklyEmission = Token!Due[lastWeekEmissionSent]
    /\ \A k \in 1..Len(paid) : PaymentOK(paid[k], k)

LEMMA WeeksInvImplies == WeeksInv => Token!WeeksFollowTheirConfig
<1> SUFFICES ASSUME WeeksInv PROVE Token!WeeksFollowTheirConfig
  OBVIOUS
<1>1. lastWeekEmissionSent = InitialWeeks + Len(paid) /\ DOMAIN paid = 1..Len(paid)
  BY DEF WeeksInv
<1>2. \A k \in 1..Len(paid) : PaymentOK(paid[k], k)
  BY DEF WeeksInv
<1> QED
  BY <1>1, <1>2, Zenon DEF Token!WeeksFollowTheirConfig, PaymentOK

LEMMA WeekNumbers ==
    ASSUME NEW t \in Nat, NEW u \in Nat, t <= u
    PROVE  /\ Token!WeekOf(t) \in Int /\ Token!WeekOf(u) \in Int
           /\ Token!WeekOf(t) <= Token!WeekOf(u)
<1>1. Week \in Nat \ {0}
  BY TokenAssumption DEF Token!Assumptions
<1>2. PICK x \in Int, y \in Int : x = t - 1 /\ y = u - 1 /\ x <= y
  OBVIOUS
<1>3. PICK p \in Int, q \in Int : p = x \div Week /\ q = y \div Week
  BY <1>1
<1>4. p * Week <= x /\ y < (q + 1) * Week
  BY <1>1, <1>3
<1>5. p <= q
  <2>1. SUFFICES ASSUME q + 1 <= p PROVE FALSE
    OBVIOUS
  <2>2. (q + 1) * Week <= p * Week
    <3>1. PICK d \in Nat : p = q + 1 + d
      BY <2>1
    <3>2. d * Week \in Nat /\ p * Week = (q + 1) * Week + d * Week
      BY <1>1, <3>1
    <3>3. (q + 1) * Week \in Int
      BY <1>1
    <3> QED
      BY <3>2, <3>3
  <2>3. (q + 1) * Week \in Int /\ p * Week \in Int
    BY <1>1
  <2> QED
    BY <1>2, <1>4, <2>2, <2>3
<1>6. Token!WeekOf(t) = p + 1 /\ Token!WeekOf(u) = q + 1
  BY <1>2, <1>3 DEF Token!WeekOf, Token!startTime
<1> QED
  BY <1>5, <1>6

LEMMA WeeksInit == Token!Init => WeeksInv
<1> SUFFICES ASSUME Token!Init PROVE WeeksInv
  OBVIOUS
<1>1. paid = <<>> /\ paid \in Seq(Payment) /\ Len(paid) = 0
  BY EmptySeq DEF Token!Init
<1>2. InitialWeeks \in Nat \ {0} /\ Week \in Nat \ {0}
  BY TokenAssumption DEF Token!Assumptions
<1>3. Token!WeekOf(tokenTimestamp) = 1 /\ lastWeekEmissionSent = InitialWeeks
  BY <1>2 DEF Token!Init, Token!WeekOf, Token!startTime
<1>4. weekConfig = <<config>> /\ DOMAIN weekConfig = 1..1
  BY DEF Token!Init
<1>5. lastWeeklyEmission = Token!Due[lastWeekEmissionSent]
  <2>1. Token!Due[InitialWeeks] = INITIAL_LIQUIDITY_EMISSION
    <3>1. InitialWeeks \in 0..InitialWeeks
      BY <1>2
    <3> QED BY <1>2, <3>1, DueIs DEF DueUntil, DueStep
  <2> QED
    BY <1>3, <2>1 DEF Token!Init
<1> QED
  BY <1>1, <1>2, <1>3, <1>4, <1>5 DEF WeeksInv

(* Only a new week adds settings: those of earlier weeks, and so what is   *)
(* due for them, stay.                                                     *)
LEMMA DueKept ==
    ASSUME NEW n \in Nat, \A w \in 1..n : w > InitialWeeks => weekConfig'[w] = weekConfig[w]
    PROVE  Token!Due'[n] = Token!Due[n]
<1>1. DueUntil(Token!Due, weekConfig, n) /\ DueUntil(Token!Due', weekConfig', n)
  BY DueIs, DueIsAfter
<1>2. PICK g, h, c, d : /\ g = Token!Due' /\ h = Token!Due /\ c = weekConfig' /\ d = weekConfig
                        /\ \A w \in 1..n : w > InitialWeeks => c[w] = d[w]
  OBVIOUS
<1>3. DueUntil(g, c, n) /\ DueUntil(h, d, n)
  BY <1>1, <1>2
<1>4. \A w \in 0..n : g[w] = h[w]
  BY ONLY n \in Nat, <1>2, <1>3, DueUnique
<1> QED
  BY <1>2, <1>4
LEMMA PaymentAdded ==
    ASSUME NEW q \in Seq(Payment), NEW x \in Payment
    PROVE  /\ Append(q, x) \in Seq(Payment) /\ Len(Append(q, x)) = Len(q) + 1
           /\ Append(q, x)[Len(q) + 1] = x
           /\ \A k \in 1..Len(q) : Append(q, x)[k] = q[k]
OBVIOUS

(* Late weeks are minted as if each had been minted when it began.         *)
LEMMA MintPaysDue ==
    ASSUME Token!TypeOK, WeeksInv, Token!MintLiquidityEmissions,
           UNCHANGED <<tokenTimestamp, weekConfig>>
    PROVE  WeeksInv'
<1>1. tokenTimestamp \in Nat /\ lastWeekEmissionSent \in Nat /\ lastWeeklyEmission \in Nat
  BY DEF Token!TypeOK
<1>2. PICK n \in Nat : \E s :
         /\ ByWeek(n, s) /\ MintedAll = s[n] /\ Len(Weeks) = n
         /\ n > 0 => lastWeekEmissionSent + n = Token!WeekOf(tokenTimestamp)
         /\ n = 0 => Token!WeekOf(tokenTimestamp) <= lastWeekEmissionSent
  BY <1>1, MintedWeekByWeek
<1>3. PICK s :
         /\ ByWeek(n, s) /\ MintedAll = s[n] /\ Len(Weeks) = n
         /\ n > 0 => lastWeekEmissionSent + n = Token!WeekOf(tokenTimestamp)
         /\ n = 0 => Token!WeekOf(tokenTimestamp) <= lastWeekEmissionSent
  BY <1>2
<1>4. PICK last \in Nat, now \in Int, sent \in Nat :
         last = lastWeekEmissionSent /\ now = Token!WeekOf(tokenTimestamp) /\ sent = Len(paid)
  BY <1>1, WeekNumbers DEF WeeksInv
<1>5. InitialWeeks \in Nat \ {0} /\ last = InitialWeeks + sent
  BY <1>4, TokenAssumption DEF Token!Assumptions, WeeksInv
<1> DEFINE Good(r, k) ==
             /\ r.paid \in Seq(Payment) /\ Len(r.paid) = sent + k
             /\ last + k <= DecayWeeks => r.emission = Token!Due[last + k]
             /\ \A j \in 1..(sent + k) : PaymentOK(r.paid[j], j)
           P == {k \in 0..n : Good(s[k], k)}
<1>6. 0 \in P
  <2>1. s[0].paid = paid /\ s[0].emission = lastWeeklyEmission
    BY <1>3 DEF ByWeek, Unminted
  <2>2. paid \in Seq(Payment) /\ \A j \in 1..sent : PaymentOK(paid[j], j)
    BY <1>4 DEF WeeksInv
  <2>3. last <= DecayWeeks => lastWeeklyEmission = Token!Due[last]
    BY <1>4 DEF WeeksInv
  <2> QED
    BY <1>4, <2>1, <2>2, <2>3
<1>7. ASSUME NEW k \in 1..n, k - 1 \in P PROVE k \in P
  <2>1. PICK r, i : r = s[k - 1] /\ i = last + k
    OBVIOUS
  <2>2. /\ r.paid \in Seq(Payment) /\ Len(r.paid) = sent + (k - 1)
        /\ last + (k - 1) <= DecayWeeks => r.emission = Token!Due[last + (k - 1)]
        /\ \A j \in 1..(sent + (k - 1)) : PaymentOK(r.paid[j], j)
    BY <1>7, <2>1
  <2>3. r.emission \in Nat /\ r.supply \in Nat
    BY <1>3, <2>1, WeeksType, k - 1 \in 0..n
  <2>4. PICK e : e = IF i <= DecayWeeks THEN Token!Decayed(r.emission, config.multiplier)
                     ELSE Token!Inflated(r.supply, config.inflation)
    OBVIOUS
  <2>5. e \in Nat
    BY <2>3, <2>4, EmissionType
  <2>6. PICK x : x = [week |-> i, recipient |-> config.recipient, amount |-> e,
                      supply |-> r.supply]
    OBVIOUS
  <2>7. s[k].emission = e /\ s[k].paid = Append(r.paid, x)
    <3>1. s[k] = Minted(r, i)
      BY <1>3, <1>4, <2>1 DEF ByWeek
    <3>2. Minted(r, i) = [emission |-> e, supply |-> r.supply + e, minted |-> r.minted + e,
                          paid |-> Append(r.paid, x)]
      BY <2>4, <2>6, Zenon DEF Minted, Token!MintWeek
    <3> QED
      BY <3>1, <3>2
  <2>8. i \in Nat /\ i > last /\ i <= now /\ i > InitialWeeks /\ i - 1 = last + (k - 1) /\ i \in 1..now
    BY <1>3, <1>4, <1>5, <2>1
  <2>9. weekConfig[i] = config
    BY <1>4, <2>8 DEF WeeksInv
  <2>10. x \in Payment
    BY <2>3, <2>5, <2>6, <2>8 DEF Payment, Token!TypeOK, Token!Config
  <2>11. i <= DecayWeeks => e = Token!Due[i]
    <3>1. SUFFICES ASSUME i <= DecayWeeks PROVE e = Token!Due[i]
      OBVIOUS
    <3>2. r.emission = Token!Due[i - 1]
      BY <2>2, <2>8, <3>1, TokenAssumption DEF Token!Assumptions
    <3>3. Token!Due[i] = Token!Decayed(Token!Due[i - 1], weekConfig[i].multiplier)
      <4>1. i \in 0..i
        BY <2>8
      <4>2. DueUntil(Token!Due, weekConfig, i)
        BY <2>8, DueIs
      <4>3. Token!Due[i] = DueStep(Token!Due, weekConfig, i)
        BY <4>1, <4>2 DEF DueUntil
      <4> QED
        BY <1>5, <2>8, <4>3 DEF DueStep
    <3> QED
      BY <2>4, <2>9, <3>1, <3>2, <3>3, Zenon
  <2>12. PaymentOK(x, sent + k)
    <3>1. x.week = i /\ i = InitialWeeks + (sent + k)
      BY <1>4, <1>5, <2>1, <2>6
    <3>2. x.recipient = weekConfig[i].recipient /\ x.amount = e /\ x.supply = r.supply
      BY <2>6, <2>9
    <3>3. e = IF i <= DecayWeeks THEN Token!Due[i] ELSE Token!Inflated(r.supply, config.inflation)
      BY <2>4, <2>11
    <3> QED
      BY <2>9, <3>1, <3>2, <3>3, Zenon DEF PaymentOK
  <2>13. PICK q, y : q \in Seq(Payment) /\ q = r.paid /\ y = Append(q, x)
    BY <2>2
  <2>14. /\ y \in Seq(Payment) /\ Len(y) = sent + k
         /\ y[sent + k] = x /\ \A j \in 1..(sent + (k - 1)) : y[j] = q[j]
    <3>1. Len(q) = sent + (k - 1) /\ Len(q) + 1 = sent + k
      BY <1>4, <2>2, <2>13
    <3> QED
      BY <2>10, <2>13, <3>1, PaymentAdded
  <2>15. \A j \in 1..(sent + k) : PaymentOK(y[j], j)
    <3> TAKE j \in 1..(sent + k)
    <3>1. CASE j = sent + k
      BY <2>12, <2>14, <3>1
    <3>2. CASE j # sent + k
      <4>1. j \in 1..(sent + (k - 1))
        BY <1>4, <3>2
      <4> QED
        BY <2>2, <2>13, <2>14, <4>1
    <3> QED
      BY <3>1, <3>2
  <2>16. s[k].paid = y /\ k \in 0..n
    BY <2>7, <2>13
  <2>17. last + k <= DecayWeeks => s[k].emission = Token!Due[last + k]
    BY <2>1, <2>7, <2>11
  <2> QED
    BY <2>14, <2>15, <2>16, <2>17
<1>8. Good(s[n], n)
  <2> HIDE DEF Good
  <2>1. 0..n \subseteq P
    <3> HIDE DEF P
    <3> QED BY <1>6, <1>7, WeekInduction
  <2> QED BY <2>1, n \in 0..n
<1>9. /\ paid' = s[n].paid /\ lastWeeklyEmission' = s[n].emission
      /\ lastWeekEmissionSent' = last + n
  BY <1>3, <1>4, Zenon DEF Token!MintLiquidityEmissions, MintedAll, Unminted, Weeks
<1>10. Token!WeekOf(tokenTimestamp)' = now /\ weekConfig' = weekConfig
  BY <1>4 DEF Token!WeekOf, Token!startTime
<1>11. Token!Due' = Token!Due /\ \A p, k : PaymentOK(p, k)' = PaymentOK(p, k)
  <2>1. Token!Due' = Token!Due
    BY Zenon DEF Token!Due
  <2> QED
    BY <2>1, Zenon DEF PaymentOK
<1>12. paid' \in Seq(Payment) /\ Len(paid') = sent + n /\ lastWeekEmissionSent' = InitialWeeks + (sent + n)
  BY <1>5, <1>8, <1>9
<1>13. Len(paid') > 0 => lastWeekEmissionSent' <= now
  BY <1>3, <1>4, <1>9, <1>12 DEF WeeksInv
<1>14. \A w \in 1..now : ~(w > lastWeekEmissionSent')
  BY <1>3, <1>4, <1>9
<1>15. lastWeekEmissionSent' <= DecayWeeks => lastWeeklyEmission' = Token!Due'[lastWeekEmissionSent']
  BY <1>8, <1>9, <1>11
<1>16. (\A k \in 1..Len(paid) : PaymentOK(paid[k], k))'
  <2>1. PICK q : q = s[n].paid /\ Len(q) = sent + n
    BY <1>8
  <2>2. \A k \in 1..Len(q) : PaymentOK(q[k], k)
    BY <1>8, <2>1
  <2>3. paid' = q
    BY <1>9, <2>1
  <2> QED
    BY <1>10, <1>11, <2>2, <2>3, Zenon DEF PaymentOK
<1>17. DOMAIN weekConfig' = 1..now
  BY <1>4, <1>10 DEF WeeksInv
<1> QED
  BY <1>10, <1>12, <1>13, <1>14, <1>15, <1>16, <1>17 DEF WeeksInv
(* A block may begin weeks; the settings in force are theirs.              *)
LEMMA NextBlockBegins ==
    ASSUME Token!TypeOK, WeeksInv, Token!NextBlock
    PROVE  WeeksInv'
<1>1. PICK t \in TokenBlockTime : tokenTimestamp' = tokenTimestamp + t
  BY DEF Token!NextBlock
<1>2. PICK x \in Nat, y \in Nat : x = tokenTimestamp /\ y = tokenTimestamp' /\ x <= y
  BY <1>1, TokenAssumption DEF Token!TypeOK, Token!Assumptions
<1>3. PICK p \in Int, q \in Int : p = Token!WeekOf(x) /\ q = Token!WeekOf(y) /\ p <= q
  BY <1>2, WeekNumbers
<1>4. Token!WeekOf(tokenTimestamp) = p /\ Token!WeekOf(tokenTimestamp)' = q
  BY <1>2, <1>3 DEF Token!WeekOf, Token!startTime
<1>5. weekConfig' = [w \in 1..q |-> IF w \in 1..p THEN weekConfig[w] ELSE config]
  BY <1>2, <1>3, <1>4, Zenon DEF Token!NextBlock, WeeksInv
<1>6. DOMAIN weekConfig' = 1..q /\ \A w \in 1..p : weekConfig'[w] = weekConfig[w]
  BY <1>3, <1>5
<1>7. /\ paid' = paid /\ config' = config /\ lastWeekEmissionSent' = lastWeekEmissionSent
      /\ lastWeeklyEmission' = lastWeeklyEmission
  BY DEF Token!NextBlock, Token!configVars, Token!emissionVars
<1>8. PICK last \in Nat, sent \in Nat :
         /\ last = lastWeekEmissionSent /\ sent = Len(paid) /\ last = InitialWeeks + sent
         /\ sent > 0 => last <= p
  BY <1>4 DEF WeeksInv, Token!TypeOK
<1>9. InitialWeeks \in Nat
  BY TokenAssumption DEF Token!Assumptions
<1>10. \A w \in 1..q : w > last => weekConfig'[w] = config
  BY <1>4, <1>5, <1>8 DEF WeeksInv
<1>11. \A n \in Nat : n <= last => Token!Due'[n] = Token!Due[n]
  <2> TAKE n \in Nat
  <2>1. SUFFICES ASSUME n <= last PROVE Token!Due'[n] = Token!Due[n]
    OBVIOUS
  <2>2. \A w \in 1..n : w > InitialWeeks => w \in 1..p
    BY <1>8, <1>9, <2>1
  <2>3. \A w \in 1..n : w > InitialWeeks => weekConfig'[w] = weekConfig[w]
    BY <1>6, <2>2
  <2> QED
    BY <2>3, DueKept
<1>12. lastWeekEmissionSent' <= DecayWeeks => lastWeeklyEmission' = Token!Due'[lastWeekEmissionSent']
  BY <1>7, <1>8, <1>11 DEF WeeksInv
<1>13. \A k \in 1..sent : paid[k].week \in 1..p /\ paid[k].week <= last /\ paid[k].week \in Nat
  BY <1>8, <1>9 DEF WeeksInv, PaymentOK
<1>14. (\A k \in 1..Len(paid) : PaymentOK(paid[k], k))'
  <2>1. \A k \in 1..sent : /\ weekConfig'[paid[k].week] = weekConfig[paid[k].week]
                           /\ Token!Due'[paid[k].week] = Token!Due[paid[k].week]
    BY <1>6, <1>11, <1>13
  <2>2. \A k \in 1..sent : PaymentOK(paid[k], k)
    BY <1>8 DEF WeeksInv
  <2>3. (\A e, i : Token!Inflated(e, i)' = Token!Inflated(e, i)) /\ Len(paid') = sent
    BY <1>7, <1>8 DEF Token!Inflated
  <2> QED
    BY <1>7, <2>1, <2>2, <2>3, ZenonT(60) DEF PaymentOK
<1>15. paid' \in Seq(Payment) /\ lastWeekEmissionSent' = InitialWeeks + Len(paid')
  BY <1>7 DEF WeeksInv
<1>16. Len(paid') > 0 => lastWeekEmissionSent' <= q
  BY <1>3, <1>7, <1>8
<1> QED
  BY <1>4, <1>6, <1>7, <1>8, <1>10, <1>12, <1>14, <1>15, <1>16 DEF WeeksInv

LEMMA WeeksUntouched ==
    ASSUME WeeksInv,
           UNCHANGED <<tokenTimestamp, config, lastWeeklyEmission, lastWeekEmissionSent, paid,
                       weekConfig>>
    PROVE  WeeksInv'
<1>1. Token!Due' = Token!Due
  BY Zenon DEF Token!Due
<1>2. Token!WeekOf(tokenTimestamp)' = Token!WeekOf(tokenTimestamp)
  BY DEF Token!WeekOf, Token!startTime
<1>3. (\A k \in 1..Len(paid) : PaymentOK(paid[k], k))'
  <2>1. \A k \in 1..Len(paid) : PaymentOK(paid[k], k)
    BY DEF WeeksInv
  <2> QED
    BY <1>1, <2>1, Zenon DEF PaymentOK
<1> QED
  BY <1>1, <1>2, <1>3 DEF WeeksInv

LEMMA WeeksNext == Token!TypeOK /\ WeeksInv /\ [Token!Next]_(Token!vars) => WeeksInv'
<1> SUFFICES ASSUME Token!TypeOK, WeeksInv, [Token!Next]_(Token!vars) PROVE WeeksInv'
  OBVIOUS
<1>1. CASE \/ \E src, dst \in Account : \E n \in 1..balances[src] : Token!Transfer(src, dst, n)
           \/ \E a \in Account, d \in Account \cup {NoDelegate} : Token!Delegate(a, d)
           \/ \E a \in Account : \E n \in 1..balances[a] : Token!Burn(a, n)
           \/ \E settings \in Token!Config : Token!InitiateConfigChanges(settings)
  <2>1. UNCHANGED <<tokenTimestamp, config, lastWeeklyEmission, lastWeekEmissionSent, paid,
                    weekConfig>>
    BY <1>1 DEF Token!Transfer, Token!Delegate, Token!Burn, Token!InitiateConfigChanges,
       Token!clock, Token!configVars, Token!emissionVars
  <2> QED
    BY <2>1, WeeksUntouched
<1>2. CASE Token!ApplyConfigChanges
  BY <1>2, MintPaysDue DEF Token!ApplyConfigChanges, Token!clock
<1>3. CASE Token!ClaimLiquidityEmissions
  BY <1>3, MintPaysDue DEF Token!ClaimLiquidityEmissions, Token!clock
<1>4. CASE Token!NextBlock
  BY <1>4, NextBlockBegins
<1>5. CASE UNCHANGED Token!vars
  BY <1>5, WeeksUntouched DEF Token!vars, Token!clock, Token!configVars, Token!emissionVars
<1> QED
  BY <1>1, <1>2, <1>3, <1>4, <1>5 DEF Token!Next

LEMMA TokenKeepsWeeks == Token!Spec => []Token!WeeksFollowTheirConfig
<1>1. Token!Spec => []TokenInv
  BY TokenInitInv, TokenNextInv, PTL DEF Token!Spec
<1>2. TokenInv => Token!TypeOK
  BY DEF TokenInv
<1>3. Token!Spec => []WeeksInv
  BY <1>1, <1>2, WeeksInit, WeeksNext, PTL DEF Token!Spec
<1> QED
  BY <1>3, WeeksInvImplies, PTL

(* However late the emissions of a week are claimed or settled, the        *)
(* recipient and the rate are those in force when it began, and every week *)
(* is minted once (_mintLiquidityEmissions and applyConfigChanges).        *)
THEOREM PastWeeksKeepTheirConfig == VotingSpec => []WeeksFollowTheirConfig
<1>1. Token!WeeksFollowTheirConfig => WeeksFollowTheirConfig
  BY DEF WeeksFollowTheirConfig
<1> QED
  BY <1>1, VotingHasToken, TokenKeepsWeeks, PTL

-----------------------------------------------------------------------------
(***************************************************************************)
(* The votes on record.  A list of checkpoints is in the order of their    *)
(* blocks; the one in force at the end of block n is the last that is not  *)
(* later.  The binary search finds it, and writing the checkpoint of the   *)
(* present block leaves it.                                                *)
(***************************************************************************)
InOrder(c) == \A i, j \in 1..Len(c) : i < j => c[i].fromBlock < c[j].fromBlock

InForce(c, n, k) ==
    /\ k \in 1..Len(c) /\ c[k].fromBlock <= n
    /\ k < Len(c) => c[k + 1].fromBlock > n

SearchStep(c, n, g, bounds) ==
    LET lower == bounds[1]
        upper == bounds[2]
        center == upper - (upper - lower) \div 2
    IN  IF upper <= lower THEN c[lower].votes
        ELSE IF c[center].fromBlock = n THEN c[center].votes
        ELSE IF c[center].fromBlock < n THEN g[<<center, upper>>]
        ELSE g[<<lower, center - 1>>]

LEMMA Center ==
    ASSUME NEW lower \in Nat, NEW upper \in Nat, lower < upper,
           NEW center, center = upper - (upper - lower) \div 2
    PROVE  center \in Nat /\ lower < center /\ center <= upper
OBVIOUS

Bounds(c) == (DOMAIN c) \X (DOMAIN c)

HasLength(c) == Len(c) \in Nat /\ DOMAIN c = 1..Len(c)

(* The search goes on with bounds that are closer.                         *)
LEMMA SearchCloser ==
    ASSUME NEW c, HasLength(c), NEW n, NEW m \in Nat, NEW b \in Bounds(c), b[2] - b[1] <= m + 1,
           NEW g, NEW h, \A x \in Bounds(c) : x[2] - x[1] <= m => g[x] = h[x]
    PROVE  SearchStep(c, n, g, b) = SearchStep(c, n, h, b)
<1>1. PICK lower \in 1..Len(c), upper \in 1..Len(c) : b = <<lower, upper>>
  BY DEF Bounds, HasLength
<1>2. b[1] = lower /\ b[2] = upper /\ lower \in Nat /\ upper \in Nat
  BY <1>1
<1>3. PICK center : center = upper - (upper - lower) \div 2
  OBVIOUS
<1>4. CASE upper <= lower
  BY <1>2, <1>4 DEF SearchStep
<1>5. CASE upper > lower
  <2>1. center \in Nat /\ lower < center /\ center <= upper
    BY <1>2, <1>3, <1>5, Center
  <2>2. <<center, upper>> \in Bounds(c) /\ <<lower, center - 1>> \in Bounds(c)
    BY <1>2, <2>1 DEF Bounds, HasLength
  <2>3. upper - center <= m /\ (center - 1) - lower <= m
    BY <1>2, <2>1
  <2>4. g[<<center, upper>>] = h[<<center, upper>>] /\ g[<<lower, center - 1>>] = h[<<lower, center - 1>>]
    BY <2>2, <2>3
  <2> QED
    BY <1>2, <1>3, <2>4, Zenon DEF SearchStep
<1> QED
  BY <1>2, <1>4, <1>5

(* The search as a function of its bounds.                                 *)
LEMMA SearchExists ==
    ASSUME NEW c, HasLength(c), NEW n
    PROVE  \E g : g = [b \in Bounds(c) |-> SearchStep(c, n, g, b)]
<1> DEFINE Small(g, m) == \A b \in Bounds(c) : b[2] - b[1] <= m => g[b] = SearchStep(c, n, g, b)
           N == {m \in Nat : \E g : Small(g, m)}
<1>1. 0 \in N
  <2> DEFINE g == [b \in Bounds(c) |-> c[b[1]].votes]
  <2>1. ASSUME NEW b \in Bounds(c), b[2] - b[1] <= 0 PROVE g[b] = SearchStep(c, n, g, b)
    <3>1. b[2] <= b[1]
      BY <2>1 DEF Bounds, HasLength
    <3>2. g[b] = c[b[1]].votes
      OBVIOUS
    <3>3. ~(b[2] > b[1])
      BY <2>1 DEF Bounds, HasLength
    <3> HIDE DEF g
    <3> QED
      BY <3>1, <3>2, <3>3 DEF SearchStep
  <2>2. Small(g, 0)
    BY <2>1
  <2> QED
    BY <2>2
<1>2. ASSUME NEW m \in Nat, m \in N PROVE m + 1 \in N
  <2>1. PICK g : Small(g, m)
    BY <1>2
  <2> DEFINE h == [b \in Bounds(c) |-> IF b[2] - b[1] <= m THEN g[b] ELSE SearchStep(c, n, g, b)]
  <2>2. \A b \in Bounds(c) : h[b] = IF b[2] - b[1] <= m THEN g[b] ELSE SearchStep(c, n, g, b)
    OBVIOUS
  <2> HIDE DEF h
  <2>3. \A b \in Bounds(c) : b[2] - b[1] <= m => g[b] = h[b]
    BY <2>2
  <2>4. ASSUME NEW b \in Bounds(c), b[2] - b[1] <= m + 1 PROVE h[b] = SearchStep(c, n, h, b)
    <3>1. SearchStep(c, n, g, b) = SearchStep(c, n, h, b)
      BY ONLY HasLength(c), m \in Nat, b \in Bounds(c), <2>4, <2>3, SearchCloser
    <3>2. h[b] = SearchStep(c, n, g, b)
      BY <2>1, <2>2
    <3> QED
      BY <3>1, <3>2
  <2>5. Small(h, m + 1)
    BY <2>4
  <2> QED
    BY <2>5
<1>3. Nat \subseteq N
  <2> HIDE DEF N
  <2> QED BY <1>1, <1>2, NatSetInduction
<1>4. PICK g : Small(g, Len(c))
  BY <1>3 DEF HasLength
<1>5. \A b \in Bounds(c) : b[2] - b[1] <= Len(c)
  BY DEF Bounds, HasLength
<1> DEFINE f == [b \in Bounds(c) |-> g[b]]
<1>6. \A b \in Bounds(c) : f[b] = g[b]
  OBVIOUS
<1> HIDE DEF f
<1>7. ASSUME NEW b \in Bounds(c) PROVE f[b] = SearchStep(c, n, f, b)
  <2>1. g[b] = SearchStep(c, n, g, b)
    BY <1>4, <1>5
  <2>2. SearchStep(c, n, g, b) = SearchStep(c, n, f, b)
    <3>1. b[2] - b[1] <= Len(c) + 1
      BY DEF Bounds, HasLength
    <3>2. \A x \in Bounds(c) : x[2] - x[1] <= Len(c) => g[x] = f[x]
      BY <1>6
    <3> QED
      BY <3>1, <3>2, SearchCloser
  <2> QED
    BY <1>6, <2>1, <2>2
<1>8. f = [b \in Bounds(c) |-> f[b]]
  BY DEF f
<1>9. f = [b \in Bounds(c) |-> SearchStep(c, n, f, b)]
  BY <1>7, <1>8
<1> QED
  BY <1>9

LEMMA SearchIs ==
    ASSUME NEW c \in Checkpoints, NEW n
    PROVE  \E g : /\ Token!Search(c, n) = g[<<1, Len(c)>>]
                  /\ \A b \in Bounds(c) : g[b] = SearchStep(c, n, g, b)
<1> DEFINE E(g) == g = [b \in Bounds(c) |-> SearchStep(c, n, g, b)]
           g == CHOOSE f : E(f)
<1>0. DOMAIN c = 1..Len(c) /\ Len(c) \in Nat
  BY DEF Checkpoints
<1>1. Token!Search(c, n) = g[<<1, Len(c)>>]
  BY Zenon DEF Token!Search, SearchStep, Bounds
<1>2. \E f : E(f)
  BY <1>0, SearchExists DEF HasLength
<1>3. E(g)
  <2> HIDE DEF E
  <2> QED BY <1>2
<1> HIDE DEF g
<1>4. \A b \in Bounds(c) : g[b] = SearchStep(c, n, g, b)
  BY <1>3
<1> QED
  BY <1>1, <1>4
LEMMA SeqElements ==
    ASSUME NEW R, NEW c \in Seq(R)
    PROVE  Len(c) \in Nat /\ \A i \in 1..Len(c) : c[i] \in R
OBVIOUS

LEMMA Blocks ==
    ASSUME NEW c \in Checkpoints
    PROVE  /\ Len(c) \in Nat
           /\ \A i \in 1..Len(c) : c[i] \in [fromBlock : Nat, votes : Nat] /\ c[i].fromBlock \in Nat
<1>1. Len(c) \in Nat /\ \A i \in 1..Len(c) : c[i] \in [fromBlock : Nat, votes : Nat]
  BY SeqElements DEF Checkpoints
<1> QED
  BY <1>1

SearchReady(c, n, l, u) ==
    l <= u /\ c[l].fromBlock <= n /\ (u < Len(c) => c[u + 1].fromBlock > n)

Found(c, n, v) == \E k \in 1..Len(c) : InForce(c, n, k) /\ v = c[k].votes

LEMMA SearchFinds ==
    ASSUME NEW c \in Checkpoints, c # <<>>, InOrder(c), NEW n \in Nat, c[1].fromBlock <= n
    PROVE  Found(c, n, Token!Search(c, n))
<1>0. Len(c) \in Nat /\ Len(c) >= 1 /\ DOMAIN c = 1..Len(c)
  BY LastEntry DEF Checkpoints
<1>00. \A i \in 1..Len(c) : c[i].fromBlock \in Nat
  BY Blocks
<1>1. PICK g : /\ Token!Search(c, n) = g[<<1, Len(c)>>]
               /\ \A b \in Bounds(c) : g[b] = SearchStep(c, n, g, b)
  BY SearchIs
<1> DEFINE N == {m \in Nat : \A l, u \in 1..Len(c) :
                    u - l <= m /\ SearchReady(c, n, l, u) => Found(c, n, g[<<l, u>>])}
<1>2. ASSUME NEW l \in 1..Len(c), NEW u \in 1..Len(c), SearchReady(c, n, l, u), u <= l
      PROVE  Found(c, n, g[<<l, u>>])
  <2>1. <<l, u>> \in Bounds(c) /\ l \in Nat /\ u = l
    BY <1>0, <1>2 DEF Bounds, SearchReady
  <2>2. g[<<l, u>>] = c[l].votes
    BY <1>1, <1>2, <2>1 DEF SearchStep
  <2>3. InForce(c, n, l)
    BY <1>2, <2>1 DEF SearchReady, InForce
  <2> QED
    BY <2>2, <2>3 DEF Found
<1>3. 0 \in N
  <2>1. \A l, u \in 1..Len(c) : u - l <= 0 => u <= l
    BY <1>0
  <2> QED
    BY <1>2, <2>1
<1>4. ASSUME NEW m \in Nat, m \in N PROVE m + 1 \in N
  <2>1. ASSUME NEW l \in 1..Len(c), NEW u \in 1..Len(c), u - l <= m + 1, SearchReady(c, n, l, u)
        PROVE  Found(c, n, g[<<l, u>>])
    <3>1. CASE u <= l
      BY <1>2, <2>1, <3>1
    <3>2. CASE u > l
      <4>0. l \in Nat /\ u \in Nat
        BY <1>0
      <4>1. PICK center : center = u - (u - l) \div 2
        OBVIOUS
      <4>2. center \in Nat /\ l < center /\ center <= u
        BY <3>2, <4>0, <4>1, Center
      <4>3. <<l, u>> \in Bounds(c) /\ center \in 1..Len(c) /\ center - 1 \in 1..Len(c)
        BY <1>0, <4>0, <4>2 DEF Bounds
      <4>4. g[<<l, u>>] = IF c[center].fromBlock = n THEN c[center].votes
                          ELSE IF c[center].fromBlock < n THEN g[<<center, u>>]
                          ELSE g[<<l, center - 1>>]
        <5>1. g[<<l, u>>] = SearchStep(c, n, g, <<l, u>>)
          BY <1>1, <4>3
        <5>2. ~(u <= l)
          BY <3>2, <4>0
        <5> QED
          BY <4>1, <5>1, <5>2 DEF SearchStep
      <4>5. CASE c[center].fromBlock = n
        <5>1. center < Len(c) => c[center + 1].fromBlock > n
          BY <1>0, <1>00, <4>2, <4>3, <4>5 DEF InOrder
        <5>2. InForce(c, n, center)
          BY <4>3, <4>5, <5>1 DEF InForce
        <5> QED
          BY <4>3, <4>4, <4>5, <5>2 DEF Found
      <4>6. CASE c[center].fromBlock < n
        <5>1. SearchReady(c, n, center, u) /\ u - center <= m
          BY <1>00, <2>1, <4>0, <4>2, <4>3, <4>6 DEF SearchReady
        <5>2. Found(c, n, g[<<center, u>>])
          BY <1>4, <4>3, <5>1
        <5> QED
          BY <4>4, <4>6, <5>2
      <4>7. CASE c[center].fromBlock > n
        <5>1. SearchReady(c, n, l, center - 1) /\ (center - 1) - l <= m
          BY <2>1, <4>0, <4>2, <4>7 DEF SearchReady
        <5>2. Found(c, n, g[<<l, center - 1>>])
          BY <1>4, <4>3, <5>1
        <5> QED
          BY <1>00, <4>3, <4>4, <4>7, <5>2
      <4>8. c[center].fromBlock \in Nat
        BY <1>00, <4>3
      <4> QED
        BY <4>5, <4>6, <4>7, <4>8
    <3> QED
      BY <1>0, <3>1, <3>2
  <2> QED
    BY <2>1
<1>5. Nat \subseteq N
  <2> HIDE DEF N
  <2> QED BY <1>3, <1>4, NatSetInduction
<1>6. 1 \in 1..Len(c) /\ Len(c) \in 1..Len(c) /\ Len(c) - 1 \in Nat /\ SearchReady(c, n, 1, Len(c))
  BY <1>0 DEF SearchReady
<1> QED
  BY <1>1, <1>5, <1>6

(* PriorVotes as a function of the checkpoints.                            *)
PriorOf(c, n) ==
    CASE c = <<>> -> 0
      [] c # <<>> /\ c[Len(c)].fromBlock <= n -> c[Len(c)].votes
      [] c # <<>> /\ c[1].fromBlock > n -> 0
      [] OTHER -> Token!Search(c, n)

LEMMA PriorIs ==
    ASSUME NEW c \in Checkpoints, InOrder(c), NEW n \in Nat
    PROVE  /\ c = <<>> \/ c[1].fromBlock > n => PriorOf(c, n) = 0
           /\ c # <<>> /\ c[1].fromBlock <= n => Found(c, n, PriorOf(c, n))
<1>1. CASE c = <<>>
  BY <1>1 DEF PriorOf
<1>2. CASE c # <<>>
  <2>0. Len(c) \in Nat /\ Len(c) >= 1 /\ \A i \in 1..Len(c) : c[i].fromBlock \in Nat
    BY <1>2, Blocks, LastEntry DEF Checkpoints
  <2>1. c[1].fromBlock \in Nat /\ c[Len(c)].fromBlock \in Nat
    BY <2>0
  <2>2. c[1].fromBlock <= c[Len(c)].fromBlock
    BY <2>0 DEF InOrder
  <2>3. CASE c[Len(c)].fromBlock <= n
    <3>1. PriorOf(c, n) = c[Len(c)].votes /\ ~(c[1].fromBlock > n)
      BY <1>2, <2>1, <2>2, <2>3 DEF PriorOf
    <3>2. InForce(c, n, Len(c))
      BY <2>0, <2>3 DEF InForce
    <3> QED
      BY <1>2, <2>0, <3>1, <3>2 DEF Found
  <2>4. CASE c[1].fromBlock > n
    <3>1. ~(c[Len(c)].fromBlock <= n) /\ ~(c[1].fromBlock <= n)
      BY <2>1, <2>2, <2>4
    <3> QED
      BY <1>2, <2>4, <3>1 DEF PriorOf
  <2>5. CASE ~(c[Len(c)].fromBlock <= n) /\ ~(c[1].fromBlock > n)
    <3>1. PriorOf(c, n) = Token!Search(c, n) /\ c[1].fromBlock <= n
      BY <1>2, <2>1, <2>5 DEF PriorOf
    <3> QED
      BY <1>2, <2>5, <3>1, SearchFinds
  <2> QED
    BY <2>3, <2>4, <2>5
<1> QED
  BY <1>1, <1>2

(* The checkpoint in force is the only one.                                *)
LEMMA OneInForce ==
    ASSUME NEW c \in Checkpoints, InOrder(c), NEW n \in Nat, NEW k, NEW h,
           InForce(c, n, k), InForce(c, n, h)
    PROVE  k = h
<1>1. Len(c) \in Nat /\ \A i \in 1..Len(c) : c[i].fromBlock \in Nat
  BY Blocks
<1>2. ASSUME NEW i, NEW j, InForce(c, n, i), InForce(c, n, j) PROVE ~(i < j)
  <2>1. SUFFICES ASSUME i < j PROVE FALSE
    OBVIOUS
  <2>2. i \in 1..Len(c) /\ j \in 1..Len(c) /\ i + 1 \in 1..Len(c) /\ i + 1 <= j
    BY <1>1, <1>2, <2>1 DEF InForce
  <2>3. c[i + 1].fromBlock > n /\ c[j].fromBlock <= n
    BY <1>1, <1>2, <2>2 DEF InForce
  <2>4. i + 1 = j \/ c[i + 1].fromBlock < c[j].fromBlock
    BY <2>2 DEF InOrder
  <2> QED
    BY <1>1, <2>2, <2>3, <2>4
<1>3. k \in Int /\ h \in Int
  BY DEF InForce
<1> QED
  BY <1>2, <1>3
UpTo(c, n) == \A i \in 1..Len(c) : c[i].fromBlock <= n

(* What WriteCheckpoint leaves: all but the entry of the present block.    *)
LEMMA WrittenAt ==
    ASSUME NEW c \in Checkpoints, InOrder(c), UpTo(c, tokenBlock), tokenBlock \in Nat,
           NEW v \in Nat, NEW w, w = Token!WriteCheckpoint(c, v)
    PROVE  /\ w \in Checkpoints /\ w # <<>> /\ w[Len(w)].fromBlock = tokenBlock
           /\ Len(c) <= Len(w) /\ Len(w) <= Len(c) + 1
           /\ \A i \in 1..Len(c) : i < Len(w) => w[i] = c[i] /\ c[i].fromBlock < tokenBlock
           /\ Len(w) = Len(c) => c[Len(c)].fromBlock = tokenBlock
<1>0. Len(c) \in Nat /\ \A i \in 1..Len(c) : c[i].fromBlock \in Nat
  BY Blocks
<1>1. w \in Checkpoints
  BY CheckpointWritten
<1>2. CASE c # <<>> /\ c[Len(c)].fromBlock = tokenBlock
  <2>1. PICK r : r = [c[Len(c)] EXCEPT !.votes = v]
    OBVIOUS
  <2>2. w = [c EXCEPT ![Len(c)] = r]
    BY <1>2, <2>1 DEF Token!WriteCheckpoint, Token!Last
  <2>3. c[Len(c)] \in [fromBlock : Nat, votes : Nat] /\ Len(c) \in 1..Len(c)
    BY <1>2, LastEntry DEF Checkpoints
  <2>4. r \in [fromBlock : Nat, votes : Nat] /\ r.fromBlock = tokenBlock
    BY <1>2, <2>1, <2>3
  <2>5. w # <<>> /\ w[Len(w)] = r /\ Len(w) = Len(c)
    BY <1>2, <2>2, <2>3, <2>4, LastReplaced DEF Checkpoints
  <2>6. \A i \in 1..Len(c) : i # Len(c) => w[i] = c[i]
    BY <2>2 DEF Checkpoints
  <2>7. \A i \in 1..Len(c) : i < Len(c) => c[i].fromBlock < tokenBlock
    BY <1>2, <2>3 DEF InOrder
  <2> QED
    BY <1>0, <1>1, <1>2, <2>4, <2>5, <2>6, <2>7
<1>3. CASE ~(c # <<>> /\ c[Len(c)].fromBlock = tokenBlock)
  <2>1. PICK r : r = [fromBlock |-> tokenBlock, votes |-> v]
    OBVIOUS
  <2>2. w = Append(c, r)
    BY <1>3, <2>1 DEF Token!WriteCheckpoint, Token!Last
  <2>3. Len(w) = Len(c) + 1 /\ w[Len(c) + 1] = r /\ \A i \in 1..Len(c) : w[i] = c[i]
    BY <2>2 DEF Checkpoints
  <2>4. ASSUME NEW i \in 1..Len(c) PROVE c[i].fromBlock < tokenBlock
    <3>1. c # <<>> /\ Len(c) \in 1..Len(c) /\ c[Len(c)].fromBlock # tokenBlock
      BY <1>0, <1>3 DEF Checkpoints
    <3>2. c[Len(c)].fromBlock < tokenBlock
      BY <1>0, <3>1 DEF UpTo
    <3>3. i = Len(c) \/ c[i].fromBlock < c[Len(c)].fromBlock
      BY <1>0, <3>1 DEF InOrder
    <3> QED
      BY <1>0, <3>1, <3>2, <3>3
  <2>5. w # <<>>
    BY <1>0, <2>3
  <2> QED
    BY <1>0, <1>1, <2>1, <2>3, <2>4, <2>5
<1> QED
  BY <1>2, <1>3

LEMMA WriteKeepsOrder ==
    ASSUME NEW c \in Checkpoints, InOrder(c), UpTo(c, tokenBlock), tokenBlock \in Nat,
           NEW v \in Nat, NEW w, w = Token!WriteCheckpoint(c, v)
    PROVE  InOrder(w) /\ UpTo(w, tokenBlock)
<1>1. /\ w \in Checkpoints /\ w # <<>> /\ w[Len(w)].fromBlock = tokenBlock
      /\ Len(c) <= Len(w) /\ Len(w) <= Len(c) + 1
      /\ \A i \in 1..Len(c) : i < Len(w) => w[i] = c[i] /\ c[i].fromBlock < tokenBlock
  BY WrittenAt
<1>2. Len(c) \in Nat /\ Len(w) \in Nat
  BY <1>1, Blocks
<1>3. \A i \in 1..Len(w) : i < Len(w) => i \in 1..Len(c)
  BY <1>1, <1>2
<1>4. UpTo(w, tokenBlock)
  BY <1>1, <1>2, <1>3 DEF UpTo
<1>5. ASSUME NEW i \in 1..Len(w), NEW j \in 1..Len(w), i < j PROVE w[i].fromBlock < w[j].fromBlock
  <2>1. i < Len(w) /\ i \in 1..Len(c) /\ w[i] = c[i] /\ c[i].fromBlock < tokenBlock
    BY <1>1, <1>2, <1>3, <1>5
  <2>2. CASE j = Len(w)
    BY <1>1, <2>1, <2>2
  <2>3. CASE j < Len(w)
    BY <1>1, <1>3, <1>5, <2>1, <2>3 DEF InOrder
  <2> QED
    BY <1>2, <2>2, <2>3
<1> QED
  BY <1>4, <1>5 DEF InOrder

LEMMA WriteKeepsPrior ==
    ASSUME NEW c \in Checkpoints, InOrder(c), UpTo(c, tokenBlock), tokenBlock \in Nat,
           NEW v \in Nat, NEW w, w = Token!WriteCheckpoint(c, v), NEW n \in Nat, n < tokenBlock
    PROVE  PriorOf(w, n) = PriorOf(c, n)
<1>1. /\ w \in Checkpoints /\ w # <<>> /\ w[Len(w)].fromBlock = tokenBlock
      /\ Len(c) <= Len(w) /\ Len(w) <= Len(c) + 1
      /\ \A i \in 1..Len(c) : i < Len(w) => w[i] = c[i] /\ c[i].fromBlock < tokenBlock
      /\ Len(w) = Len(c) => c[Len(c)].fromBlock = tokenBlock
  BY WrittenAt
<1>2. InOrder(w)
  BY WriteKeepsOrder
<1>3. Len(c) \in Nat /\ Len(w) \in Nat /\ Len(w) >= 1
  BY <1>1, Blocks, LastEntry DEF Checkpoints
<1>a. PICK p, q : p = Len(c) /\ q = Len(w)
  OBVIOUS
<1>b. p \in Nat /\ q \in Nat /\ q >= 1 /\ p <= q /\ q <= p + 1
  BY <1>1, <1>3, <1>a
<1>c. w[q].fromBlock = tokenBlock /\ (q = p => c[p].fromBlock = tokenBlock)
  BY <1>1, <1>a
<1>4. /\ c = <<>> \/ c[1].fromBlock > n => PriorOf(c, n) = 0
      /\ c # <<>> /\ c[1].fromBlock <= n => Found(c, n, PriorOf(c, n))
      /\ w[1].fromBlock > n => PriorOf(w, n) = 0
      /\ w[1].fromBlock <= n => Found(w, n, PriorOf(w, n))
  BY <1>1, <1>2, PriorIs
<1>5. CASE c = <<>>
  <2>0. Len(c) = 0
    BY <1>5
  <2>1. q = 1
    BY <1>a, <1>b, <2>0
  <2>2. w[1].fromBlock > n
    BY <1>c, <2>1
  <2> QED
    BY <1>4, <1>5, <2>2
<1>6. CASE c # <<>>
  <2>0. Len(c) >= 1 /\ c[1].fromBlock \in Nat
    BY <1>6, Blocks, LastEntry, SMTT(60) DEF Checkpoints
  <2>1. w[1].fromBlock = c[1].fromBlock
    <3>1. CASE Len(w) = 1
      <4>1. p = 1
        BY <1>a, <1>b, <2>0, <3>1
      <4>2. q = 1 /\ q = p
        BY <1>a, <3>1, <4>1
      <4>3. w[1].fromBlock = tokenBlock
        BY <1>c, <4>2, Zenon
      <4>4. c[1].fromBlock = tokenBlock
        BY <1>c, <4>1, <4>2, Zenon
      <4> QED
        BY <4>3, <4>4, Zenon
    <3>2. CASE Len(w) > 1
      <4>1. 1 \in 1..Len(c) /\ 1 < Len(w)
        BY <1>3, <2>0, <3>2
      <4>2. w[1] = c[1]
        BY <1>1, <4>1
      <4> QED
        BY <4>2
    <3>3. Len(w) = 1 \/ Len(w) > 1
      <4>1. q = 1 \/ q > 1
        BY <1>b
      <4> QED
        BY <1>a, <4>1, Zenon
    <3> QED
      BY <3>1, <3>2, <3>3, Zenon
  <2>2. CASE c[1].fromBlock > n
    BY <1>4, <2>1, <2>2
  <2>3. CASE c[1].fromBlock <= n
    <3>1. PICK k \in 1..Len(c) : InForce(c, n, k) /\ PriorOf(c, n) = c[k].votes
      BY <1>4, <1>6, <2>3 DEF Found
    <3>2. PICK h \in 1..Len(w) : InForce(w, n, h) /\ PriorOf(w, n) = w[h].votes
      BY <1>4, <2>1, <2>3 DEF Found
    <3>3. k < Len(w) /\ w[k] = c[k] /\ k \in 1..Len(w)
      <4>1. k <= Len(c) /\ k \in Nat /\ c[k].fromBlock <= n /\ c[k].fromBlock \in Nat
        BY <1>3, <3>1, Blocks DEF InForce
      <4>2. k # Len(w)
        BY <1>1, <1>3, <4>1
      <4>3. k < Len(w)
        BY <1>1, <1>3, <4>1, <4>2
      <4>4. w[k] = c[k]
        BY <1>1, <4>1, <4>3
      <4> QED
        BY <1>1, <1>3, <4>1, <4>3, <4>4
    <3>4. w[k + 1].fromBlock > n
      <4>1. CASE k + 1 = Len(w)
        BY <1>1, <4>1
      <4>2. CASE k + 1 < Len(w)
        <5>1. k + 1 \in 1..Len(c) /\ k < Len(c)
          BY <1>1, <1>3, <3>3, <4>2
        <5> QED
          BY <1>1, <3>1, <4>2, <5>1 DEF InForce
      <4> QED
        BY <1>3, <3>3, <4>1, <4>2
    <3>5. InForce(w, n, k)
      BY <3>1, <3>3, <3>4 DEF InForce
    <3>6. h = k
      BY <1>1, <1>2, <3>2, <3>5, OneInForce
    <3> QED
      BY <3>1, <3>2, <3>3, <3>6
  <2> QED
    BY <2>0, <2>2, <2>3
<1> QED
  BY <1>5, <1>6

(***************************************************************************)
(* PENDLE implements VoteBook: what is on record of a finished block is    *)
(* what the delegates had at its end.                                      *)
(***************************************************************************)
RecordInv ==
    /\ \A d \in Account : InOrder(checkpoints[d]) /\ UpTo(checkpoints[d], tokenBlock)
    /\ totalSupply <= MaxSupply

LEMMA RecordIs == \A d, n : Token!PriorVotes(d, n) = PriorOf(checkpoints[d], n)
BY Zenon DEF Token!PriorVotes, PriorOf, Token!Last

(* At the end of the present block that is what the delegate has now.      *)
LEMMA RecordOfNow ==
    ASSUME NEW c \in Checkpoints, NEW n \in Nat, UpTo(c, n)
    PROVE  PriorOf(c, n) = Token!VotesOf(c)
<1>1. CASE c = <<>>
  BY <1>1 DEF PriorOf, Token!VotesOf
<1>2. CASE c # <<>>
  <2>1. c[Len(c)].fromBlock <= n
    BY <1>2, LastEntry DEF Checkpoints, UpTo
  <2>2. ~(c[1].fromBlock > n)
    <3>1. Len(c) \in Nat /\ Len(c) >= 1 /\ \A i \in 1..Len(c) : c[i].fromBlock \in Nat
      BY <1>2, Blocks, LastEntry DEF Checkpoints
    <3>2. c[1].fromBlock \in Nat /\ c[1].fromBlock <= n
      BY <3>1 DEF UpTo
    <3> QED
      BY <3>2
  <2> QED
    BY <1>2, <2>1, <2>2 DEF PriorOf, Token!VotesOf, Token!Last
<1> QED
  BY <1>1, <1>2

LEMMA RecordInit == Token!Init => RecordInv /\ Token!Book!Init
<1> SUFFICES ASSUME Token!Init PROVE RecordInv /\ Token!Book!Init
  OBVIOUS
<1>1. \A d \in Account : checkpoints[d] = <<>>
  BY DEF Token!Init
<1>2. RecordInv
  <2>1. InOrder(<<>>) /\ UpTo(<<>>, tokenBlock)
    BY DEF InOrder, UpTo
  <2>2. totalSupply <= MaxSupply
    BY TokenAssumption DEF Token!Init, Token!Assumptions
  <2> QED
    BY <1>1, <2>1, <2>2 DEF RecordInv
<1>3. \A d \in Account : Token!CurrentVotes(d) = 0 /\ \A n : Token!PriorVotes(d, n) = 0
  BY <1>1 DEF Token!CurrentVotes, Token!VotesOf, Token!PriorVotes
<1>4. /\ [d \in Account |-> Token!CurrentVotes(d)] = [d \in Account |-> 0]
      /\ [b \in 0..(tokenBlock - 1) |-> [d \in Account |-> Token!PriorVotes(d, b)]]
           = [b \in 0..(tokenBlock - 1) |-> [d \in Account |-> Token!CurrentVotes(d)]]
  BY <1>3
<1> QED
  BY <1>2, <1>4, Zenon DEF Token!Book!Init

(* A move of votes writes at most the checkpoint of the present block: the *)
(* lists stay in order, and what is on record stays.                       *)
LEMMA MoveKeepsRecord ==
    ASSUME Token!TypeOK, RecordInv, NEW src, NEW dst, NEW amount \in Nat,
           src \in Account \cup {NoDelegate}, dst \in Account \cup {NoDelegate},
           Token!CanMoveDelegates(src, dst, amount), Token!MoveDelegates(src, dst, amount),
           tokenBlock' = tokenBlock, NEW d \in Account
    PROVE  /\ InOrder(checkpoints'[d]) /\ UpTo(checkpoints'[d], tokenBlock)
           /\ \A n \in 0..(tokenBlock - 1) : Token!PriorVotes(d, n)' = Token!PriorVotes(d, n)
<1>0. tokenBlock \in Nat /\ checkpoints[d] \in Checkpoints /\ Token!CurrentVotes(d) \in Nat
  BY VotesType DEF Token!TypeOK
<1>1. InOrder(checkpoints[d]) /\ UpTo(checkpoints[d], tokenBlock)
  BY DEF RecordInv
<1>2. \A n : Token!PriorVotes(d, n) = PriorOf(checkpoints[d], n)
  BY RecordIs
<1>3. \A n : Token!PriorVotes(d, n)' = PriorOf(checkpoints'[d], n)
  BY Zenon DEF Token!PriorVotes, PriorOf, Token!Last
<1>4. CASE checkpoints'[d] = checkpoints[d]
  BY <1>1, <1>2, <1>3, <1>4
<1>5. ASSUME NEW v \in Nat, checkpoints'[d] = Token!WriteCheckpoint(checkpoints[d], v)
      PROVE  /\ InOrder(checkpoints'[d]) /\ UpTo(checkpoints'[d], tokenBlock)
             /\ \A n \in 0..(tokenBlock - 1) : Token!PriorVotes(d, n)' = Token!PriorVotes(d, n)
  <2>1. PICK c, w : c = checkpoints[d] /\ w = checkpoints'[d]
    OBVIOUS
  <2>2. InOrder(w) /\ UpTo(w, tokenBlock)
    BY <1>0, <1>1, <1>5, <2>1, WriteKeepsOrder
  <2>3. \A n \in 0..(tokenBlock - 1) : PriorOf(w, n) = PriorOf(c, n)
    BY <1>0, <1>1, <1>5, <2>1, WriteKeepsPrior
  <2> QED
    BY <1>2, <1>3, <2>1, <2>2, <2>3
<1>6. checkpoints'[d] = checkpoints[d]
      \/ \E v \in Nat : checkpoints'[d] = Token!WriteCheckpoint(checkpoints[d], v)
  <2>1. CASE src = dst \/ amount = 0
    BY <2>1 DEF Token!MoveDelegates
  <2>2. CASE src # dst /\ amount # 0
    <3>1. checkpoints'[d] =
             CASE d = src -> Token!WriteCheckpoint(checkpoints[d], Token!CurrentVotes(d) - amount)
               [] d = dst -> Token!WriteCheckpoint(checkpoints[d], Token!CurrentVotes(d) + amount)
               [] OTHER -> checkpoints[d]
      BY <2>2 DEF Token!MoveDelegates
    <3>2. d = src => Token!CurrentVotes(d) - amount \in Nat
      BY <1>0, <2>2, TokenAssumption DEF Token!CanMoveDelegates, Token!Assumptions
    <3>3. Token!CurrentVotes(d) + amount \in Nat
      BY <1>0
    <3>4. CASE d = src
      <4>1. checkpoints'[d]
              = Token!WriteCheckpoint(checkpoints[d], Token!CurrentVotes(d) - amount)
        BY <2>2, <3>1, <3>4
      <4> QED
        BY <3>2, <3>4, <4>1, Zenon
    <3>5. CASE d # src /\ d = dst
      BY <3>1, <3>3, <3>5
    <3>6. CASE d # src /\ d # dst
      BY <3>1, <3>6
    <3> QED
      BY <3>4, <3>5, <3>6
  <2> QED
    BY <2>1, <2>2
<1> QED
  BY <1>4, <1>5, <1>6

(* A transfer or a delegation moves votes in the book, or leaves it alone. *)
LEMMA MoveIsBookMove ==
    ASSUME Token!TypeOK, RecordInv, NEW src, NEW dst, NEW amount \in 0..MaxSupply,
           src \in Account \cup {NoDelegate}, dst \in Account \cup {NoDelegate},
           Token!CanMoveDelegates(src, dst, amount), Token!MoveDelegates(src, dst, amount),
           tokenBlock' = tokenBlock, totalSupply' = totalSupply
    PROVE  RecordInv' /\ [Token!Book!Next]_(Token!Book!vars)
<1>0. amount \in Nat /\ tokenBlock \in Nat /\ NoDelegate \notin Account
  BY TokenAssumption DEF Token!TypeOK, Token!Assumptions
<1>1. \A d \in Account :
         /\ InOrder(checkpoints'[d]) /\ UpTo(checkpoints'[d], tokenBlock)
         /\ \A n \in 0..(tokenBlock - 1) : Token!PriorVotes(d, n)' = Token!PriorVotes(d, n)
  BY <1>0, MoveKeepsRecord
<1>2. RecordInv'
  BY <1>1 DEF RecordInv
<1>3. \A d \in Account :
         /\ Token!CurrentVotes(d) \in Nat
         /\ Token!CurrentVotes(d)' = Token!CurrentVotes(d) - (IF d = src THEN amount ELSE 0)
                                                           + (IF d = dst THEN amount ELSE 0)
  BY <1>0, VotesType, VotesMoved
<1>4. [b \in 0..(tokenBlock - 1) |-> [d \in Account |-> Token!PriorVotes(d, b)]]'
        = [b \in 0..(tokenBlock - 1) |-> [d \in Account |-> Token!PriorVotes(d, b)]]
  BY <1>1
<1>5. CASE src = dst \/ amount = 0
  <2>1. \A d \in Account : Token!CurrentVotes(d)' = Token!CurrentVotes(d)
    BY <1>3, <1>5
  <2>2. [d \in Account |-> Token!CurrentVotes(d)]' = [d \in Account |-> Token!CurrentVotes(d)]
    BY <2>1
  <2>3. UNCHANGED Token!Book!vars
    BY <1>4, <2>2, Zenon DEF Token!Book!vars
  <2> QED
    BY <1>2, <2>3
<1>6. CASE src # dst /\ amount # 0
  <2> DEFINE from == {src} \cap Account
             to == {dst} \cap Account
             votes1 == [d \in Account |-> Token!CurrentVotes(d)]
  <2>1. from \cap to = {} /\ from \in Token!Book!AtMostOne /\ to \in Token!Book!AtMostOne
    BY <1>6 DEF Token!Book!AtMostOne
  <2>2. \A d \in from : votes1[d] >= amount
    BY <1>0, <1>6 DEF Token!CanMoveDelegates
  <2>3. votes1' = [d \in Account |->
                     votes1[d] + (IF d \in to THEN amount ELSE 0)
                               - (IF d \in from THEN amount ELSE 0)]
    <3>1. \A d \in Account :
             Token!CurrentVotes(d)' = Token!CurrentVotes(d) + (IF d \in to THEN amount ELSE 0)
                                        - (IF d \in from THEN amount ELSE 0)
      BY <1>0, <1>3
    <3> QED
      BY <3>1
  <2>4. Token!Book!Move(from, to, amount)
    BY <1>4, <2>1, <2>2, <2>3, Zenon DEF Token!Book!Move
  <2>5. amount \in 1..MaxSupply
    BY <1>0, <1>6
  <2>6. Token!Book!Next
    BY <2>1, <2>4, <2>5, Zenon DEF Token!Book!Next
  <2> QED
    BY <1>2, <2>6
<1> QED
  BY <1>5, <1>6

LEMMA BlockIsBookBlock ==
    ASSUME Token!TypeOK, RecordInv, Token!NextBlock
    PROVE  RecordInv' /\ Token!Book!NextBlock
<1>0. tokenBlock \in Nat /\ tokenBlock' = tokenBlock + 1 /\ checkpoints' = checkpoints
      /\ totalSupply' = totalSupply
  BY DEF Token!NextBlock, Token!TypeOK
<1>1. \A d \in Account : /\ checkpoints[d] \in Checkpoints
                         /\ InOrder(checkpoints[d]) /\ UpTo(checkpoints[d], tokenBlock)
  BY VotesType DEF RecordInv
<1>2. ASSUME NEW d \in Account PROVE UpTo(checkpoints[d], tokenBlock + 1)
  <2>1. \A i \in 1..Len(checkpoints[d]) : /\ checkpoints[d][i].fromBlock \in Nat
                                          /\ checkpoints[d][i].fromBlock <= tokenBlock
    BY <1>1, Blocks DEF UpTo
  <2> QED
    BY <1>0, <2>1 DEF UpTo
<1>3. RecordInv'
  BY <1>0, <1>1, <1>2 DEF RecordInv
<1>4. \A d, n : Token!PriorVotes(d, n)' = Token!PriorVotes(d, n)
  BY <1>0, Zenon DEF Token!PriorVotes
<1>5. \A d \in Account : Token!PriorVotes(d, tokenBlock) = Token!CurrentVotes(d)
  <2>1. \A d \in Account : PriorOf(checkpoints[d], tokenBlock) = Token!VotesOf(checkpoints[d])
    BY <1>0, <1>1, RecordOfNow
  <2> QED
    BY <2>1, RecordIs DEF Token!CurrentVotes
<1>6. [d \in Account |-> Token!CurrentVotes(d)]' = [d \in Account |-> Token!CurrentVotes(d)]
  BY <1>0 DEF Token!CurrentVotes
<1>7. [b \in 0..(tokenBlock - 1) |-> [d \in Account |-> Token!PriorVotes(d, b)]]'
        = [b \in 0..tokenBlock |->
             IF b = tokenBlock THEN [d \in Account |-> Token!CurrentVotes(d)]
             ELSE [c \in 0..(tokenBlock - 1) |-> [d \in Account |-> Token!PriorVotes(d, c)]][b]]
  <2>1. 0..(tokenBlock' - 1) = 0..tokenBlock
    BY <1>0
  <2>2. \A b \in 0..tokenBlock : b # tokenBlock => b \in 0..(tokenBlock - 1)
    BY <1>0
  <2>3. ASSUME NEW b \in 0..tokenBlock
        PROVE  [d \in Account |-> Token!PriorVotes(d, b)']
                 = IF b = tokenBlock THEN [d \in Account |-> Token!CurrentVotes(d)]
                   ELSE [c \in 0..(tokenBlock - 1) |-> [d \in Account |-> Token!PriorVotes(d, c)]][b]
    <3>1. CASE b = tokenBlock
      BY <1>4, <1>5, <3>1
    <3>2. CASE b # tokenBlock
      BY <1>4, <2>2, <3>2
    <3> QED
      BY <3>1, <3>2
  <2> QED
    BY <2>1, <2>3
<1> QED
  BY <1>0, <1>3, <1>6, <1>7, Zenon DEF Token!Book!NextBlock

(* What leaves votes, checkpoints and the block alone leaves the book.     *)
LEMMA BookUntouched ==
    ASSUME RecordInv, UNCHANGED <<tokenBlock, checkpoints>>, totalSupply' <= MaxSupply
    PROVE  RecordInv' /\ UNCHANGED Token!Book!vars
<1>1. RecordInv'
  BY DEF RecordInv
<1>2. /\ [d \in Account |-> Token!CurrentVotes(d)]' = [d \in Account |-> Token!CurrentVotes(d)]
      /\ [b \in 0..(tokenBlock - 1) |-> [d \in Account |-> Token!PriorVotes(d, b)]]'
           = [b \in 0..(tokenBlock - 1) |-> [d \in Account |-> Token!PriorVotes(d, b)]]
  <2>1. \A d, n : /\ Token!CurrentVotes(d)' = Token!CurrentVotes(d)
                  /\ Token!PriorVotes(d, n)' = Token!PriorVotes(d, n)
    BY Zenon DEF Token!CurrentVotes, Token!PriorVotes
  <2> QED
    BY <2>1
<1> QED
  BY <1>1, <1>2, Zenon DEF Token!Book!vars

LEMMA BookStep ==
    TokenInv /\ RecordInv /\ [Token!Next]_(Token!vars)
       => RecordInv' /\ [Token!Book!Next]_(Token!Book!vars)
<1> SUFFICES ASSUME TokenInv, RecordInv, [Token!Next]_(Token!vars)
             PROVE  RecordInv' /\ [Token!Book!Next]_(Token!Book!vars)
  OBVIOUS
<1>1. /\ Token!TypeOK /\ totalSupply \in Nat /\ totalSupply <= MaxSupply /\ MaxSupply \in Nat
  BY TokenAssumption DEF TokenInv, Token!TypeOK, RecordInv, Token!Assumptions
<1>2. \A a \in Account : balances[a] \in Nat /\ balances[a] <= totalSupply
  <2>1. IsFiniteSet(Account) /\ totalSupply = SumIn(balances, Account)
    BY AccountsFinite DEF TokenInv
  <2>2. \A a \in Account : balances[a] \in Nat
    BY <1>1 DEF Token!TypeOK
  <2> QED
    BY <2>1, <2>2, SumNat
<1>3. \A a \in Account : delegates[a] \in Account \cup {NoDelegate}
  BY <1>1 DEF Token!TypeOK
<1>4. ASSUME NEW src \in Account, NEW dst \in Account, NEW amount \in 1..balances[src],
             Token!Transfer(src, dst, amount)
      PROVE  RecordInv' /\ [Token!Book!Next]_(Token!Book!vars)
  <2>1. amount \in 0..MaxSupply
    BY <1>1, <1>2
  <2> QED
    BY <1>1, <1>3, <1>4, <2>1, MoveIsBookMove DEF Token!Transfer, Token!clock
<1>5. ASSUME NEW a \in Account, NEW to \in Account \cup {NoDelegate}, Token!Delegate(a, to)
      PROVE  RecordInv' /\ [Token!Book!Next]_(Token!Book!vars)
  <2>1. balances[a] \in 0..MaxSupply
    BY <1>1, <1>2
  <2> QED
    BY <1>1, <1>3, <1>5, <2>1, MoveIsBookMove DEF Token!Delegate, Token!clock
<1>6. ASSUME NEW a \in Account, NEW amount \in 1..balances[a], Token!Burn(a, amount)
      PROVE  RecordInv' /\ [Token!Book!Next]_(Token!Book!vars)
  <2>1. totalSupply' <= MaxSupply
    BY <1>1, <1>2, <1>6 DEF Token!Burn
  <2> QED
    BY <1>6, <2>1, BookUntouched DEF Token!Burn, Token!clock
<1>7. ASSUME Token!MintLiquidityEmissions PROVE totalSupply' <= MaxSupply
  BY <1>7, Zenon DEF Token!MintLiquidityEmissions
<1>8. CASE \/ \E settings \in Token!Config : Token!InitiateConfigChanges(settings)
           \/ Token!ApplyConfigChanges \/ Token!ClaimLiquidityEmissions
           \/ UNCHANGED Token!vars
  <2>1. UNCHANGED <<tokenBlock, checkpoints>> /\ totalSupply' <= MaxSupply
    BY <1>1, <1>7, <1>8
    DEF Token!InitiateConfigChanges, Token!ApplyConfigChanges, Token!ClaimLiquidityEmissions,
        Token!vars, Token!clock
  <2> QED
    BY <2>1, BookUntouched
<1>9. CASE Token!NextBlock
  BY <1>1, <1>9, BlockIsBookBlock DEF Token!Book!Next
<1> QED
  BY <1>4, <1>5, <1>6, <1>8, <1>9 DEF Token!Next

LEMMA TokenKeepsBook == Token!Spec => Token!BookSpec
<1>1. Token!Spec => []TokenInv
  BY TokenInitInv, TokenNextInv, PTL DEF Token!Spec
<1> QED
  BY <1>1, RecordInit, BookStep, PTL DEF Token!Spec, Token!BookSpec, Token!Book!Spec

(* The checkpoints of PENDLE.sol and the binary search of getPriorVotes    *)
(* implement VoteBook: for a block that is over they answer with the votes *)
(* of its end, whatever is transferred, delegated, burnt and minted later. *)
THEOREM ImplementsVoteBook == VotingSpec => BookSpec
BY VotingHasToken, TokenKeepsBook DEF BookSpec
=============================================================================
