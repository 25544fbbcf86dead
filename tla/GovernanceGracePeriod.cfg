\* The timelock of the repository, which does not answer gracePeriod().
CONSTANTS
    User = {alice, bob}
    Action = {2}
    SetDelay = {2}
    GRACE_PERIOD = 1
    MINIMUM_DELAY = 1
    MAXIMUM_DELAY = 2
    Supply = 2
    quorumVotes = 1
    proposalThreshold = 1
    votingDelay = 1
    votingPeriod = 1
    OperationsPerProposal = {1}
    BlockTime = {1}
    AnswersGracePeriod = FALSE
    MaxProposals = 1
    MaxBlock = 7
    LastMove = 3
SYMMETRY Users
SPECIFICATION MCSpec
INVARIANTS
    AvailableAtEta
CHECK_DEADLOCK FALSE
