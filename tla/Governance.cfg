\* Two proposals of two users with two votes; one delay that is proposed is
\* accepted, one is not.
\* Token: two accounts, two decaying weeks and the weeks after them.
CONSTANTS
    User = {alice, bob}
    Action = {2, 3}
    SetDelay = {2, 3}
    GRACE_PERIOD = 2
    MINIMUM_DELAY = 1
    MAXIMUM_DELAY = 2
    Supply = 2
    quorumVotes = 1
    proposalThreshold = 1
    votingDelay = 1
    votingPeriod = 1
    OperationsPerProposal = {1}
    BlockTime = {1}
    AnswersGracePeriod = TRUE
    MaxProposals = 2
    MaxBlock = 7
    LastMove = 3
    Account = {holder, fund}
    NoDelegate = nobody
    Genesis = 2
    FirstRecipient = fund
    INITIAL_LIQUIDITY_EMISSION = 4
    InitialWeeks = 1
    DecayWeeks = 3
    Multiplier = {1, 2}
    Inflation = {1}
    CONFIG_DENOMINATOR = 3
    Week = 2
    TokenBlockTime = {3}
    TokenMaxBlock = 4
    MaxSupply = 20
    MaxSteps = 4
SYMMETRY Users
SPECIFICATION VotingSpec
INVARIANTS
    NoVoteTwice
    QueueHasOwners
    VotesAreBalances
    WeeksFollowTheirConfig
PROPERTIES
    ExecutedAsDecided
    LifeCycle
    BookSpec
CHECK_DEADLOCK FALSE
