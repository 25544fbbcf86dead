\* Two users, two epochs of two seconds, rewards vest over two epochs.
CONSTANTS
    User = {alice, bob}
    StartTime = 1
    EpochDuration = 2
    VestingEpochs = 2
    Reward = {5}
    Status = {"live", "paused", "emergency"}
    MaxEpochs = 2
    MaxTopUps = 10
    MaxStake = 2
    MaxTime = 7
    DisturbedTime = 3
SYMMETRY Users
SPECIFICATION MCSpec
INVARIANTS
    RewardsExact
    PaidAsVested
    RewardsCovered
PROPERTIES
    LedgerSpec
CHECK_DEADLOCK FALSE
