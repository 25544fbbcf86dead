\* Two users.  Rewards: the multiplier divides neither supply nor rewards
\* evenly.  Market: two blocks before the lock, a swap fee of which the
\* treasury gets half, or nothing, and a rate that rises below the delta first.
CONSTANTS
    User = {alice, bob}
    MULTIPLIER = 10
    Frequency = {0, 2}
    MaxOT = 3
    MaxReward = 2
    FirstBlock = 2
    MaxBlock = 4
    MinHolder = minHolder
    Treasury = treasury
    RONE = 4
    MINIMUM_LIQUIDITY = 1
    MAX_TOKEN_RESERVE_BALANCE = 12
    LockStartTime = 2
    CurveShiftBlockDelta = 0
    ProtocolFee = {0, 2}
    Delta = {1}
    Amount = {4}
    Out = {0, 2}
    LpAmount = {2}
    Income = {3}
    FirstRate = 4
    MaxRate = 6
    MaxTime = 2
    DisturbedTime = 1
    MaxSteps = 5
SYMMETRY Users
SPECIFICATION MCSpec
INVARIANTS
    RewardsCovered
    LpInterestsCovered
PROPERTIES
    RewardsAreKept
    EqualShares
    LpInterestsAreKept
    LossIsWithinDelta
    FeesAreOfSwapGrowth
CHECK_DEADLOCK FALSE
