\* Two users, three rates, no fee or half of the interest; the expiry lies
\* inside the run.
CONSTANTS
    User = {alice, bob}
    Rate = {2, 3, 4}
    InitialRate = 2
    RONE = 2
    ForgeFee = {0, 1}
    Savings = 2
    Expiry = 2
    MaxTime = 3
    Scale = 12
SYMMETRY Users
SPECIFICATION Spec
INVARIANTS
    TypeOK
    SettlementNeverReverts
    Solvent
PROPERTIES
    SurplusNeverFalls
    InterestIsKept
    NoInterestAfterExpiry
