\* The smallest instance in which rewards are skipped from the start.
CONSTANTS
    User = {alice, bob}
    MULTIPLIER = 10
    Frequency = {0, 2}
    MaxOT = 2
    MaxReward = 2
    FirstBlock = 2
    MaxBlock = 3
SPECIFICATION Spec
INVARIANTS
    HolderWasSettled
