\* Two contracts and two users with some OT or none.
CONSTANTS
    Contract = {c1, c2}
    User = {alice, bob}
    RONE = 4
    Balances = {0, 1, 2}
    Funds = {0, 3}
SPECIFICATION Spec
INVARIANTS
    OnlyDuplicatesRefused
