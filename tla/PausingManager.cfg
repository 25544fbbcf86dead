\* Two expiries of one asset of one forge, a market of a factory and a mining
\* contract: every level of flags, shared and private, and the caches.  And a
\* change of handler, requested, requested again and applied, while the manager
\* or the handler is locked permanently.
SPECIFICATION MCSpec
CONSTANTS
    Address = {gov, admin}
    Governance = gov
    ForgeId = {f1}
    Asset = {a1}
    Expiry = {e1, e2}
    FactoryId = {id1}
    Market = {m1}
    LiqMining = {l1}
    Handler = {h0, h1, h2}
    InitialHandler = h0
    NoHandler = NoHandler
    TIMELOCK = 1
    MaxTime = 3
INVARIANTS TypeOK
PROPERTIES RegisterSpec HandlerChangeIsTimelocked
SYMMETRY Symmetry
