\* A handler requested before lockForgeHandlerPermanently and applied after it.
SPECIFICATION MCSpec
CONSTANTS
    Address = {gov, admin}
    Governance = gov
    ForgeId = {}
    Asset = {}
    Expiry = {}
    FactoryId = {}
    Market = {}
    LiqMining = {l1}
    Handler = {h0, h1, h2}
    InitialHandler = h0
    NoHandler = NoHandler
    TIMELOCK = 1
    MaxTime = 3
PROPERTIES LockedHandlerStays
