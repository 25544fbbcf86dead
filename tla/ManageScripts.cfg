\* Two terminals, a yield contract that exists and one to create, yield tokens
\* for two bootstraps, one crash, two moments at which something expires.
SPECIFICATION Spec
CONSTANTS
  Proc = {1, 2}
  Expiry = {1, 2}
  Base = {b1}
  Worlds <- MCWorlds
  OldYields = {1}
  OldMarkets <- MCOldMarkets
  YieldTokens = 2
  MaxTime = 2
  MaxCrashes = 1
INVARIANTS
  FileIsClosed
  FinishedIsRecorded
PROPERTIES
  LostYieldStaysLost
  EveryScriptEnds
CHECK_DEADLOCK FALSE
