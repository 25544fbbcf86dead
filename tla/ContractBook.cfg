\* Three or four functions in at most two sessions, with one fault.
SPECIFICATION BookSpec
CONSTANTS
  Worlds <- MCWorlds
  MaxRestarts = 1
  MaxFaults = 1
INVARIANTS
  BookIsConsistent
  ReturnedIsRecorded
  PauseReachesReturned
PROPERTIES
  UnlistedStaysUnlisted
  FileCatchesUp
CHECK_DEADLOCK FALSE
