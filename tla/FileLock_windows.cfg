\* Windows: bodies may outlast stale_seconds and several waiters may break at once.
CONSTANTS
  Users = {"p1", "p2", "p3"}
  CanUnlinkOpen = FALSE
  Overstay = TRUE
  Breakers = 3
  MaxLockFaults = 2
  NoFile = NoFile
  Free = Free
  Orphan = Orphan
SPECIFICATION FairLockSpec
PROPERTIES ImplementsMutex AbandonedIsBroken
