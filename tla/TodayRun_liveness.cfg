\* No zombies, no recycled pids: one crash or exception, and the workbench keeps polling.
CONSTANTS
  Runs = {r1, r2}
  Clients = {c1}
  MaxFaults = 1
  MaxRecycled = 0
  Zombies = FALSE
  None = None
  Torn = Torn
  Free = Free
SPECIFICATION FairSpec
CHECK_DEADLOCK FALSE
PROPERTIES RefusalIsJustified EveryRunEnds DeadRunIsShown
