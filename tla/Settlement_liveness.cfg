SPECIFICATION FairSpec
CONSTANTS
  a = a
  b = b
  c = c
  hub = hub
  x = x
  y = y
  TradeIds = {a, b, c}
  Trade <- SameKey
  Procs = {p1, p2}
  Funds = {hub, x, y}
  Hub = hub
  InitVal <- Values
  Statuses = {"submitted"}
  Days = {0, 1}
  MaxFaults = 1
  None = None
  Free = Free
  Orphan = Orphan
PROPERTIES JournalKeepsItsTrade EventuallyResolved EventuallyClosed
