SPECIFICATION FairSpec
CONSTANTS
  a = a
  b = b
  c = c
  hub = hub
  x = x
  y = y
  TradeIds = {a, b}
  Trade <- BuyAfterSell
  Procs = {p1, p2}
  Funds = {hub, x, y}
  Hub = hub
  InitVal <- Values
  Statuses = {"submitted", "settled"}
  Days = {0, 1}
  MaxFaults = 1
  None = None
  Free = Free
  Orphan = Orphan
PROPERTIES RecordedIsResolved
