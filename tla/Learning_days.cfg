SPECIFICATION Spec
CONSTANTS
  Days <- TheDays
  Weekend = {1}
  Horizons = {0, 1}
  Advices <- TheAdvices
  FirstNav = 100
  Navs = {98, 103}
  Signals = {1}
  Replayed <- TheReplayed
  Fee = 1
  Snapshots = {1}
  Experiments = {e1, e2}
  KeptReplays = 1
  MaxNights = 2
  e1 = e1
  e2 = e2
  MaxReplays = 2
  MaxCertificates = 1
  MaxAdvices = 2
  None = None
  Absent = Absent
  Tickets = {"a", "b", "c"}
  Ticket <- TheTicket
  Held = {}
  Trusted = {}
  Bench <- TheBench
  Trading = {2, 3}
  Horizon = 1
  Window = 1
  Calendar = {1, 2, 3}
  Paths = {"context"}
  Dates = {1, 2}
  Policies = {"growth", "fund"}
  Bucket <- TheBucket
  OfFund <- TheFund
  Order <- TheOrder
  Scope <- TheScope
  Sheets <- TheSheets
  BaseSheet <- FirstSheets
  Flows <- TheFlows
  TicketSets <- TheSets
  Entries <- TheEntries
  Kinds = {"user_approve"}
  MaxActive = 5
  MaxPolicies = 20
  MaxRevs = 2
  MaxInputs = 2
INVARIANTS LedgerCountsOnce TaughtIsShown LineageIsSound
PROPERTIES TrustedIsSound
SYMMETRY Sym
CHECK_DEADLOCK FALSE
