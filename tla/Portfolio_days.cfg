\* Operations of two processes in any order; three days of the other writers.
CONSTANTS
  Trades = {t1, t2}
  Ids = {r1, r2}
  Procs = {p1, p2}
  MaxClock = 3
  MaxFaults = 1
  None = None
  fundA = fundA
  fundC = fundC
  fundE = fundE
  Codes = {fundA, fundC, fundE}
  AtFirst = {fundA, fundC}
  Unitless = {fundC}
  Opening <- MCOpening
  Alike <- MCAlike
  Navs <- MCNavs
  Lot = 2
  MaxDay = 3
  MaxTrades = 2
  MaxSaves = 3
  Unset = Unset
SPECIFICATION MCSpec
CHECK_DEADLOCK FALSE
SYMMETRY Symmetry
INVARIANTS PositionsAreReal HoldingsAreTraded
PROPERTIES WritersAreExact
