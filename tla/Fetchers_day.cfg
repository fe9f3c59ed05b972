SPECIFICATION Spec
CONSTANTS
  None = None
  f1 = f1
  f2 = f2
  u1 = u1
  u2 = u2
  Funds = {f1, f2}
  Global = global
  NoUrl = nourl
  Statuses = {429, 401}
  Plan <- ThePlan
  MaxQueries = 2
  BucketLimit = 1
  Replies <- TheReplies
  Cited = {u1}
  Matches = {{f1}}
  SearchTools <- TheTools
  SearchAttempts = 1
  BatchSize = 2
  ReportEnd = 5
  Cutoffs = {4, 6}
  Lookback <- TheLookback
  CookieFiles = {"none", "old", "good"}
  Browsers <- TheBrowsers
  Starts = {4}
  LastMoment = 5
  domestic = domestic
  overseas = overseas
  Codes = {domestic, overseas}
  Direct = {domestic}
  Overseas = {overseas}
  MaxStale = 1
  LastDay = 5
  MaxRuns = 3
  Absent = absent
INVARIANTS NewsIsSound RequestsAreSound FeedsAreDated
PROPERTIES RunEnds BestIsKept
CHECK_DEADLOCK FALSE
