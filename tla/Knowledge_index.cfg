SPECIFICATION MCSpec
CONSTANTS
  m1 = m1
  m2 = m2
  e = e
  Ids = {m1, m2}
  Key <- Keys
  Profiles = {}
  Untrusted = {}
  Writers = {w1, w2}
  Derived = {"permanent"}
  Themes = {m1, m2}
  Proposals = {"strategic"}
  Actions = {"approve", "reject", "demote"}
  MaxDay = 2
  MaxJobs = 4
  Dates = {"d1", "d2"}
  Pieces = {e}
  DateOf <- Days_
  DayOf <- ContextDays
  Evidence = {e}
  Plans <- ThePlans
  MaxIngests = 2
  MaxChanges = 1
  None = None
INVARIANTS MemoryIsSound IndexIsSound
PROPERTIES AloneHeals
SYMMETRY Sym
CHECK_DEADLOCK FALSE
