\* Two crashes or exceptions, a pid handed out again, children nobody waits for.
CONSTANTS
  Runs = {r1, r2}
  Clients = {c1, c2}
  MaxFaults = 2
  MaxRecycled = 1
  Zombies = TRUE
  None = None
  Torn = Torn
  Free = Free
SPECIFICATION Spec
CHECK_DEADLOCK FALSE
SYMMETRY RunSymmetry
INVARIANTS OneRunner ReadyIsReal BackfillUnlessCut
PROPERTIES ResultStands
