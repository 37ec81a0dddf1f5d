SPECIFICATION CloudsSpec
CHECK_DEADLOCK FALSE
CONSTANTS
  Threads = {g1, g2, Loop}
  Loop = Loop
  Places = {p, q}
  NbDays = 1
  MaxOverlaps = 1
  MaxSignals = 1
  MaxEvents = 2
SYMMETRY Symmetry
INVARIANTS DataIsOfPlace IconsAgree
