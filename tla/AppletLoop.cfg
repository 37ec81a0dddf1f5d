SPECIFICATION Spec
CHECK_DEADLOCK FALSE
CONSTANTS
  Applets <- MCApplets
  Clicks = {c1, c2}
  Main = Main
  Delays = {1, 3}
  MaxPanics = 2
SYMMETRY Symmetry
INVARIANTS CountIsExact PollsInTime
