SPECIFICATION Spec
CONSTANTS
  Apps = {a, b}
  Addrs = {1, 2}
  MaxStarts = 2
  MaxCalls = 2
  MaxEvents = 3
INVARIANTS
  CallsKeepTheirOrder
  FocusIsPaired
  SubIconsAgree
SYMMETRY Symmetry
CHECK_DEADLOCK FALSE
