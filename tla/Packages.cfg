SPECIFICATION Spec
CONSTANTS
  Applets = {clock, motion, shared, own}
  Internal = {clock, motion}
  Served = {shared}
  Multi = {clock}
  Hidden = {motion}
  MaxVersion = 2
  MaxOps = 7
INVARIANTS
  AddListFollowsDock
  SwitchShowsDock
  PanicIsExplained
PROPERTIES
  PageKeepsPackages
  
CHECK_DEADLOCK FALSE
