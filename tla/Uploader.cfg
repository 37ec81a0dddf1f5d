SPECIFICATION FairSpec
CONSTANTS
  Items = {i1, i2, i3}
  Cap = 2
  Idle = Idle
  HistoryMax = 2
  Panics = TRUE
  MaxReloads = 1
CHECK_DEADLOCK FALSE
  
PROPERTIES WorkerTakesItsItem
