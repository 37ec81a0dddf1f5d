SPECIFICATION FairSpec
CONSTANTS
  Videos = {v1, v2}
  Workers = {w1, w2}
  None = None
  Edits = TRUE
  TestsFail = TRUE
  DiskFails = TRUE
  Toggles = TRUE
  Removals = TRUE
  Crashes = TRUE
  MaxAdds = 2
  MaxEvents = 3
CHECK_DEADLOCK FALSE
INVARIANTS  HeadIsMine 
PROPERTIES WorkerEnds
