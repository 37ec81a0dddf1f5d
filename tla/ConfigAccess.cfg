SPECIFICATION FairSpec
CONSTANTS
  Procs = {p1, p2, p3}
  NoProc = NoProc
  Keys = {k1, crash}
  CrashKey = crash
  CrashFile = TRUE
  Panics = TRUE
  DiskFails = TRUE
  MaxOps = 3
INVARIANTS FreshContent RecoveryWaitsForItself
PROPERTIES NoTornRead AtomicUpdates LossNeedsCutSave EveryAccessReturns
CHECK_DEADLOCK FALSE
