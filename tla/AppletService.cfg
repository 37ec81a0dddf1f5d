SPECIFICATION Spec
CONSTANTS
  MaxProcs = 3
  Paths = {"a", "b"}
  App <- MCApp
  ChanCap = 2
  MaxEvents = 1
CHECK_DEADLOCK FALSE
INVARIANTS OneServer SignalsReachTheirInstance StartsReachTheServer
PROPERTIES ManagedUntilStopped LaunchesEnd
