SPECIFICATION MailSpec
CHECK_DEADLOCK FALSE
CONSTANTS
  Threads = {g1, g2, Loop}
  Loop = Loop
  MaxSignals = 2
  MaxMails = 2
  DialogNbMail = 1
  MaxRuns = 1
  MaxEvents = 4
SYMMETRY Symmetry
INVARIANTS AnswerReachesItsDialog SelectionIsTheEntrySeen IconShowsCount
