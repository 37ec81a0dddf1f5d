SPECIFICATION GuiSpec
CONSTANTS
  Layouts <- MCLayouts
  Shared <- MCShared
  MaxSteps = 3
  SharedSteps = 1
  MaxEvents = 4
  MaxSaves = 2
  Grabs = {g1, g2}
SYMMETRY MCSymmetry
INVARIANTS
  HelpTextIsNotSaved
  PageIsOfSelection
  BlockedWhileGrabbed
  MovesByOne
PROPERTIES
  SaveKeepsUntouched
CHECK_DEADLOCK FALSE
