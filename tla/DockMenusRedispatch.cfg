SPECIFICATION MenusSpec
CONSTANTS
  NbIcons = 2
  NbDesktops = 2
  MaxDialogs = 2
  MaxMessages = 1
PROPERTIES
  IconsWaitForTheAnswer
CHECK_DEADLOCK FALSE
