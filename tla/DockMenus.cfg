SPECIFICATION MenusSpec
CONSTANTS
  NbIcons = 2
  NbDesktops = 2
  MaxDialogs = 2
  MaxMessages = 1
INVARIANTS
  DialogIsKnown
  RemovesWhatWasAsked
CHECK_DEADLOCK FALSE
