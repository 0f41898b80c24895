\* One order that is filled while it is being cancelled.
CONSTANTS
  c1 = c1
  NoClient = NoClient
  Clients <- MCOneClient
  Cloids <- MCOneCloid
  Quantities <- MCOne
  FillsFirst = TRUE
  Timeouts = FALSE
  MaxAmends = 0
  MaxCancels = 1
  MaxDisconnects = 0
SPECIFICATION Spec
INVARIANTS CancelRejectsNamed
CHECK_DEADLOCK FALSE
