\* One order, amended and cancelled; fills come no later than the updates after them.
CONSTANTS
  c1 = c1
  NoClient = NoClient
  Clients <- MCOneClient
  Cloids <- MCOneCloid
  Quantities <- MCQuantities
  FillsFirst = TRUE
  Timeouts = FALSE
  MaxAmends = 1
  MaxCancels = 1
  MaxDisconnects = 0
SPECIFICATION FairSpec
INVARIANTS TypeOK FillsConserved NoOrphans FilledIsFull
PROPERTIES EveryOrderAnswered EveryEndReported
CHECK_DEADLOCK FALSE
