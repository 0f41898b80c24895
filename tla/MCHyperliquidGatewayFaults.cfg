\* One order; timeouts, a lost connection, updates that overtake fills.
CONSTANTS
  c1 = c1
  NoClient = NoClient
  Clients <- MCOneClient
  Cloids <- MCOneCloid
  Quantities <- MCQuantities
  FillsFirst = FALSE
  Timeouts = TRUE
  MaxAmends = 1
  MaxCancels = 1
  MaxDisconnects = 1
SPECIFICATION Spec
INVARIANTS ClientMapsInverse NoInventedFills SingleEnd
CHECK_DEADLOCK FALSE
