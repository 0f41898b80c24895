\* One order, amended and cancelled; its security is defined and removed; a crash and a lost connection.
CONSTANTS
  o1 = o1
  SecurityIds <- MCSecurityIds
  Requests <- MCRequests
  MaxMd = 2
  MaxCrashes = 1
  MaxLosses = 1
SPECIFICATION FairSpec
INVARIANTS TypeOK SentOnce NoOrphans SingleEnd
PROPERTY EveryRequestAnswered
CHECK_DEADLOCK FALSE
