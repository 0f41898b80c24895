\* A perpetual and two outcomes that follow each other under one symbol and
\* one hash; a connection is lost or a request fails.
CONSTANTS
  Perps <- MCPerps
  Outcomes <- MCOutcomes
  Symbols <- MCSymbols
  MaxId = 4
  Hash <- MCHash
  OutcomeSymbol <- MCOutcomeSymbol
  Expiry <- MCExpiry
  ExpiryBuffer = 1
  RefetchDelay = 0
  MetaRequests <- MCMetaRequests
  Dex <- MCDex
  ListedFrom <- MCListedFrom
  LossesNoticed = TRUE
  MaxTime = 2
  MaxTroubles = 1
  MaxLate = 1
SPECIFICATION FairSpec
CONSTRAINT NothingTorn
INVARIANTS TypeOK IdsInverse NoStaleDefinitions PricesInPlace NamesFindDefinitions
PROPERTIES PerpsDefined 
CHECK_DEADLOCK FALSE
