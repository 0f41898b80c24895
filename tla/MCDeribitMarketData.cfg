\* Three futures in two lists; a session ends.
CONSTANTS
  Symbols <- MCSymbols
  MaxId = 4
  Hash <- MCHash
  Requests <- MCFutures
  PerpOnly = "SYMBOLS_004"
  Spot <- MCSpot
  BtcSpot = {}
  Perpetual <- MCPerpetual
  Usdc <- MCUsdc
  Whitelisted <- MCWhitelisted
  AnswerOf <- MCAnswerOf
  Expiring = {"BTC-26JUN26"}
  MaxLosses = 1
SPECIFICATION FairSpec
INVARIANTS TypeOK IdsInverse DefinitionsMatch PricesInPlace OnlineIsComplete
PROPERTY EverySecurityOnline
