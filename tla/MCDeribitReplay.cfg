\* Two days of few lines, the second in another month, and a session that breaks.
CONSTANTS
  Symbols <- MCSymbols
  MaxId = 2
  Hash <- MCHash
  Requests <- MCRequests
  PerpOnly = "SYMBOLS_004"
  Spot = {}
  BtcSpot = {}
  Perpetual <- MCPerpetual
  Usdc <- MCPerpetual
  Whitelisted <- MCWhitelisted
  AnswerOf <- MCAnswerOf
  FirstDate <- MCFirstDate
  MonthLength = 28
  MaxDays = 2
  MaxLines = 8
  MaxTroubles = 1
SPECIFICATION Spec
INVARIANTS TypeOK PricesAsLive DefinedAsLive
CHECK_DEADLOCK FALSE
