\* Three lists, one session: the terms of the definitions.
CONSTANTS
  Symbols <- MCSymbols
  MaxId = 4
  Hash <- MCHash
  Requests <- MCFuturesAndSpot
  PerpOnly = "SYMBOLS_004"
  Spot <- MCSpot
  BtcSpot = {}
  Perpetual <- MCPerpetual
  Usdc <- MCUsdc
  Whitelisted <- MCWhitelisted
  AnswerOf <- MCAnswerOf
  Expiring = {"BTC-26JUN26"}
  MaxLosses = 0
SPECIFICATION Spec
INVARIANT LinearIsUsdc
