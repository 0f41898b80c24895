\* Two days of few lines, the second in another month, and a persister that restarts.
CONSTANTS
  Perps <- MCPerps
  Outcomes <- MCOutcomes
  Symbols <- MCSymbols
  MaxId = 3
  Hash <- MCHash
  OutcomeSymbol <- MCOutcomeSymbol
  Expiry <- MCExpiry
  ExpiryBuffer = 0
  RefetchDelay = 1
  FirstDate <- MCFirstDate
  MonthLength = 28
  MaxDays = 2
  MaxLines = 5
  Dex <- MCDex
  MaxRestarts = 1
SPECIFICATION Spec
INVARIANTS TypeOK SecuritiesAsLive
CHECK_DEADLOCK FALSE
