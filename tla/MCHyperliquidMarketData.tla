---------------------- MODULE MCHyperliquidMarketData ----------------------
(***************************************************************************)
(* HyperliquidMarketData for TLC: a perpetual, and an outcome that expires *)
(* at 2 and is followed by another one of the same symbol and hash.        *)
(*                                                                         *)
(* A behaviour is followed until a registration gets into a reset: after   *)
(* that none of the properties but TypeOK claims anything before the next  *)
(* reset, for which there is no second loss of the connection here.        *)
(***************************************************************************)
EXTENDS HyperliquidMarketData

MCPerps == {"BTC"}
MCOutcomes == {"#10", "#20"}
MCSymbols == Perps \cup Outcomes
MCHash == [c \in Symbols |-> IF c \in Outcomes THEN 1 ELSE 2]
MCOutcomeSymbol == [c \in Outcomes |-> "BTC-1D-YES"]
MCExpiry == [c \in Outcomes |-> IF c = "#10" THEN 2 ELSE 5]
MCListedFrom == [c \in Outcomes |-> IF c = "#10" THEN 0 ELSE 2]
MCMetaRequests == {"meta", "xyz"}
MCDex == [c \in Perps |-> IF c = "BTC" THEN "meta" ELSE "xyz"]

NothingTorn == torn # "torn"
=============================================================================
