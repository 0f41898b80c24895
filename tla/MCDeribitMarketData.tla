------------------------ MODULE MCDeribitMarketData ------------------------
(***************************************************************************)
(* DeribitMarketData for TLC, with answers like those recorded in          *)
(* tests/data/deribit_seclist_fixture.txt: both the list of BTC futures    *)
(* and that of all futures have a dated one and the inverse perpetual.     *)
(* Both have the USDC perpetual too, which the processor is prepared for.  *)
(* Both perpetuals hash to the greatest id.                                *)
(***************************************************************************)
EXTENDS DeribitMarketData

MCSymbols == {"BTC-26JUN26", "BTC-PERPETUAL", "BTC_USDC-PERPETUAL", "ETH_USDC"}
MCFutures == {"SYMBOLS_001", "SYMBOLS_004"}
MCFuturesAndSpot == {"SYMBOLS_001", "SYMBOLS_003", "SYMBOLS_004"}
MCHash == [s \in Symbols |-> IF s = "BTC-26JUN26" THEN 1 ELSE MaxId]
MCSpot == {"ETH_USDC"}
MCPerpetual == {"BTC-PERPETUAL", "BTC_USDC-PERPETUAL", "ETH_USDC"}
MCUsdc == {"BTC_USDC-PERPETUAL", "ETH_USDC"}
MCWhitelisted == {"BTC-26JUN26", "BTC-PERPETUAL", "BTC_USDC-PERPETUAL"}
MCAnswerOf ==
  [r \in Requests |->
     CASE r = "SYMBOLS_001" -> {"BTC-26JUN26", "BTC-PERPETUAL", "BTC_USDC-PERPETUAL"}
       [] r = "SYMBOLS_003" -> {"ETH_USDC"}
       [] r = "SYMBOLS_004" -> {"BTC-26JUN26", "BTC-PERPETUAL", "BTC_USDC-PERPETUAL"}]
=============================================================================
