--------------------------- MODULE MCDeribitReplay ---------------------------
(***************************************************************************)
(* DeribitReplay for TLC: a dated future and a perpetual, of two lists.    *)
(***************************************************************************)
EXTENDS DeribitReplay

MCSymbols == {"BTC-26JUN26", "BTC_USDC-PERPETUAL"}
MCRequests == {"SYMBOLS_001", "SYMBOLS_004"}
MCHash == [s \in Symbols |-> MaxId]
MCPerpetual == {"BTC_USDC-PERPETUAL"}
MCWhitelisted == MCSymbols
MCAnswerOf == [r \in Requests |-> IF r = "SYMBOLS_001" THEN {"BTC-26JUN26"} ELSE MCSymbols]
MCFirstDate == [mon |-> 1, day |-> 28]
=============================================================================
