------------------------- MODULE MCHyperliquidReplay -------------------------
(***************************************************************************)
(* HyperliquidReplay for TLC: a perpetual and an outcome that expires at   *)
(* the first midnight, which is the end of a month.                        *)
(***************************************************************************)
EXTENDS HyperliquidReplay

MCPerps == {"BTC"}
MCOutcomes == {"#10"}
MCSymbols == Perps \cup Outcomes
MCHash == [c \in Symbols |-> 1]
MCOutcomeSymbol == [c \in Outcomes |-> "BTC-1D-YES"]
MCExpiry == [c \in Outcomes |-> 2]
MCDex == [c \in Perps |-> "meta"]
MCFirstDate == [mon |-> 1, day |-> 28]
=============================================================================
