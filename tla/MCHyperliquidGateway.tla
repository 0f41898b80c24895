----------------------- MODULE MCHyperliquidGateway -----------------------
(***************************************************************************)
(* HyperliquidGateway for TLC.                                             *)
(***************************************************************************)
EXTENDS HyperliquidGateway

CONSTANT c1

MCOneClient == {c1}
MCOneCloid == {1}
MCOne == {1}
MCQuantities == {1, 2}
=============================================================================
