-------------------------- MODULE MCDeribitGateway --------------------------
(***************************************************************************)
(* DeribitGateway for TLC: one order, amended and cancelled.               *)
(***************************************************************************)
EXTENDS DeribitGateway

CONSTANT o1

MCSecurityIds == {1}
MCRequests ==
  {[kind |-> k, order |-> o1, security |-> 1] : k \in {"NewOrder", "AmendOrder", "CancelOrder"}}
=============================================================================
