------------------------- MODULE HyperliquidGateway -------------------------
(***************************************************************************)
(* The Hyperliquid gateway and the exchange together.                      *)
(***************************************************************************)
EXTENDS HyperliquidGWApplication

vars == <<exchangeVars, gatewayVars>>

Init == ExchangeInit /\ GatewayInit

Exchange == ExchangeNext /\ UNCHANGED gatewayVars

Next == Exchange \/ WebsocketStep \/ LinkBreaks \/ MainNext

Spec == Init /\ [][Next]_vars

(* The websocket's thread delivers what arrives and the main thread        *)
(* finishes its handlers; the exchange answers requests and does not let   *)
(* an IOC order rest.                                                      *)
Fairness ==
  /\ WF_vars(WebsocketStep)
  /\ WF_vars(MainStep)
  /\ WF_vars(HandleRequest /\ UNCHANGED gatewayVars)
  /\ \A cloid \in Cloids : WF_vars(IocGivenUp(cloid) /\ UNCHANGED gatewayVars)

FairSpec == Spec /\ Fairness

-----------------------------------------------------------------------------
States == [origSz : Nat, cumQty : Nat, requestedQty : Nat, isIoc : BOOLEAN, stamped : BOOLEAN]

AnyCloid == Cloids \cup {NoCloid}

Telling == [acked : BOOLEAN, filled : Nat, ends : Nat, asFilled : BOOLEAN, amendRejects : Nat]

ReportKinds == {"NEW", "PARTIALLY_FILLED", "FILLED", "CANCELLED", "REJECTED",
                "AmendReject", "CancelReject"}

GatewayTypeOK ==
  /\ IsMap(gw.clientToCloid, Clients, Cloids)
  /\ IsMap(gw.cloidToClient, Cloids, Clients)
  /\ IsMap(gw.oidToCloid, Nat, Cloids)
  /\ IsMap(gw.cloidToOid, Cloids, Nat)
  /\ IsMap(gw.cloidToState, AnyCloid, States)
  /\ gw.cloidToAsset \subseteq Cloids
  /\ gw.bufferedFills \in Seq(Fill)
  /\ gw.told \in [Clients -> Telling]
  /\ gw.unnamed \subseteq ReportKinds
  /\ isReplay \in BOOLEAN /\ connected \in BOOLEAN
  /\ pending \subseteq [kind : {"place", "modify", "cancel"}, corr : Nat, cloid : Cloids]
  /\ nextCorr \in Nat
  /\ main \in [at : {"idle", "placing", "amending", "cancelling"}, client : Clients \cup {NoClient},
               cloid : AnyCloid, qty : Quantities \cup {0}, ioc : BOOLEAN]
  /\ replaying \in Seq(Fill)
  /\ seen \in [Clients -> {"no", "ignored", "rejected", "entered"}]
  /\ cloidOf \in [Clients -> AnyCloid]
  /\ nextCloid \in Nat \ {0}

TypeOK == ExchangeTypeOK /\ GatewayTypeOK

-----------------------------------------------------------------------------
(* The two client maps are inverse to each other at every moment, whatever *)
(* the two threads do: the id a client knows and the id the exchange knows *)
(* never come apart, so no report goes to a wrong client.                  *)
ClientMapsInverse ==
  /\ \A c \in DOMAIN gw.clientToCloid :
       /\ gw.clientToCloid[c] \in DOMAIN gw.cloidToClient
       /\ gw.cloidToClient[gw.clientToCloid[c]] = c
  /\ \A x \in DOMAIN gw.cloidToClient :
       /\ gw.cloidToClient[x] \in DOMAIN gw.clientToCloid
       /\ gw.clientToCloid[gw.cloidToClient[x]] = x

(* The fills of an order that the exchange made and no report has passed   *)
(* on yet.                                                                 *)
FillsOf(seq, cloid) ==
  Cardinality({i \in DOMAIN seq : seq[i].type = "fill" /\ seq[i].cloid = cloid})

OnTheirWay(cloid) ==
  FillsOf(stream, cloid) + FillsOf(gw.bufferedFills, cloid) + FillsOf(replaying, cloid)

Entered == {c \in Clients : seen[c] = "entered"}

(* No fill is lost, passed on twice, or passed on to another order: what a *)
(* client was told and what is still under way add up to what the exchange *)
(* filled, through every interleaving of fills, acknowledgements, amends   *)
(* and cancels.                                                            *)
FillsConserved ==
  \A c \in Entered :
    gw.told[c].filled + OnTheirWay(cloidOf[c]) = book[cloidOf[c]].filled

(* An order that lives at the exchange has not been reported over, and its *)
(* client can still cancel it.  The one report with a status that says     *)
(* otherwise is the REJECTED of an amend, which is no end of the order:    *)
(* its text is all that tells the client so.                               *)
NoOrphans ==
  \A c \in Entered :
    book[cloidOf[c]].state = "live" =>
      /\ gw.told[c].ends = 0
      /\ c \in DOMAIN gw.clientToCloid /\ gw.clientToCloid[c] = cloidOf[c]
      /\ cloidOf[c] \in gw.cloidToAsset

(* FILLED is reported of an order of which nothing is left.                *)
FilledIsFull ==
  \A c \in Entered :
    gw.told[c].asFilled => book[cloidOf[c]].state = "ended" /\ book[cloidOf[c]].left = 0

(* Whatever is lost, late or out of order, a client is never told of more  *)
(* fills than the exchange made of its own order ...                       *)
NoInventedFills ==
  \A c \in Entered : gw.told[c].filled <= book[cloidOf[c]].filled

(* ... and never hears twice that an order is over, unless it was an IOC   *)
(* order, which the timeout may report a second time.  By the status of    *)
(* the reports it hears so once more if an amend is refused, after which   *)
(* the order may still be filled or cancelled; that happens once for an    *)
(* amend, and to nobody who did not ask for one.                           *)
AmendsOf(c) == IF c \in amendAsked THEN 1 ELSE 0

SingleEnd ==
  /\ \A c \in Entered \ iocAsked : gw.told[c].ends <= 1
  /\ \A c \in Clients : gw.told[c].amendRejects <= AmendsOf(c)

(* Every order the gateway takes is acknowledged, or reported over, by     *)
(* other reports than those of its amends.                                 *)
EveryOrderAnswered ==
  \A c \in Clients :
    c \in Entered ~> gw.told[c].acked \/ gw.told[c].ends > 0

(* Every order that ends at the exchange is reported over, in the same     *)
(* sense.                                                                  *)
EveryEndReported ==
  \A c \in Clients :
    c \in Entered /\ book[cloidOf[c]].state = "ended" ~> gw.told[c].ends > 0

(* schema/messages.xml calls OrderCancelReject.origClientOrderId the       *)
(* "Original client order identifier that failed to cancel".               *)
CancelRejectsNamed == "CancelReject" \notin gw.unnamed

=============================================================================
