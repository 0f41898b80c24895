---------------------- MODULE HyperliquidGWApplication ----------------------
(***************************************************************************)
(* The Hyperliquid gateway process: HyperliquidGWApplication with the maps *)
(* of HyperliquidOrdersHandler.  Two threads run it.  GWRunner's main      *)
(* thread takes the strategies' orders from the inbound queue; the         *)
(* websocket's thread calls back with order updates, fills and responses.  *)
(* Both read and write the maps without a lock.                            *)
(*                                                                         *)
(* A handler of the main thread is two steps, up to its look into the maps *)
(* and from there to the request it sends, and callbacks come in between.  *)
(* Where a callback has then freed the cloid that onAmendOrder or          *)
(* onCancelOrder refers to, the model takes the case that the old text is  *)
(* still there; that the process dies instead ends the behaviour, which no *)
(* safety property notices.                                                *)
(***************************************************************************)
EXTENDS HyperliquidOrdersHandler, HyperliquidExchange, FiniteSets

CONSTANTS
  Timeouts,        (* may 5 s, or hl_ioc_timeout_secs, pass?                *)
  MaxAmends,       (* bound: orders amended, each once                      *)
  MaxCancels,      (* bound: orders cancelled, each once                    *)
  MaxDisconnects   (* bound: losses of the websocket                        *)

ASSUME GatewayAssumption ==
  /\ Timeouts \in BOOLEAN
  /\ MaxAmends \in Nat /\ MaxCancels \in Nat /\ MaxDisconnects \in Nat

VARIABLES
  gw,           (* the maps, m_bufferedFills, and what clients were told    *)
  isReplay,     (* m_isReplay                                               *)
  connected,    (* m_connected                                              *)
  pending,      (* m_pendingPlaces, m_pendingModifies, m_pendingCancels     *)
  nextCorr,     (* m_nextCorrelationId                                      *)
  nextCloid,    (* generateCloid: the next unused one                       *)
  main,         (* the handler the main thread is in                        *)
  replaying,    (* the fills replayBufferedFills has still to replay        *)
  seen,         (* history: what became of each client's NewOrder           *)
  cloidOf,      (* history: the cloid its order was given                   *)
  amendAsked, cancelAsked,  (* history: the orders amended and cancelled    *)
  iocAsked,     (* history: the orders sent or amended as MARKET            *)
  losses        (* history: how often the websocket was lost                *)

history == <<seen, cloidOf, amendAsked, cancelAsked, iocAsked>>

gatewayVars == <<gw, isReplay, connected, pending, nextCorr, nextCloid, main, replaying,
                 losses, history>>

(* What a client has been told of its order: acknowledged (NEW), the       *)
(* quantity filled, how many times that it was over (FILLED, CANCELLED or  *)
(* REJECTED), whether as FILLED, and how many times REJECTED of an amend.  *)
(* By its status a report of the last kind ends the order as well: it is   *)
(* that of a rejected order but for its text, and a client has to read the *)
(* text to know that its order lives.                                      *)
NothingTold == [acked |-> FALSE, filled |-> 0, ends |-> 0, asFilled |-> FALSE, amendRejects |-> 0]

NoHandler == [at |-> "idle", client |-> NoClient, cloid |-> NoCloid, qty |-> 0, ioc |-> FALSE]

GatewayInit ==
  /\ gw = [clientToCloid |-> NoEntries, cloidToClient |-> NoEntries,
           oidToCloid |-> NoEntries, cloidToOid |-> NoEntries,
           cloidToState |-> NoEntries, cloidToAsset |-> {}, bufferedFills |-> <<>>,
           told |-> [c \in Clients |-> NothingTold], unnamed |-> {}]
  /\ isReplay = TRUE
  /\ connected = FALSE
  /\ pending = {}
  /\ nextCorr = 1
  /\ nextCloid = 1
  /\ main = NoHandler
  /\ replaying = <<>>
  /\ seen = [c \in Clients |-> "no"]
  /\ cloidOf = [c \in Clients |-> NoCloid]
  /\ amendAsked = {} /\ cancelAsked = {} /\ iocAsked = {}
  /\ losses = 0

-----------------------------------------------------------------------------
(* The reports on the outbound queue.  One without a clientOrderId reaches *)
(* nobody; `unnamed' keeps its kind.                                       *)
Heard(told, report) ==
  CASE report = "NEW"              -> [told EXCEPT !.acked = TRUE]
    [] report = "PARTIALLY_FILLED" -> [told EXCEPT !.filled = @ + 1]
    [] report = "FILLED"           -> [told EXCEPT !.filled = @ + 1, !.ends = @ + 1, !.asFilled = TRUE]
    [] report \in {"CANCELLED", "REJECTED"} -> [told EXCEPT !.ends = @ + 1]
    [] report = "AmendReject"      -> [told EXCEPT !.amendRejects = @ + 1]
    [] report = "CancelReject"     -> told

Report(s, client, report) ==
  IF client = NoClient THEN [s EXCEPT !.unnamed = @ \cup {report}]
                       ELSE [s EXCEPT !.told[client] = Heard(@, report)]

(* A report that is made only if the order is still known.                 *)
ReportKnown(s, client, report) ==
  IF client = NoClient THEN s ELSE Report(s, client, report)

(* sendNewOrderReject; the mutant does not forget the order.               *)
RejectAndKeep(s, cloid) == Report(s, LookupClientOrderId(s, cloid), "REJECTED")

SendNewOrderReject(s, cloid) ==
  RemoveOrder(Report(s, LookupClientOrderId(s, cloid), "REJECTED"), cloid)

SendAmendReject(s, cloid) ==
  ReportKnown(s, LookupClientOrderId(s, cloid), "AmendReject")

SendCancelReject(s, cloid) == Report(s, LookupClientOrderId(s, cloid), "CancelReject")

(* checkTimeouts: the n oldest buffered fills are dropped, and the IOC     *)
(* orders `late' are reported cancelled and removed, those of them that    *)
(* still have a client.                                                    *)
CheckTimeouts(s, n, late) ==
  LET swept == late \cap DOMAIN s.cloidToClient
      clients == {s.cloidToClient[cloid] : cloid \in swept}
  IN  RemoveOrders(
        [s EXCEPT
           !.bufferedFills = SubSeq(@, n + 1, Len(@)),
           !.told = [c \in Clients |-> IF c \in clients THEN Heard(@[c], "CANCELLED") ELSE @[c]]],
        swept)

(* emitFillExecutionReport: apply the fill, report it, and forget an order *)
(* that is filled, unless it is IOC.  The mutant reports the fill and then *)
(* that the order is filled.                                               *)
EmitFillThenFilled(s, client, cloid) ==
  LET t == Report(ApplyFill(s, cloid, 1), client, "PARTIALLY_FILLED")
      state == StateOf(t, cloid)
  IN  IF state.cumQty < state.origSz \/ state.isIoc
      THEN t
      ELSE RemoveOrder(Report(t, client, "FILLED"), cloid)

EmitFill(s, client, cloid) ==
  LET t == ApplyFill(s, cloid, 1)
      state == StateOf(t, cloid)
  IN  IF state.cumQty < state.origSz
      THEN Report(t, client, "PARTIALLY_FILLED")
      ELSE IF state.isIoc
           THEN Report(t, client, "FILLED")
           ELSE RemoveOrder(Report(t, client, "FILLED"), cloid)

-----------------------------------------------------------------------------
(* onUserFill, and what it does with a fill of an unknown oid.  The mutant *)
(* drops it.                                                               *)
DropFill(s, fill) == s

BufferFill(s, fill) == [s EXCEPT !.bufferedFills = Append(@, fill)]

OnUserFill(s, fill) ==
  LET client == LookupClientOrderIdByOid(s, fill.oid)
  IN  IF client = NoClient THEN BufferFill(s, fill)
                           ELSE EmitFill(s, client, LookupCloidByOid(s, fill.oid))

(* onOrderUpdate after checkTimeouts and registerOid, by status.  Open     *)
(* acknowledges; the fills buffered for the oid are replayed after it.     *)
OnOpen(s, u) ==
  LET t == InitOrderState(SetActiveOid(s, u.oid, u.cloid), u.cloid, u.origSz)
  IN  ReportKnown(t, LookupClientOrderId(t, u.cloid), "NEW")

(* Filled removes the order, and reports CANCELLED first if the fills that *)
(* were seen do not add up to its size.  The mutant leaves that to the     *)
(* other updates.                                                          *)
FilledUpdateIgnored(s, u) == s

OnFilled(s, u) ==
  LET state == StateOf(s, u.cloid)
      client == LookupClientOrderId(s, u.cloid)
  IN  RemoveOrder(IF state.cumQty < state.origSz THEN ReportKnown(s, client, "CANCELLED") ELSE s,
                  u.cloid)

(* The other statuses end an order that is still known.                    *)
OnEnded(s, u) ==
  LET client == LookupClientOrderId(s, u.cloid)
  IN  IF client = NoClient THEN s
      ELSE RemoveOrder(Report(s, client, IF u.status = "Canceled" THEN "CANCELLED" ELSE "REJECTED"),
                       u.cloid)

OnOrderUpdate(s, update) ==
  LET t == RegisterOid(s, update.oid, update.cloid)
  IN  CASE update.status = "Open" -> OnOpen(t, update)
        [] update.status # "Open" /\ ~IsActiveOid(t, update.oid, update.cloid) -> t
        [] update.status = "Filled" /\ IsActiveOid(t, update.oid, update.cloid) ->
             OnFilled(t, update)
        [] OTHER -> OnEnded(t, update)

(* The elements of seq at the positions S, in their order.                 *)
Nth(S, k) == CHOOSE i \in S : Cardinality({j \in S : j <= i}) = k

Picked(seq, S) == [k \in 1 .. Cardinality(S) |-> seq[Nth(S, k)]]

(* replayBufferedFills takes the fills of an oid out of the buffer.        *)
FillsOfOid(seq, oid) == {i \in DOMAIN seq : seq[i].oid = oid}

OtherFills(seq, oid) == Picked(seq, DOMAIN seq \ FillsOfOid(seq, oid))

TakeBuffered(s, oid) == [s EXCEPT !.bufferedFills = OtherFills(s.bufferedFills, oid)]

-----------------------------------------------------------------------------
(* The websocket's thread: one callback at a time.  What checkTimeouts     *)
(* finds is up to the clock.                                               *)
RestUnchanged ==
  UNCHANGED <<isReplay, main, nextCorr, nextCloid, losses, history>>

AfterCheckTimeouts ==
  IF Timeouts
  THEN {CheckTimeouts(gw, n, late) : n \in 0 .. Len(gw.bufferedFills), late \in SUBSET SweptOrders(gw)}
  ELSE {CheckTimeouts(gw, 0, {})}

RemoveAt(seq, i) == SubSeq(seq, 1, i - 1) \o SubSeq(seq, i + 1, Len(seq))

OrderUpdateArrives(i) ==
  /\ replaying = <<>>
  /\ stream[i].type = "update"
  /\ Deliverable(i)
  /\ \E checked \in AfterCheckTimeouts :
       \E s \in {OnOrderUpdate(checked, stream[i])} :
         IF stream[i].status = "Open" /\ LookupClientOrderId(s, stream[i].cloid) # NoClient
         THEN /\ gw' = TakeBuffered(s, stream[i].oid)
              /\ replaying' = Picked(s.bufferedFills, FillsOfOid(s.bufferedFills, stream[i].oid))
         ELSE /\ gw' = s
              /\ replaying' = <<>>
  /\ stream' = RemoveAt(stream, i)
  /\ UNCHANGED <<link, requests, responses, book, nextOid, connected, pending>>
  /\ RestUnchanged

(* One round of the second loop of replayBufferedFills.                    *)
ReplayFill ==
  /\ replaying # <<>>
  /\ LET oid == Head(replaying).oid
     IN  gw' = EmitFill(gw, LookupClientOrderIdByOid(gw, oid), LookupCloidByOid(gw, oid))
  /\ replaying' = Tail(replaying)
  /\ UNCHANGED <<exchangeVars, connected, pending>>
  /\ RestUnchanged

UserFillArrives(i) ==
  /\ replaying = <<>>
  /\ stream[i].type = "fill"
  /\ Deliverable(i)
  /\ \E checked \in AfterCheckTimeouts : gw' = OnUserFill(checked, stream[i])
  /\ stream' = RemoveAt(stream, i)
  /\ UNCHANGED <<link, requests, responses, book, nextOid, connected, pending, replaying>>
  /\ RestUnchanged

(* takePending: the request a response answers, if it is still pending.    *)
PendingOf(r) == {p \in pending : p.kind = r.kind /\ p.corr = r.corr}

PendingCloid(r) ==
  IF PendingOf(r) = {} THEN NoCloid ELSE (CHOOSE p \in PendingOf(r) : TRUE).cloid

(* onPlaceOrder; the mutant only logs an error among the statuses, as      *)
(* onModifyOrder does.                                                     *)
StatusErrorLogged(s, result, cloid) ==
  IF result = "failed" /\ cloid # NoCloid THEN SendNewOrderReject(s, cloid) ELSE s

OnPlaceOrder(s, result, cloid) ==
  CASE result = "failed" /\ cloid # NoCloid -> SendNewOrderReject(s, cloid)
    [] result = "error" /\ LookupClientOrderId(s, cloid) # NoClient -> SendNewOrderReject(s, cloid)
    [] OTHER -> s

(* An error among the statuses is only logged.                             *)
OnModifyOrder(s, result, cloid) ==
  IF result = "failed" /\ cloid # NoCloid THEN SendAmendReject(s, cloid) ELSE s

OnCancelOrder(s, result, cloid) ==
  IF result = "error" \/ (result = "failed" /\ cloid # NoCloid)
  THEN SendCancelReject(s, cloid) ELSE s

ResponseArrives(r) ==
  /\ replaying = <<>>
  /\ r \in responses
  /\ gw' = CASE r.kind = "place"  -> OnPlaceOrder(gw, r.result, PendingCloid(r))
             [] r.kind = "modify" -> OnModifyOrder(gw, r.result, PendingCloid(r))
             [] OTHER             -> OnCancelOrder(gw, r.result, PendingCloid(r))
  /\ pending' = pending \ PendingOf(r)
  /\ responses' = responses \ {r}
  /\ UNCHANGED <<link, requests, stream, book, nextOid, connected, replaying>>
  /\ RestUnchanged

(* The connection comes up: onConnected subscribes.                        *)
OnConnected ==
  /\ ~link /\ ~connected /\ replaying = <<>>
  /\ link' = TRUE
  /\ connected' = TRUE
  /\ UNCHANGED <<requests, responses, stream, book, nextOid, gw, pending, replaying>>
  /\ RestUnchanged

(* It breaks, with all that is on its way; later onDisconnected is called. *)
LinkBreaks ==
  /\ link
  /\ losses < MaxDisconnects
  /\ losses' = losses + 1
  /\ link' = FALSE
  /\ requests' = <<>> /\ responses' = {} /\ stream' = <<>>
  /\ UNCHANGED <<book, nextOid, gw, isReplay, connected, pending, nextCorr, nextCloid,
                 main, replaying, history>>

OnDisconnected ==
  /\ ~link /\ connected /\ replaying = <<>>
  /\ connected' = FALSE
  /\ pending' = {}
  /\ gw' = [gw EXCEPT !.bufferedFills = <<>>]
  /\ UNCHANGED <<exchangeVars, replaying>>
  /\ RestUnchanged

WebsocketStep ==
  \/ \E i \in 1 .. Len(stream) : OrderUpdateArrives(i) \/ UserFillArrives(i)
  \/ ReplayFill
  \/ \E r \in responses : ResponseArrives(r)
  \/ OnConnected \/ OnDisconnected

-----------------------------------------------------------------------------
(* GWRunner's main thread.  Orders found while the queues are replayed are *)
(* passed over.                                                            *)
WebsocketUnchanged == UNCHANGED <<connected, replaying, losses>>

EndReplay ==
  /\ isReplay
  /\ isReplay' = FALSE
  /\ UNCHANGED <<exchangeVars, gw, pending, nextCorr, nextCloid, main, history>>
  /\ WebsocketUnchanged

IgnoreNewOrder(c) ==
  /\ isReplay
  /\ seen[c] = "no"
  /\ seen' = [seen EXCEPT ![c] = "ignored"]
  /\ UNCHANGED <<exchangeVars, gw, isReplay, pending, nextCorr, nextCloid, main,
                 cloidOf, amendAsked, cancelAsked, iocAsked>>
  /\ WebsocketUnchanged

(* onNewOrder ends with a reject: the security is unknown, or m_connected  *)
(* is false.                                                               *)
RejectNewOrder(c) ==
  /\ ~isReplay
  /\ main = NoHandler
  /\ seen[c] = "no"
  /\ seen' = [seen EXCEPT ![c] = "rejected"]
  /\ gw' = Report(gw, c, "REJECTED")
  /\ UNCHANGED <<exchangeVars, isReplay, pending, nextCorr, nextCloid, main,
                 cloidOf, amendAsked, cancelAsked, iocAsked>>
  /\ WebsocketUnchanged

(* onNewOrder up to line 73: enter the order.                              *)
EnterNewOrder(c) ==
  /\ ~isReplay
  /\ main = NoHandler
  /\ seen[c] = "no"
  /\ connected
  /\ nextCloid \in Cloids
  /\ seen' = [seen EXCEPT ![c] = "entered"]
  /\ \E qty \in Quantities, ioc \in BOOLEAN :
       /\ gw' = AddOrder(gw, c, nextCloid, qty, ioc)
       /\ main' = [at |-> "placing", client |-> c, cloid |-> nextCloid, qty |-> qty, ioc |-> ioc]
       /\ iocAsked' = IF ioc THEN iocAsked \cup {c} ELSE iocAsked
  /\ cloidOf' = [cloidOf EXCEPT ![c] = nextCloid]
  /\ nextCloid' = nextCloid + 1
  /\ UNCHANGED <<exchangeVars, isReplay, pending, nextCorr, amendAsked, cancelAsked>>
  /\ WebsocketUnchanged

(* trackPending..., then the websocket takes the request: to the exchange, *)
(* or nowhere if the connection is gone, or it throws.                     *)
Track(kind) ==
  /\ pending' = pending \cup {[kind |-> kind, corr |-> nextCorr, cloid |-> main.cloid]}
  /\ nextCorr' = nextCorr + 1

Post(kind) ==
  requests' = IF link
              THEN Append(requests, [kind |-> kind, corr |-> nextCorr, cloid |-> main.cloid,
                                     qty |-> main.qty, ioc |-> main.ioc])
              ELSE requests

HandlerDone ==
  /\ main' = NoHandler
  /\ UNCHANGED <<link, responses, stream, book, nextOid, isReplay, nextCloid, history>>
  /\ WebsocketUnchanged

PlaceOrder ==
  /\ main.at = "placing"
  /\ Track("place")
  /\ Post("place")
  /\ UNCHANGED gw
  /\ HandlerDone

(* placeOrder throws: the client gets a reject, the maps stay.             *)
PlaceOrderThrows ==
  /\ main.at = "placing"
  /\ ~link
  /\ Track("place")
  /\ gw' = Report(gw, main.client, "REJECTED")
  /\ UNCHANGED requests
  /\ HandlerDone

(* onAmendOrder up to its look into m_clientToCloid; if the order is not   *)
(* there, or the gateway is not connected, it returns without a word.      *)
FindAmended(c) ==
  /\ ~isReplay
  /\ main = NoHandler
  /\ c \notin amendAsked /\ Cardinality(amendAsked) < MaxAmends
  /\ connected
  /\ c \in DOMAIN gw.clientToCloid
  /\ amendAsked' = amendAsked \cup {c}
  /\ \E qty \in Quantities, ioc \in BOOLEAN :
       /\ main' = [at |-> "amending", client |-> c, cloid |-> gw.clientToCloid[c],
                   qty |-> qty, ioc |-> ioc]
       /\ iocAsked' = IF ioc THEN iocAsked \cup {c} ELSE iocAsked
  /\ UNCHANGED <<exchangeVars, gw, isReplay, pending, nextCorr, nextCloid, seen,
                 cloidOf, cancelAsked>>
  /\ WebsocketUnchanged

(* The rest of onAmendOrder.  An exception of modifyOrder is only logged.  *)
ModifyOrder ==
  /\ main.at = "amending"
  /\ gw' = EnterAmend(gw, main.cloid, main.qty, main.ioc)
  /\ Track("modify")
  /\ Post("modify")
  /\ HandlerDone

(* onCancelOrder up to m_clientToCloid.                                    *)
MayCancel(c) ==
  /\ ~isReplay
  /\ main = NoHandler
  /\ c \notin cancelAsked /\ Cardinality(cancelAsked) < MaxCancels
  /\ seen[c] # "no"
  /\ cancelAsked' = cancelAsked \cup {c}
  /\ UNCHANGED <<exchangeVars, isReplay, pending, nextCorr, nextCloid, seen, cloidOf,
                 amendAsked, iocAsked>>
  /\ WebsocketUnchanged

FindCancelled(c) ==
  /\ MayCancel(c)
  /\ connected
  /\ c \in DOMAIN gw.clientToCloid
  /\ main' = [at |-> "cancelling", client |-> c, cloid |-> gw.clientToCloid[c],
              qty |-> 0, ioc |-> FALSE]
  /\ UNCHANGED gw

RejectCancelOrder(c) ==
  /\ MayCancel(c)
  /\ ~connected \/ c \notin DOMAIN gw.clientToCloid
  /\ gw' = Report(gw, c, "CancelReject")
  /\ UNCHANGED main

(* The rest of onCancelOrder.  Its rejects name the order the client did.  *)
CancelOrderByCloid ==
  /\ main.at = "cancelling"
  /\ main.cloid \in gw.cloidToAsset
  /\ Track("cancel")
  /\ Post("cancel")
  /\ UNCHANGED gw
  /\ HandlerDone

CancelOrderFails ==
  /\ main.at = "cancelling"
  /\ \/ main.cloid \notin gw.cloidToAsset /\ UNCHANGED <<pending, nextCorr>>
     \/ main.cloid \in gw.cloidToAsset /\ ~link /\ Track("cancel")
  /\ gw' = Report(gw, main.client, "CancelReject")
  /\ UNCHANGED requests
  /\ HandlerDone

(* The handler under way goes on.                                          *)
MainStep ==
  \/ PlaceOrder \/ PlaceOrderThrows \/ ModifyOrder
  \/ CancelOrderByCloid \/ CancelOrderFails

MainNext ==
  \/ EndReplay
  \/ \E c \in Clients :
       \/ IgnoreNewOrder(c) \/ RejectNewOrder(c) \/ EnterNewOrder(c)
       \/ FindAmended(c) \/ FindCancelled(c) \/ RejectCancelOrder(c)
  \/ MainStep
=============================================================================
