---------------------- MODULE HyperliquidGatewayProofs ----------------------
(***************************************************************************)
(* Proofs about HyperliquidGateway: for any number of orders, and whatever *)
(* is lost, late or out of order, the two client maps are inverse to each  *)
(* other, and an order that never was IOC is reported over once.           *)
(*                                                                         *)
(* Every callback only takes orders out of the maps, in pairs: its result  *)
(* `shrinks' the state it started from.  Only onNewOrder adds a pair, and  *)
(* for that the invariant has to know that the cloid and the client are    *)
(* new: every cloid in use is below nextCloid, and every client in the     *)
(* maps has been seen.                                                     *)
(*                                                                         *)
(* Whoever reports that an order is over takes it out of the maps, with    *)
(* one exception: an order whose placing throws stays in them (Ghost).     *)
(* The invariant has to know that the exchange never heard of a ghost, so  *)
(* that nothing comes that could end it again: no update, no oid and no    *)
(* response to the pending request.                                        *)
(***************************************************************************)
EXTENDS HyperliquidGateway, TLAPS, SequenceTheorems

Fields == {"clientToCloid", "cloidToClient", "oidToCloid", "cloidToOid", "cloidToState",
           "cloidToAsset", "bufferedFills", "told", "unnamed"}

Paired(s) ==
  /\ \A c \in DOMAIN s.clientToCloid :
       /\ s.clientToCloid[c] \in DOMAIN s.cloidToClient
       /\ s.cloidToClient[s.clientToCloid[c]] = c
  /\ \A x \in DOMAIN s.cloidToClient :
       /\ s.cloidToClient[x] \in DOMAIN s.clientToCloid
       /\ s.clientToCloid[s.cloidToClient[x]] = x

(* t has the fields of s, and of its pairs the same or fewer.              *)
Shrinks(s, t) ==
  /\ DOMAIN t = Fields
  /\ Paired(t)
  /\ DOMAIN t.clientToCloid \subseteq DOMAIN s.clientToCloid
  /\ DOMAIN t.cloidToClient \subseteq DOMAIN s.cloidToClient

Good(s) == DOMAIN s = Fields /\ Paired(s)

MapsInv ==
  /\ Good(gw)
  /\ nextCloid \in Nat \ {0}
  /\ \A x \in DOMAIN gw.cloidToClient : x \in Nat /\ x < nextCloid
  /\ \A c \in DOMAIN gw.clientToCloid : seen[c] = "entered"
  /\ seen \in [Clients -> {"no", "ignored", "rejected", "entered"}]

-----------------------------------------------------------------------------
LEMMA ShrinksTrans ==
  ASSUME NEW s, NEW t, NEW u, Shrinks(s, t), Shrinks(t, u)
  PROVE  Shrinks(s, u)
BY DEF Shrinks

LEMMA ShrinksGood ==
  ASSUME NEW s, NEW t, Shrinks(s, t)
  PROVE  Good(t)
BY DEF Shrinks, Good

LEMMA ShrinksSelf ==
  ASSUME NEW s, Good(s)
  PROVE  Shrinks(s, s)
BY DEF Shrinks, Good

(* A change that leaves the two maps alone.                                *)
LEMMA OtherField ==
  ASSUME NEW s, NEW t, Good(s), DOMAIN t = DOMAIN s,
         t.clientToCloid = s.clientToCloid, t.cloidToClient = s.cloidToClient
  PROVE  Shrinks(s, t)
BY DEF Shrinks, Good, Paired

LEMMA SetStateShrinks ==
  ASSUME NEW s, Good(s), NEW cloid, NEW state
  PROVE  Shrinks(s, SetState(s, cloid, state))
BY OtherField DEF SetState, Good, Fields

LEMMA RegisterOidShrinks ==
  ASSUME NEW s, Good(s), NEW oid, NEW cloid
  PROVE  Shrinks(s, RegisterOid(s, oid, cloid))
BY OtherField DEF RegisterOid, Good, Fields

LEMMA SetActiveOidShrinks ==
  ASSUME NEW s, Good(s), NEW oid, NEW cloid
  PROVE  Shrinks(s, SetActiveOid(s, oid, cloid))
<1>1. Good(RegisterOid(s, oid, cloid)) /\ Shrinks(s, RegisterOid(s, oid, cloid))
  BY RegisterOidShrinks, ShrinksGood
<1>2. Shrinks(RegisterOid(s, oid, cloid), SetActiveOid(s, oid, cloid))
  BY <1>1, OtherField DEF SetActiveOid, Good, Fields
<1> QED
  BY <1>1, <1>2, ShrinksTrans

LEMMA InitOrderStateShrinks ==
  ASSUME NEW s, Good(s), NEW cloid, NEW origSz
  PROVE  Shrinks(s, InitOrderState(s, cloid, origSz))
BY SetStateShrinks DEF InitOrderState

LEMMA ApplyFillShrinks ==
  ASSUME NEW s, Good(s), NEW cloid, NEW sz
  PROVE  Shrinks(s, ApplyFill(s, cloid, sz))
BY SetStateShrinks DEF ApplyFill

LEMMA ReportShrinks ==
  ASSUME NEW s, Good(s), NEW client, NEW report
  PROVE  Shrinks(s, Report(s, client, report))
BY OtherField DEF Report, Good, Fields

LEMMA ReportKnownShrinks ==
  ASSUME NEW s, Good(s), NEW client, NEW report
  PROVE  Shrinks(s, ReportKnown(s, client, report))
BY ReportShrinks, ShrinksSelf DEF ReportKnown

(* removeOrder takes an order's client and its cloid out together.         *)
LEMMA RemoveOrdersShrinks ==
  ASSUME NEW s, Good(s), NEW cloids
  PROVE  Shrinks(s, RemoveOrders(s, cloids))
<1> DEFINE t == RemoveOrders(s, cloids)
           clients == {s.cloidToClient[x] : x \in cloids \cap DOMAIN s.cloidToClient}
<1>1. DOMAIN ForgetExchangeIds(s, cloids) = Fields
  BY DEF ForgetExchangeIds, Good, Fields
<1>2. DOMAIN t = Fields
  BY <1>1 DEF RemoveOrders, Fields
<1>3. /\ ForgetExchangeIds(s, cloids).clientToCloid = s.clientToCloid
      /\ ForgetExchangeIds(s, cloids).cloidToClient = s.cloidToClient
  BY DEF ForgetExchangeIds, Good, Fields
<1>4. /\ t.clientToCloid = Erase(s.clientToCloid, clients)
      /\ t.cloidToClient = Erase(s.cloidToClient, cloids)
  BY <1>1, <1>3 DEF RemoveOrders, Fields
<1>5. /\ DOMAIN t.clientToCloid = DOMAIN s.clientToCloid \ clients
      /\ DOMAIN t.cloidToClient = DOMAIN s.cloidToClient \ cloids
      /\ \A c \in DOMAIN t.clientToCloid : t.clientToCloid[c] = s.clientToCloid[c]
      /\ \A x \in DOMAIN t.cloidToClient : t.cloidToClient[x] = s.cloidToClient[x]
  BY <1>4 DEF Erase
<1>6. ASSUME NEW c \in DOMAIN t.clientToCloid
      PROVE  /\ t.clientToCloid[c] \in DOMAIN t.cloidToClient
             /\ t.cloidToClient[t.clientToCloid[c]] = c
  <2>1. c \in DOMAIN s.clientToCloid /\ c \notin clients /\ t.clientToCloid[c] = s.clientToCloid[c]
    BY <1>5, <1>6
  <2>2. /\ s.clientToCloid[c] \in DOMAIN s.cloidToClient
        /\ s.cloidToClient[s.clientToCloid[c]] = c
    BY <2>1 DEF Good, Paired
  <2>3. s.clientToCloid[c] \notin cloids
    BY <2>1, <2>2
  <2> QED
    BY <1>5, <2>1, <2>2, <2>3
<1>7. ASSUME NEW x \in DOMAIN t.cloidToClient
      PROVE  /\ t.cloidToClient[x] \in DOMAIN t.clientToCloid
             /\ t.clientToCloid[t.cloidToClient[x]] = x
  <2>1. x \in DOMAIN s.cloidToClient /\ x \notin cloids /\ t.cloidToClient[x] = s.cloidToClient[x]
    BY <1>5, <1>7
  <2>2. /\ s.cloidToClient[x] \in DOMAIN s.clientToCloid
        /\ s.clientToCloid[s.cloidToClient[x]] = x
    BY <2>1 DEF Good, Paired
  <2>3. s.cloidToClient[x] \notin clients
    <3>1. SUFFICES ASSUME NEW y \in cloids \cap DOMAIN s.cloidToClient,
                          s.cloidToClient[y] = s.cloidToClient[x]
                   PROVE  FALSE
      OBVIOUS
    <3>2. s.clientToCloid[s.cloidToClient[y]] = y
      BY DEF Good, Paired
    <3> QED
      BY <2>1, <2>2, <3>1, <3>2
  <2> QED
    BY <1>5, <2>1, <2>2, <2>3
<1>8. Paired(t)
  BY <1>6, <1>7 DEF Paired
<1>9. /\ DOMAIN t.clientToCloid \subseteq DOMAIN s.clientToCloid
      /\ DOMAIN t.cloidToClient \subseteq DOMAIN s.cloidToClient
  BY <1>5
<1> QED
  BY <1>2, <1>8, <1>9 DEF Shrinks

LEMMA RemoveOrderShrinks ==
  ASSUME NEW s, Good(s), NEW cloid
  PROVE  Shrinks(s, RemoveOrder(s, cloid))
BY RemoveOrdersShrinks DEF RemoveOrder

(* Reporting on an order and then forgetting it.                           *)
LEMMA ReportRemoveShrinks ==
  ASSUME NEW s, Good(s), NEW client, NEW report, NEW cloid
  PROVE  Shrinks(s, RemoveOrder(Report(s, client, report), cloid))
<1>1. Good(Report(s, client, report)) /\ Shrinks(s, Report(s, client, report))
  BY ReportShrinks, ShrinksGood
<1> QED
  BY <1>1, RemoveOrderShrinks, ShrinksTrans

-----------------------------------------------------------------------------
(* The callbacks.                                                          *)
LEMMA CheckTimeoutsShrinks ==
  ASSUME NEW s, Good(s), NEW n, NEW late
  PROVE  Shrinks(s, CheckTimeouts(s, n, late))
<1> DEFINE swept == late \cap DOMAIN s.cloidToClient
           clients == {s.cloidToClient[cloid] : cloid \in swept}
           t == [s EXCEPT
                   !.bufferedFills = SubSeq(@, n + 1, Len(@)),
                   !.told = [c \in Clients |-> IF c \in clients THEN Heard(@[c], "CANCELLED")
                                                                ELSE @[c]]]
<1>0. /\ DOMAIN t = DOMAIN s
      /\ t.clientToCloid = s.clientToCloid /\ t.cloidToClient = s.cloidToClient
  BY DEF Good, Fields
<1>1. Shrinks(s, t)
  <2> HIDE DEF t
  <2> QED
    BY <1>0, OtherField
<1>2. Good(t) /\ Shrinks(t, RemoveOrders(t, swept))
  <2> HIDE DEF t, swept
  <2> QED
    BY <1>1, ShrinksGood, RemoveOrdersShrinks
<1>3. CheckTimeouts(s, n, late) = RemoveOrders(t, swept)
  BY DEF CheckTimeouts
<1> HIDE DEF t, swept
<1> QED
  BY <1>1, <1>2, <1>3, ShrinksTrans

LEMMA EmitFillShrinks ==
  ASSUME NEW s, Good(s), NEW client, NEW cloid
  PROVE  Shrinks(s, EmitFill(s, client, cloid))
<1>t. PICK t : t = ApplyFill(s, cloid, 1)
  OBVIOUS
<1>1. Shrinks(s, t) /\ Good(t)
  BY <1>t, ApplyFillShrinks, ShrinksGood
<1>2. \/ EmitFill(s, client, cloid) = Report(t, client, "PARTIALLY_FILLED")
      \/ EmitFill(s, client, cloid) = Report(t, client, "FILLED")
      \/ EmitFill(s, client, cloid) = RemoveOrder(Report(t, client, "FILLED"), cloid)
  BY <1>t DEF EmitFill
<1>3. Shrinks(t, EmitFill(s, client, cloid))
  BY <1>1, <1>2, ReportShrinks, ReportRemoveShrinks
<1> QED
  BY <1>1, <1>3, ShrinksTrans

LEMMA OnUserFillShrinks ==
  ASSUME NEW s, Good(s), NEW fill
  PROVE  Shrinks(s, OnUserFill(s, fill))
<1>1. Shrinks(s, BufferFill(s, fill))
  BY OtherField DEF BufferFill, Good, Fields
<1> QED
  BY <1>1, EmitFillShrinks DEF OnUserFill

LEMMA TakeBufferedShrinks ==
  ASSUME NEW s, Good(s), NEW oid
  PROVE  Shrinks(s, TakeBuffered(s, oid))
BY OtherField DEF TakeBuffered, Good, Fields

LEMMA OnOrderUpdateShrinks ==
  ASSUME NEW s, Good(s), NEW u
  PROVE  Shrinks(s, OnOrderUpdate(s, u))
<1>t. PICK t : t = RegisterOid(s, u.oid, u.cloid)
  OBVIOUS
<1>1. Shrinks(s, t) /\ Good(t)
  BY <1>t, RegisterOidShrinks, ShrinksGood
<1>2. Shrinks(t, OnOpen(t, u))
  <2>a. PICK a : a = SetActiveOid(t, u.oid, u.cloid)
    OBVIOUS
  <2>b. PICK b : b = InitOrderState(a, u.cloid, u.origSz)
    OBVIOUS
  <2>1. Shrinks(t, a) /\ Good(a)
    BY <1>1, <2>a, SetActiveOidShrinks, ShrinksGood
  <2>2. Shrinks(a, b) /\ Good(b)
    BY <2>1, <2>b, InitOrderStateShrinks, ShrinksGood
  <2>3. OnOpen(t, u) = ReportKnown(b, LookupClientOrderId(b, u.cloid), "NEW")
    BY <2>a, <2>b DEF OnOpen
  <2>4. Shrinks(b, OnOpen(t, u))
    BY <2>2, <2>3, ReportKnownShrinks
  <2> QED
    BY <2>1, <2>2, <2>4, ShrinksTrans
<1>3. Shrinks(t, OnFilled(t, u))
  <2>r. PICK r : r = ReportKnown(t, LookupClientOrderId(t, u.cloid), "CANCELLED")
    OBVIOUS
  <2>1. Shrinks(t, r) /\ Good(r)
    BY <1>1, <2>r, ReportKnownShrinks, ShrinksGood
  <2>2. OnFilled(t, u) = RemoveOrder(r, u.cloid) \/ OnFilled(t, u) = RemoveOrder(t, u.cloid)
    BY <2>r DEF OnFilled
  <2> QED
    BY <1>1, <2>1, <2>2, RemoveOrderShrinks, ShrinksTrans
<1>4. Shrinks(t, OnEnded(t, u))
  BY <1>1, ReportRemoveShrinks, ShrinksSelf DEF OnEnded
<1>5. OnOrderUpdate(s, u) \in {OnOpen(t, u), t, OnFilled(t, u), OnEnded(t, u)}
  BY <1>t DEF OnOrderUpdate
<1> QED
  BY <1>1, <1>2, <1>3, <1>4, <1>5, ShrinksTrans

LEMMA RejectShrinks ==
  ASSUME NEW s, Good(s), NEW cloid
  PROVE  Shrinks(s, SendNewOrderReject(s, cloid))
BY ReportRemoveShrinks DEF SendNewOrderReject

LEMMA ResponseShrinks ==
  ASSUME NEW s, Good(s), NEW result, NEW cloid
  PROVE  /\ Shrinks(s, OnPlaceOrder(s, result, cloid))
         /\ Shrinks(s, OnModifyOrder(s, result, cloid))
         /\ Shrinks(s, OnCancelOrder(s, result, cloid))
<1>1. Shrinks(s, OnPlaceOrder(s, result, cloid))
  BY RejectShrinks, ShrinksSelf DEF OnPlaceOrder
<1>2. Shrinks(s, OnModifyOrder(s, result, cloid))
  BY ReportKnownShrinks, ShrinksSelf DEF OnModifyOrder, SendAmendReject
<1>3. Shrinks(s, OnCancelOrder(s, result, cloid))
  BY ReportShrinks, ShrinksSelf DEF OnCancelOrder, SendCancelReject
<1> QED
  BY <1>1, <1>2, <1>3

-----------------------------------------------------------------------------
(* A step that takes pairs out, and enters no order.                       *)
LEMMA ShrinkingStep ==
  ASSUME MapsInv, Shrinks(gw, gw'), UNCHANGED <<nextCloid, seen>>
  PROVE  MapsInv'
<1>1. Good(gw')
  BY ShrinksGood
<1>2. /\ DOMAIN gw'.clientToCloid \subseteq DOMAIN gw.clientToCloid
      /\ DOMAIN gw'.cloidToClient \subseteq DOMAIN gw.cloidToClient
  BY DEF Shrinks
<1> QED
  BY <1>1, <1>2 DEF MapsInv

LEMMA WebsocketStepMaps ==
  ASSUME MapsInv, WebsocketStep
  PROVE  MapsInv'
<1>0. Good(gw)
  BY DEF MapsInv
<1>a. \A checked \in AfterCheckTimeouts : Shrinks(gw, checked)
  BY <1>0, CheckTimeoutsShrinks DEF AfterCheckTimeouts
<1>1. ASSUME NEW i \in 1 .. Len(stream), OrderUpdateArrives(i)
      PROVE  MapsInv'
  <2>1. PICK checked \in AfterCheckTimeouts :
          gw' = OnOrderUpdate(checked, stream[i])
          \/ gw' = TakeBuffered(OnOrderUpdate(checked, stream[i]), stream[i].oid)
    BY <1>1 DEF OrderUpdateArrives
  <2>2. Shrinks(gw, OnOrderUpdate(checked, stream[i]))
    BY <1>a, ShrinksGood, OnOrderUpdateShrinks, ShrinksTrans
  <2>3. Shrinks(OnOrderUpdate(checked, stream[i]),
                TakeBuffered(OnOrderUpdate(checked, stream[i]), stream[i].oid))
    BY <2>2, ShrinksGood, TakeBufferedShrinks
  <2>4. Shrinks(gw, gw')
    BY <2>1, <2>2, <2>3, ShrinksTrans
  <2>5. UNCHANGED <<nextCloid, seen>>
    BY <1>1 DEF OrderUpdateArrives, RestUnchanged, history
  <2> QED
    BY <2>4, <2>5, ShrinkingStep
<1>2. ASSUME NEW i \in 1 .. Len(stream), UserFillArrives(i)
      PROVE  MapsInv'
  <2>1. PICK checked \in AfterCheckTimeouts : gw' = OnUserFill(checked, stream[i])
    BY <1>2 DEF UserFillArrives
  <2>2. Shrinks(gw, gw')
    BY <1>a, <2>1, ShrinksGood, OnUserFillShrinks, ShrinksTrans
  <2>3. UNCHANGED <<nextCloid, seen>>
    BY <1>2 DEF UserFillArrives, RestUnchanged, history
  <2> QED
    BY <2>2, <2>3, ShrinkingStep
<1>3. CASE ReplayFill
  <2>1. Shrinks(gw, gw')
    BY <1>0, <1>3, EmitFillShrinks DEF ReplayFill
  <2>2. UNCHANGED <<nextCloid, seen>>
    BY <1>3 DEF ReplayFill, RestUnchanged, history
  <2> QED
    BY <2>1, <2>2, ShrinkingStep
<1>4. ASSUME NEW r \in responses, ResponseArrives(r)
      PROVE  MapsInv'
  <2>1. \/ gw' = OnPlaceOrder(gw, r.result, PendingCloid(r))
        \/ gw' = OnModifyOrder(gw, r.result, PendingCloid(r))
        \/ gw' = OnCancelOrder(gw, r.result, PendingCloid(r))
    BY <1>4 DEF ResponseArrives
  <2>0. Shrinks(gw, gw')
    BY <1>0, <2>1, ResponseShrinks
  <2>2. UNCHANGED <<nextCloid, seen>>
    BY <1>4 DEF ResponseArrives, RestUnchanged, history
  <2> QED
    BY <2>0, <2>2, ShrinkingStep
<1>5. CASE OnConnected
  BY <1>0, <1>5, ShrinksSelf, ShrinkingStep DEF OnConnected, RestUnchanged, history
<1>6. CASE OnDisconnected
  <2>1. Shrinks(gw, gw')
    BY <1>0, <1>6, OtherField DEF OnDisconnected, Good, Fields
  <2>2. UNCHANGED <<nextCloid, seen>>
    BY <1>6 DEF OnDisconnected, RestUnchanged, history
  <2> QED
    BY <2>1, <2>2, ShrinkingStep
<1> QED
  BY <1>1, <1>2, <1>3, <1>4, <1>5, <1>6 DEF WebsocketStep

(* onNewOrder adds a client and a cloid that were in no pair before.       *)
LEMMA EnterNewOrderMaps ==
  ASSUME MapsInv, NEW c \in Clients, EnterNewOrder(c)
  PROVE  MapsInv'
<1>1. PICK qty \in Quantities, ioc \in BOOLEAN : gw' = AddOrder(gw, c, nextCloid, qty, ioc)
  BY DEF EnterNewOrder
<1>2. /\ seen[c] = "no" /\ seen' = [seen EXCEPT ![c] = "entered"]
      /\ nextCloid' = nextCloid + 1
  BY DEF EnterNewOrder
<1>3. c \notin DOMAIN gw.clientToCloid
  BY <1>2 DEF MapsInv
<1>4. nextCloid \notin DOMAIN gw.cloidToClient
  BY DEF MapsInv
<1>5. /\ DOMAIN gw' = Fields
      /\ gw'.clientToCloid = Put(gw.clientToCloid, c, nextCloid)
      /\ gw'.cloidToClient = Put(gw.cloidToClient, nextCloid, c)
  BY <1>1 DEF AddOrder, MapsInv, Good, Fields
<1>6. /\ DOMAIN gw'.clientToCloid = DOMAIN gw.clientToCloid \cup {c}
      /\ gw'.clientToCloid[c] = nextCloid
      /\ \A d \in DOMAIN gw.clientToCloid : gw'.clientToCloid[d] = gw.clientToCloid[d]
  BY <1>3, <1>5 DEF Put
<1>7. /\ DOMAIN gw'.cloidToClient = DOMAIN gw.cloidToClient \cup {nextCloid}
      /\ gw'.cloidToClient[nextCloid] = c
      /\ \A x \in DOMAIN gw.cloidToClient : gw'.cloidToClient[x] = gw.cloidToClient[x]
  BY <1>4, <1>5 DEF Put
<1>8. Paired(gw')
  <2>1. ASSUME NEW d \in DOMAIN gw'.clientToCloid
        PROVE  /\ gw'.clientToCloid[d] \in DOMAIN gw'.cloidToClient
               /\ gw'.cloidToClient[gw'.clientToCloid[d]] = d
    BY <1>6, <1>7, <2>1 DEF MapsInv, Good, Paired
  <2>2. ASSUME NEW x \in DOMAIN gw'.cloidToClient
        PROVE  /\ gw'.cloidToClient[x] \in DOMAIN gw'.clientToCloid
               /\ gw'.clientToCloid[gw'.cloidToClient[x]] = x
    BY <1>6, <1>7, <2>2 DEF MapsInv, Good, Paired
  <2> QED
    BY <2>1, <2>2 DEF Paired
<1>9. \A x \in DOMAIN gw'.cloidToClient : x \in Nat /\ x < nextCloid'
  BY <1>2, <1>7 DEF MapsInv
<1>10. \A d \in DOMAIN gw'.clientToCloid : seen'[d] = "entered"
  BY <1>2, <1>6 DEF MapsInv
<1>11. seen' \in [Clients -> {"no", "ignored", "rejected", "entered"}]
  BY <1>2 DEF MapsInv
<1>12. nextCloid' \in Nat \ {0}
  BY <1>2 DEF MapsInv
<1> QED
  BY <1>5, <1>8, <1>9, <1>10, <1>11, <1>12 DEF MapsInv, Good

LEMMA MainNextMaps ==
  ASSUME MapsInv, MainNext
  PROVE  MapsInv'
<1>0. Good(gw) /\ Shrinks(gw, gw)
  BY ShrinksSelf DEF MapsInv
<1>1. CASE EndReplay
  BY <1>0, <1>1, ShrinkingStep DEF EndReplay, history
<1>2. ASSUME NEW c \in Clients, IgnoreNewOrder(c)
      PROVE  MapsInv'
  <2>1. UNCHANGED <<gw, nextCloid>> /\ seen[c] = "no" /\ seen' = [seen EXCEPT ![c] = "ignored"]
    BY <1>2 DEF IgnoreNewOrder
  <2> QED
    BY <2>1 DEF MapsInv
<1>3. ASSUME NEW c \in Clients, RejectNewOrder(c)
      PROVE  MapsInv'
  <2>1. /\ gw' = Report(gw, c, "REJECTED") /\ nextCloid' = nextCloid
        /\ seen[c] = "no" /\ seen' = [seen EXCEPT ![c] = "rejected"]
    BY <1>3 DEF RejectNewOrder
  <2>2. Shrinks(gw, gw')
    BY <1>0, <2>1, ReportShrinks
  <2>3. /\ Good(gw')
        /\ DOMAIN gw'.clientToCloid \subseteq DOMAIN gw.clientToCloid
        /\ DOMAIN gw'.cloidToClient \subseteq DOMAIN gw.cloidToClient
    BY <2>2, ShrinksGood DEF Shrinks
  <2> QED
    BY <2>1, <2>3 DEF MapsInv
<1>4. ASSUME NEW c \in Clients, EnterNewOrder(c)
      PROVE  MapsInv'
  BY <1>4, EnterNewOrderMaps
<1>5. ASSUME NEW c \in Clients, FindAmended(c)
      PROVE  MapsInv'
  BY <1>0, <1>5, ShrinkingStep DEF FindAmended
<1>6. ASSUME NEW c \in Clients, FindCancelled(c)
      PROVE  MapsInv'
  BY <1>0, <1>6, ShrinkingStep DEF FindCancelled, MayCancel
<1>7. ASSUME NEW c \in Clients, RejectCancelOrder(c)
      PROVE  MapsInv'
  BY <1>0, <1>7, ReportShrinks, ShrinkingStep DEF RejectCancelOrder, MayCancel
<1>8. CASE MainStep
  <2>1. Shrinks(gw, gw')
    <3>1. CASE PlaceOrder \/ CancelOrderByCloid
      BY <1>0, <3>1 DEF PlaceOrder, CancelOrderByCloid
    <3>2. CASE PlaceOrderThrows \/ CancelOrderFails
      BY <1>0, <3>2, ReportShrinks DEF PlaceOrderThrows, CancelOrderFails
    <3>3. CASE ModifyOrder
      BY <1>0, <3>3, SetStateShrinks DEF ModifyOrder, EnterAmend
    <3> QED
      BY <1>8, <3>1, <3>2, <3>3 DEF MainStep
  <2>2. UNCHANGED <<nextCloid, seen>>
    BY <1>8 DEF MainStep, PlaceOrder, PlaceOrderThrows, ModifyOrder, CancelOrderByCloid,
                CancelOrderFails, HandlerDone, history
  <2> QED
    BY <2>1, <2>2, ShrinkingStep
<1> QED
  BY <1>1, <1>2, <1>3, <1>4, <1>5, <1>6, <1>7, <1>8 DEF MainNext

(* For any number of orders, and whatever is lost, late or out of order:   *)
(* clientToCloid and cloidToClient are inverse to each other.              *)
THEOREM MapsStayInverse == Spec => []ClientMapsInverse
<1>1. Init => MapsInv
  <2> SUFFICES ASSUME Init PROVE MapsInv
    OBVIOUS
  <2>1. DOMAIN gw = Fields /\ gw.clientToCloid = NoEntries /\ gw.cloidToClient = NoEntries
    BY DEF Init, GatewayInit, Fields
  <2>2. DOMAIN NoEntries = {}
    BY DEF NoEntries
  <2>3. nextCloid = 1 /\ seen = [c \in Clients |-> "no"]
    BY DEF Init, GatewayInit
  <2> QED
    BY <2>1, <2>2, <2>3 DEF MapsInv, Good, Paired
<1>2. MapsInv /\ [Next]_vars => MapsInv'
  <2> SUFFICES ASSUME MapsInv, [Next]_vars PROVE MapsInv'
    OBVIOUS
  <2>0. Shrinks(gw, gw)
    BY ShrinksSelf DEF MapsInv
  <2>1. CASE Exchange \/ UNCHANGED vars
    <3>1. UNCHANGED <<gw, nextCloid, seen>>
      BY <2>1 DEF Exchange, vars, gatewayVars, history
    <3> QED
      BY <2>0, <3>1, ShrinkingStep
  <2>2. CASE WebsocketStep
    BY <2>2, WebsocketStepMaps
  <2>3. CASE LinkBreaks
    <3>1. UNCHANGED <<gw, nextCloid, seen>>
      BY <2>3 DEF LinkBreaks, history
    <3> QED
      BY <2>0, <3>1, ShrinkingStep
  <2>4. CASE MainNext
    BY <2>4, MainNextMaps
  <2> QED
    BY <2>1, <2>2, <2>3, <2>4 DEF Next
<1>3. MapsInv => ClientMapsInverse
  BY DEF MapsInv, Good, Paired, ClientMapsInverse
<1> QED
  BY <1>1, <1>2, <1>3, PTL DEF Spec
-----------------------------------------------------------------------------
(* The ends of orders.                                                     *)
IsIoc(s, x) == x \in DOMAIN s.cloidToState /\ s.cloidToState[x].isIoc

(* The exchange does not know the order, and no request to place it, no    *)
(* news and no answer of it is on the way.                                 *)
NeverSent(x) ==
  /\ book[x].state = "unknown"
  /\ \A i \in 1 .. Len(requests) : requests[i].kind = "place" => requests[i].cloid # x
  /\ \A i \in 1 .. Len(stream) : stream[i].cloid # x
  /\ \A r \in responses, p \in pending :
       r.kind = "place" /\ p.kind = "place" /\ p.corr = r.corr => p.cloid # x

Known(s, X) == \A oid \in DOMAIN s.oidToCloid : s.oidToCloid[oid] \in X

Ghost(x) == NeverSent(x) /\ \A oid \in DOMAIN gw.oidToCloid : gw.oidToCloid[oid] # x

(* The orders that a callback may be about.                                *)
Sent == {x \in Cloids : ~Ghost(x)}

-----------------------------------------------------------------------------
Pendings == [kind : {"place", "modify", "cancel"}, corr : Nat, cloid : Cloids]

Handlers == [at : {"idle", "placing", "amending", "cancelling"}, client : Clients \cup {NoClient},
             cloid : AnyCloid, qty : Quantities \cup {0}, ioc : BOOLEAN]

TypesOK ==
  /\ ExchangeTypeOK
  /\ pending \subseteq Pendings /\ nextCorr \in Nat
  /\ main \in Handlers
  /\ cloidOf \in [Clients -> AnyCloid] /\ iocAsked \subseteq Clients

MapsTyped(s) ==
  /\ IsMap(s.clientToCloid, Clients, Cloids)
  /\ IsMap(s.cloidToClient, Cloids, Clients)
  /\ \A x \in DOMAIN s.cloidToState : "isIoc" \in DOMAIN s.cloidToState[x]
  /\ s.told \in [Clients -> Telling]

(* There is something left of a live order, so that its size stays one.    *)
LiveLeft ==
  /\ \A x \in Cloids : book[x].state = "live" => book[x].left # 0
  /\ \A i \in 1 .. Len(requests) : requests[i].kind # "cancel" => requests[i].qty # 0
  /\ main.at \in {"placing", "amending"} => main.qty # 0

(* A correlation id names one request, wherever it is.                     *)
CorrInv ==
  /\ \A i \in 1 .. Len(requests) : requests[i].corr < nextCorr
  /\ \A r \in responses : r.corr < nextCorr
  /\ \A p \in pending : p.corr < nextCorr
  /\ \A i \in 1 .. Len(requests) : \A p \in pending :
       p.corr = requests[i].corr => p.kind = requests[i].kind /\ p.cloid = requests[i].cloid

(* A client's cloid is the one it was given, and nobody else's.            *)
CloidInv ==
  /\ Known(gw, Cloids)
  /\ \A c \in DOMAIN gw.clientToCloid : gw.clientToCloid[c] = cloidOf[c]
  /\ \A c \in Entered : cloidOf[c] \in Cloids /\ cloidOf[c] < nextCloid
  /\ \A c, d \in Entered : cloidOf[c] = cloidOf[d] => c = d
  /\ main.at # "idle" => main.client \in Entered /\ main.cloid = cloidOf[main.client]

Placing(x) == main.at = "placing" /\ main.cloid = x

GhostInv == \A x \in Cloids : x >= nextCloid \/ Placing(x) => Ghost(x)

IocInv ==
  /\ \A c \in Entered : IsIoc(gw, cloidOf[c]) => c \in iocAsked
  /\ main.at # "idle" /\ main.ioc => main.client \in iocAsked

EndInv ==
  /\ \A c \in Clients : seen[c] = "no" => gw.told[c].ends = 0
  /\ \A c \in Entered \ iocAsked :
       \/ gw.told[c].ends = 0
       \/ gw.told[c].ends = 1 /\ (c \in DOMAIN gw.clientToCloid => Ghost(cloidOf[c]))
  /\ main.at = "placing" /\ main.client \notin iocAsked => gw.told[main.client].ends = 0

IInv ==
  /\ MapsInv /\ TypesOK /\ MapsTyped(gw) /\ LiveLeft
  /\ CorrInv /\ CloidInv /\ GhostInv /\ IocInv /\ EndInv

USE ClientsAssumption, ExchangeAssumption

-----------------------------------------------------------------------------
(* What callbacks about the orders X make of the gateway's state: every    *)
(* client is told as before, or that its order is over, which takes it out *)
(* of the maps, or its order is IOC.                                       *)
Fit(s, X) == Good(s) /\ MapsTyped(s) /\ Known(s, X)

EndsOnceIn(s, t, X, c) ==
  \/ t.told[c].ends = s.told[c].ends
  \/ /\ c \in DOMAIN s.clientToCloid /\ s.clientToCloid[c] \in X
     /\ t.told[c].ends = s.told[c].ends + 1
     /\ c \notin DOMAIN t.clientToCloid
  \/ c \in DOMAIN s.clientToCloid /\ IsIoc(s, s.clientToCloid[c])

Settles(s, t, X) ==
  /\ Fit(t, X)
  /\ \A c \in DOMAIN t.clientToCloid :
       c \in DOMAIN s.clientToCloid /\ t.clientToCloid[c] = s.clientToCloid[c]
  /\ \A x : IsIoc(t, x) => IsIoc(s, x)
  /\ \A c \in Clients : EndsOnceIn(s, t, X, c)

LEMMA SettlesTrans ==
  ASSUME NEW s, NEW t, NEW u, NEW X, Settles(s, t, X), Settles(t, u, X)
  PROVE  Settles(s, u, X)
<1>1. ASSUME NEW c \in DOMAIN u.clientToCloid
      PROVE  c \in DOMAIN s.clientToCloid /\ u.clientToCloid[c] = s.clientToCloid[c]
  BY DEF Settles
<1>2. \A x : IsIoc(u, x) => IsIoc(s, x)
  BY DEF Settles
<1>3. ASSUME NEW c \in Clients
      PROVE  EndsOnceIn(s, u, X, c)
  <2>1. EndsOnceIn(s, t, X, c) /\ EndsOnceIn(t, u, X, c)
    BY DEF Settles
  <2>2. c \in DOMAIN t.clientToCloid =>
          c \in DOMAIN s.clientToCloid /\ t.clientToCloid[c] = s.clientToCloid[c]
    BY DEF Settles
  <2>3. c \in DOMAIN u.clientToCloid => c \in DOMAIN t.clientToCloid
    BY DEF Settles
  <2>4. \A x : IsIoc(t, x) => IsIoc(s, x)
    BY DEF Settles
  <2>5. CASE t.told[c].ends = s.told[c].ends
    BY <2>1, <2>2, <2>4, <2>5 DEF EndsOnceIn
  <2>6. CASE /\ c \in DOMAIN s.clientToCloid /\ s.clientToCloid[c] \in X
             /\ t.told[c].ends = s.told[c].ends + 1
             /\ c \notin DOMAIN t.clientToCloid
    BY <2>1, <2>3, <2>6 DEF EndsOnceIn
  <2>7. CASE c \in DOMAIN s.clientToCloid /\ IsIoc(s, s.clientToCloid[c])
    BY <2>7 DEF EndsOnceIn
  <2> QED
    BY <2>1, <2>5, <2>6, <2>7 DEF EndsOnceIn
<1> QED
  BY <1>1, <1>2, <1>3 DEF Settles

LEMMA SettlesSelf ==
  ASSUME NEW s, NEW X, Fit(s, X)
  PROVE  Settles(s, s, X)
BY DEF Settles, EndsOnceIn

LEMMA SettlesFit ==
  ASSUME NEW s, NEW t, NEW X, Settles(s, t, X)
  PROVE  Fit(t, X)
BY DEF Settles

LEMMA FitGood ==
  ASSUME NEW s, NEW X, Fit(s, X)
  PROVE  Good(s)
BY DEF Fit

(* A change of other fields only.                                          *)
LEMMA Unsaid ==
  ASSUME NEW s, NEW X, Fit(s, X), NEW t, Good(t),
         t.clientToCloid = s.clientToCloid, t.cloidToClient = s.cloidToClient,
         t.cloidToState = s.cloidToState, t.told = s.told, t.oidToCloid = s.oidToCloid
  PROVE  Settles(s, t, X)
BY DEF Settles, Fit, MapsTyped, Known, EndsOnceIn, IsIoc

LEMMA StateSettles ==
  ASSUME NEW s, NEW X, Fit(s, X), NEW cloid, NEW state,
         "isIoc" \in DOMAIN state, state.isIoc => IsIoc(s, cloid)
  PROVE  Settles(s, SetState(s, cloid, state), X)
<1> DEFINE t == SetState(s, cloid, state)
<1>1. Good(t)
  BY SetStateShrinks, ShrinksGood, FitGood
<1>2. /\ t.clientToCloid = s.clientToCloid /\ t.cloidToClient = s.cloidToClient
      /\ t.told = s.told /\ t.oidToCloid = s.oidToCloid
      /\ t.cloidToState = Put(s.cloidToState, cloid, state)
  BY DEF SetState, Fit, Good, Fields
<1>3. /\ DOMAIN t.cloidToState = DOMAIN s.cloidToState \cup {cloid}
      /\ t.cloidToState[cloid] = state
      /\ \A x \in DOMAIN s.cloidToState : x # cloid => t.cloidToState[x] = s.cloidToState[x]
  BY <1>2 DEF Put
<1> HIDE DEF t
<1>4. MapsTyped(t)
  BY <1>2, <1>3 DEF MapsTyped, Fit
<1>5. \A x : IsIoc(t, x) => IsIoc(s, x)
  BY <1>3 DEF IsIoc
<1>6. Settles(s, t, X)
  BY <1>1, <1>2, <1>4, <1>5 DEF Settles, Fit, Known, EndsOnceIn
<1> QED
  BY <1>6 DEF t

LEMMA StateOfIoc ==
  ASSUME NEW s, NEW X, Fit(s, X), NEW cloid
  PROVE  /\ "isIoc" \in DOMAIN StateOf(s, cloid)
         /\ StateOf(s, cloid).isIoc => IsIoc(s, cloid)
BY DEF StateOf, NewState, IsIoc, Fit, MapsTyped

LEMMA InitOrderStateSettles ==
  ASSUME NEW s, NEW X, Fit(s, X), NEW cloid, NEW origSz
  PROVE  Settles(s, InitOrderState(s, cloid, origSz), X)
<1> DEFINE state == [StateOf(s, cloid) EXCEPT
                       !.origSz = Larger(StateOf(s, cloid).requestedQty, origSz), !.cumQty = 0]
<1>1. "isIoc" \in DOMAIN StateOf(s, cloid) /\ (StateOf(s, cloid).isIoc => IsIoc(s, cloid))
  BY StateOfIoc
<1>2. "isIoc" \in DOMAIN state /\ state.isIoc = StateOf(s, cloid).isIoc
  BY <1>1
<1>3. InitOrderState(s, cloid, origSz) = SetState(s, cloid, state)
  BY DEF InitOrderState
<1> HIDE DEF state
<1> QED
  BY <1>1, <1>2, <1>3, StateSettles

LEMMA ApplyFillSettles ==
  ASSUME NEW s, NEW X, Fit(s, X), NEW cloid, NEW sz
  PROVE  Settles(s, ApplyFill(s, cloid, sz), X)
<1> DEFINE state == [StateOf(s, cloid) EXCEPT !.cumQty = @ + sz]
<1>1. "isIoc" \in DOMAIN StateOf(s, cloid) /\ (StateOf(s, cloid).isIoc => IsIoc(s, cloid))
  BY StateOfIoc
<1>2. "isIoc" \in DOMAIN state /\ state.isIoc = StateOf(s, cloid).isIoc
  BY <1>1
<1>3. ApplyFill(s, cloid, sz) = SetState(s, cloid, state)
  BY DEF ApplyFill
<1> HIDE DEF state
<1> QED
  BY <1>1, <1>2, <1>3, StateSettles

LEMMA RegisterOidSettles ==
  ASSUME NEW s, NEW X, Fit(s, X), NEW oid, NEW cloid \in X
  PROVE  Settles(s, RegisterOid(s, oid, cloid), X)
<1> DEFINE t == RegisterOid(s, oid, cloid)
<1>1. Good(t)
  BY RegisterOidShrinks, ShrinksGood, FitGood
<1>2. /\ t.clientToCloid = s.clientToCloid /\ t.cloidToClient = s.cloidToClient
      /\ t.told = s.told /\ t.cloidToState = s.cloidToState
      /\ t.oidToCloid = Put(s.oidToCloid, oid, cloid)
  BY DEF RegisterOid, Fit, Good, Fields
<1>3. Known(t, X)
  BY <1>2 DEF Known, Put, Fit
<1> HIDE DEF t
<1>4. Settles(s, t, X)
  BY <1>1, <1>2, <1>3 DEF Settles, Fit, MapsTyped, EndsOnceIn, IsIoc
<1> QED
  BY <1>4 DEF t

LEMMA SetActiveOidSettles ==
  ASSUME NEW s, NEW X, Fit(s, X), NEW oid, NEW cloid \in X
  PROVE  Settles(s, SetActiveOid(s, oid, cloid), X)
<1>t. PICK t : t = RegisterOid(s, oid, cloid)
  OBVIOUS
<1>1. Settles(s, t, X) /\ Fit(t, X)
  BY <1>t, RegisterOidSettles, SettlesFit
<1>2. SetActiveOid(s, oid, cloid) = [t EXCEPT !.cloidToOid = Put(s.cloidToOid, cloid, oid)]
  BY <1>t DEF SetActiveOid
<1>3. Good(SetActiveOid(s, oid, cloid))
  BY SetActiveOidShrinks, ShrinksGood, FitGood
<1>4. Settles(t, SetActiveOid(s, oid, cloid), X)
  BY <1>1, <1>2, <1>3, Unsaid DEF Fit, Good, Fields
<1> QED
  BY <1>1, <1>4, SettlesTrans

-----------------------------------------------------------------------------
(* Reports.                                                                *)
LEMMA HeardFacts ==
  ASSUME NEW told \in Telling, NEW report \in ReportKinds
  PROVE  /\ Heard(told, report) \in Telling
         /\ Heard(told, report).ends =
              IF report \in {"FILLED", "CANCELLED", "REJECTED"} THEN told.ends + 1 ELSE told.ends
         /\ Heard(told, report).amendRejects =
              IF report = "AmendReject" THEN told.amendRejects + 1 ELSE told.amendRejects
<1>1. /\ told.ends \in Nat /\ told.filled \in Nat /\ told.amendRejects \in Nat
      /\ told.acked \in BOOLEAN /\ told.asFilled \in BOOLEAN
      /\ told = [acked |-> told.acked, filled |-> told.filled, ends |-> told.ends,
                 asFilled |-> told.asFilled, amendRejects |-> told.amendRejects]
  BY DEF Telling
<1>2. CASE report = "NEW"
  BY <1>1, <1>2 DEF Heard, Telling
<1>3. CASE report = "PARTIALLY_FILLED"
  BY <1>1, <1>3 DEF Heard, Telling
<1>4. CASE report = "FILLED"
  <2>1. Heard(told, report) = [acked |-> told.acked, filled |-> told.filled + 1,
                               ends |-> told.ends + 1, asFilled |-> TRUE,
                               amendRejects |-> told.amendRejects]
    BY <1>1, <1>4 DEF Heard
  <2>2. Heard(told, report) \in Telling
    BY <1>1, <2>1 DEF Telling
  <2>3. /\ Heard(told, report).ends = told.ends + 1
        /\ Heard(told, report).amendRejects = told.amendRejects
    BY <2>1
  <2> QED
    BY <1>4, <2>2, <2>3
<1>5. CASE report \in {"CANCELLED", "REJECTED"}
  BY <1>1, <1>5 DEF Heard, Telling
<1>6. CASE report = "AmendReject"
  <2>1. Heard(told, report) = [acked |-> told.acked, filled |-> told.filled, ends |-> told.ends,
                               asFilled |-> told.asFilled, amendRejects |-> told.amendRejects + 1]
    BY <1>1, <1>6 DEF Heard
  <2>2. Heard(told, report) \in Telling
    BY <1>1, <2>1 DEF Telling
  <2>3. /\ Heard(told, report).ends = told.ends
        /\ Heard(told, report).amendRejects = told.amendRejects + 1
    BY <2>1
  <2> QED
    BY <1>6, <2>2, <2>3
<1>7. CASE report = "CancelReject"
  BY <1>1, <1>7 DEF Heard, Telling
<1> QED
  BY <1>2, <1>3, <1>4, <1>5, <1>6, <1>7 DEF ReportKinds

LEMMA ReportFacts ==
  ASSUME NEW s, NEW X, Fit(s, X), NEW client \in Clients \cup {NoClient}, NEW report \in ReportKinds
  PROVE  /\ Good(Report(s, client, report))
         /\ Report(s, client, report).clientToCloid = s.clientToCloid
         /\ Report(s, client, report).cloidToClient = s.cloidToClient
         /\ Report(s, client, report).cloidToState = s.cloidToState
         /\ Report(s, client, report).oidToCloid = s.oidToCloid
         /\ Report(s, client, report).told \in [Clients -> Telling]
         /\ \A c \in Clients : Report(s, client, report).told[c] =
              IF c = client THEN Heard(s.told[c], report) ELSE s.told[c]
<1> DEFINE t == Report(s, client, report)
<1>1. Good(t)
  BY ReportShrinks, ShrinksGood, FitGood
<1>2. /\ t.clientToCloid = s.clientToCloid /\ t.cloidToClient = s.cloidToClient
      /\ t.cloidToState = s.cloidToState /\ t.oidToCloid = s.oidToCloid
      /\ t.told = IF client = NoClient THEN s.told
                  ELSE [s.told EXCEPT ![client] = Heard(@, report)]
  BY DEF Report, Fit, Good, Fields
<1>3. s.told \in [Clients -> Telling]
  BY DEF Fit, MapsTyped
<1> HIDE DEF t
<1>4. \A c \in Clients : t.told[c] = IF c = client THEN Heard(s.told[c], report) ELSE s.told[c]
  BY <1>2, <1>3
<1>5. t.told \in [Clients -> Telling]
  BY <1>2, <1>3, HeardFacts
<1>6. /\ Good(t)
      /\ t.clientToCloid = s.clientToCloid /\ t.cloidToClient = s.cloidToClient
      /\ t.cloidToState = s.cloidToState /\ t.oidToCloid = s.oidToCloid
      /\ t.told \in [Clients -> Telling]
      /\ \A c \in Clients : t.told[c] = IF c = client THEN Heard(s.told[c], report) ELSE s.told[c]
  BY <1>1, <1>2, <1>4, <1>5
<1> QED
  BY <1>6 DEF t

LEMMA ReportFit ==
  ASSUME NEW s, NEW X, Fit(s, X), NEW client \in Clients \cup {NoClient}, NEW report \in ReportKinds
  PROVE  Fit(Report(s, client, report), X)
BY ReportFacts DEF Fit, MapsTyped, Known

(* A report that ends nothing, ...                                         *)
LEMMA NewsSettles ==
  ASSUME NEW s, NEW X, Fit(s, X), NEW client \in Clients \cup {NoClient},
         NEW report \in {"NEW", "PARTIALLY_FILLED", "AmendReject", "CancelReject"}
  PROVE  Settles(s, Report(s, client, report), X)
<1>t. PICK t : t = Report(s, client, report)
  OBVIOUS
<1>0. report \in ReportKinds /\ s.told \in [Clients -> Telling]
  BY DEF ReportKinds, Fit, MapsTyped
<1>1. /\ Fit(t, X)
      /\ t.clientToCloid = s.clientToCloid /\ t.cloidToState = s.cloidToState
      /\ \A c \in Clients : t.told[c] = IF c = client THEN Heard(s.told[c], report) ELSE s.told[c]
  BY <1>t, <1>0, ReportFacts, ReportFit
<1>2. \A c \in Clients : t.told[c].ends = s.told[c].ends
  BY <1>0, <1>1, HeardFacts
<1> QED
  BY <1>t, <1>1, <1>2 DEF Settles, EndsOnceIn, IsIoc

LEMMA LookedUp ==
  ASSUME NEW s, NEW X, Fit(s, X), NEW cloid
  PROVE  /\ LookupClientOrderId(s, cloid) \in Clients \cup {NoClient}
         /\ LookupClientOrderId(s, cloid) # NoClient =>
              /\ cloid \in DOMAIN s.cloidToClient /\ cloid \in Cloids
              /\ LookupClientOrderId(s, cloid) \in DOMAIN s.clientToCloid
              /\ LookupClientOrderId(s, cloid) \in Clients
              /\ s.clientToCloid[LookupClientOrderId(s, cloid)] = cloid
<1>1. CASE cloid \in DOMAIN s.cloidToClient
  <2>c. PICK client : client = s.cloidToClient[cloid]
    OBVIOUS
  <2>1. LookupClientOrderId(s, cloid) = client
    BY <1>1, <2>c DEF LookupClientOrderId
  <2>2. cloid \in Cloids /\ client \in Clients
    BY <1>1, <2>c DEF Fit, MapsTyped, IsMap
  <2>3. client \in DOMAIN s.clientToCloid /\ s.clientToCloid[client] = cloid
    BY <1>1, <2>c DEF Fit, Good, Paired
  <2>4. /\ client \in Clients \cup {NoClient}
        /\ cloid \in DOMAIN s.cloidToClient /\ cloid \in Cloids
        /\ client \in DOMAIN s.clientToCloid /\ client \in Clients
        /\ s.clientToCloid[client] = cloid
    BY <1>1, <2>2, <2>3
  <2> QED
    BY <2>1, <2>4
<1>2. CASE cloid \notin DOMAIN s.cloidToClient
  BY <1>2 DEF LookupClientOrderId
<1> QED
  BY <1>1, <1>2

(* ... one of an IOC order, ...                                            *)
LEMMA IocReportSettles ==
  ASSUME NEW s, NEW X, Fit(s, X), NEW cloid, NEW client,
         client = LookupClientOrderId(s, cloid), IsIoc(s, cloid), NEW report \in ReportKinds
  PROVE  Settles(s, Report(s, client, report), X)
<1>t. PICK t : t = Report(s, client, report)
  OBVIOUS
<1>0. client \in Clients \cup {NoClient}
  BY LookedUp
<1>1. /\ Fit(t, X)
      /\ t.clientToCloid = s.clientToCloid /\ t.cloidToState = s.cloidToState
      /\ \A c \in Clients : t.told[c] = IF c = client THEN Heard(s.told[c], report) ELSE s.told[c]
  BY <1>t, <1>0, ReportFacts, ReportFit
<1>2. ASSUME NEW c \in Clients
      PROVE  EndsOnceIn(s, t, X, c)
  <2>1. CASE c # client
    BY <1>1, <2>1 DEF EndsOnceIn
  <2>2. CASE c = client
    BY <2>2, LookedUp DEF EndsOnceIn
  <2> QED
    BY <2>1, <2>2
<1> QED
  BY <1>t, <1>1, <1>2 DEF Settles, IsIoc

(* removeOrder.                                                            *)
LEMMA RemoveFacts ==
  ASSUME NEW s, NEW X, Fit(s, X), NEW cloids
  PROVE  /\ Fit(RemoveOrders(s, cloids), X)
         /\ RemoveOrders(s, cloids).told = s.told
         /\ \A c \in DOMAIN RemoveOrders(s, cloids).clientToCloid :
              /\ c \in DOMAIN s.clientToCloid
              /\ RemoveOrders(s, cloids).clientToCloid[c] = s.clientToCloid[c]
         /\ \A x \in cloids \cap DOMAIN s.cloidToClient :
              s.cloidToClient[x] \notin DOMAIN RemoveOrders(s, cloids).clientToCloid
         /\ \A x : IsIoc(RemoveOrders(s, cloids), x) => IsIoc(s, x)
<1> DEFINE t == RemoveOrders(s, cloids)
           clients == {s.cloidToClient[x] : x \in cloids \cap DOMAIN s.cloidToClient}
           oids == {oid \in DOMAIN s.oidToCloid : s.oidToCloid[oid] \in cloids}
<1>1. Good(t)
  BY RemoveOrdersShrinks, ShrinksGood, FitGood
<1>2. /\ t.told = s.told
      /\ t.clientToCloid = Erase(s.clientToCloid, clients)
      /\ t.cloidToClient = Erase(s.cloidToClient, cloids)
      /\ t.cloidToState = Erase(s.cloidToState, cloids)
      /\ t.oidToCloid = Erase(s.oidToCloid, oids)
  <2>f. PICK f : f = ForgetExchangeIds(s, cloids)
    OBVIOUS
  <2>1. /\ DOMAIN f = Fields
        /\ f.told = s.told /\ f.clientToCloid = s.clientToCloid
        /\ f.cloidToClient = s.cloidToClient
        /\ f.cloidToState = Erase(s.cloidToState, cloids)
        /\ f.oidToCloid = Erase(s.oidToCloid, oids)
    BY <2>f DEF ForgetExchangeIds, Fit, Good, Fields
  <2>2. t = [f EXCEPT !.clientToCloid = Erase(@, clients), !.cloidToClient = Erase(@, cloids)]
    BY <2>f DEF RemoveOrders
  <2> HIDE DEF t, clients, oids
  <2> QED
    BY <2>1, <2>2 DEF Fields
<1>3. /\ DOMAIN t.clientToCloid = DOMAIN s.clientToCloid \ clients
      /\ \A c \in DOMAIN t.clientToCloid : t.clientToCloid[c] = s.clientToCloid[c]
      /\ DOMAIN t.cloidToClient = DOMAIN s.cloidToClient \ cloids
      /\ \A x \in DOMAIN t.cloidToClient : t.cloidToClient[x] = s.cloidToClient[x]
      /\ DOMAIN t.cloidToState = DOMAIN s.cloidToState \ cloids
      /\ \A x \in DOMAIN t.cloidToState : t.cloidToState[x] = s.cloidToState[x]
      /\ DOMAIN t.oidToCloid = DOMAIN s.oidToCloid \ oids
      /\ \A oid \in DOMAIN t.oidToCloid : t.oidToCloid[oid] = s.oidToCloid[oid]
  <2> HIDE DEF t, clients, oids
  <2> QED
    BY <1>2 DEF Erase
<1>4. \A x \in cloids \cap DOMAIN s.cloidToClient : s.cloidToClient[x] \in clients
  OBVIOUS
<1> HIDE DEF t, clients, oids
<1>5. MapsTyped(t) /\ Known(t, X)
  BY <1>2, <1>3 DEF MapsTyped, IsMap, Known, Fit
<1>6. \A x : IsIoc(t, x) => IsIoc(s, x)
  BY <1>3 DEF IsIoc
<1>7. /\ Fit(t, X) /\ t.told = s.told
      /\ \A c \in DOMAIN t.clientToCloid :
           c \in DOMAIN s.clientToCloid /\ t.clientToCloid[c] = s.clientToCloid[c]
      /\ \A x \in cloids \cap DOMAIN s.cloidToClient : s.cloidToClient[x] \notin DOMAIN t.clientToCloid
      /\ \A x : IsIoc(t, x) => IsIoc(s, x)
  BY <1>1, <1>2, <1>3, <1>4, <1>5, <1>6 DEF Fit
<1> QED
  BY <1>7 DEF t

LEMMA RemoveSettles ==
  ASSUME NEW s, NEW X, Fit(s, X), NEW cloid
  PROVE  Settles(s, RemoveOrder(s, cloid), X)
<1>t. PICK t : t = RemoveOrders(s, {cloid})
  OBVIOUS
<1>1. /\ Fit(t, X) /\ t.told = s.told
      /\ \A c \in DOMAIN t.clientToCloid :
           c \in DOMAIN s.clientToCloid /\ t.clientToCloid[c] = s.clientToCloid[c]
      /\ \A x : IsIoc(t, x) => IsIoc(s, x)
  BY <1>t, RemoveFacts
<1> QED
  BY <1>t, <1>1 DEF Settles, EndsOnceIn, RemoveOrder

(* ... and one after which the order is forgotten.                         *)
LEMMA EndSettles ==
  ASSUME NEW s, NEW X, Fit(s, X), NEW cloid, NEW client,
         client = LookupClientOrderId(s, cloid), NEW report \in ReportKinds,
         client # NoClient => cloid \in X
  PROVE  Settles(s, RemoveOrder(Report(s, client, report), cloid), X)
<1>a. PICK a : a = Report(s, client, report)
  OBVIOUS
<1>t. PICK t : t = RemoveOrders(a, {cloid})
  OBVIOUS
<1>0. client \in Clients \cup {NoClient} /\ s.told \in [Clients -> Telling]
  BY LookedUp DEF Fit, MapsTyped
<1>1. /\ Fit(a, X)
      /\ a.clientToCloid = s.clientToCloid /\ a.cloidToState = s.cloidToState
      /\ a.cloidToClient = s.cloidToClient
      /\ \A c \in Clients : a.told[c] = IF c = client THEN Heard(s.told[c], report) ELSE s.told[c]
  BY <1>a, <1>0, ReportFacts, ReportFit
<1>2. /\ Fit(t, X) /\ t.told = a.told
      /\ \A c \in DOMAIN t.clientToCloid :
           c \in DOMAIN a.clientToCloid /\ t.clientToCloid[c] = a.clientToCloid[c]
      /\ cloid \in DOMAIN a.cloidToClient => a.cloidToClient[cloid] \notin DOMAIN t.clientToCloid
      /\ \A x : IsIoc(t, x) => IsIoc(a, x)
  BY <1>t, <1>1, RemoveFacts
<1>3. ASSUME NEW c \in Clients
      PROVE  EndsOnceIn(s, t, X, c)
  <2>1. CASE c # client
    BY <1>1, <1>2, <2>1 DEF EndsOnceIn
  <2>2. CASE c = client
    <3>1. /\ c \in DOMAIN s.clientToCloid /\ s.clientToCloid[c] = cloid /\ cloid \in X
          /\ cloid \in DOMAIN s.cloidToClient /\ s.cloidToClient[cloid] = c
      BY <2>2, LookedUp DEF LookupClientOrderId
    <3>2. c \notin DOMAIN t.clientToCloid
      BY <1>1, <1>2, <3>1
    <3>3. t.told[c].ends = s.told[c].ends \/ t.told[c].ends = s.told[c].ends + 1
      BY <1>0, <1>1, <1>2, <2>2, HeardFacts
    <3> QED
      BY <3>1, <3>2, <3>3 DEF EndsOnceIn
  <2> QED
    BY <2>1, <2>2
<1>4. Settles(s, t, X)
  BY <1>1, <1>2, <1>3 DEF Settles, IsIoc
<1> QED
  BY <1>a, <1>t, <1>4 DEF RemoveOrder

-----------------------------------------------------------------------------
(* The callbacks.                                                          *)
LEMMA ReportKnownSettles ==
  ASSUME NEW s, NEW X, Fit(s, X), NEW cloid, NEW report \in {"NEW", "AmendReject"}
  PROVE  Settles(s, ReportKnown(s, LookupClientOrderId(s, cloid), report), X)
<1>1. LookupClientOrderId(s, cloid) \in Clients \cup {NoClient}
  BY LookedUp
<1> QED
  BY <1>1, NewsSettles, SettlesSelf DEF ReportKnown

LEMMA CheckTimeoutsSettles ==
  ASSUME NEW s, NEW X, Fit(s, X), NEW n, NEW late \in SUBSET SweptOrders(s)
  PROVE  Settles(s, CheckTimeouts(s, n, late), X)
<1> DEFINE swept == late \cap DOMAIN s.cloidToClient
           clients == {s.cloidToClient[cloid] : cloid \in swept}
           a == [s EXCEPT
                   !.bufferedFills = SubSeq(@, n + 1, Len(@)),
                   !.told = [c \in Clients |-> IF c \in clients THEN Heard(@[c], "CANCELLED")
                                                                ELSE @[c]]]
           t == RemoveOrders(a, swept)
<1>0. s.told \in [Clients -> Telling] /\ "CANCELLED" \in ReportKinds
  BY DEF Fit, MapsTyped, ReportKinds
<1>1. /\ DOMAIN a = Fields
      /\ a.clientToCloid = s.clientToCloid /\ a.cloidToClient = s.cloidToClient
      /\ a.cloidToState = s.cloidToState /\ a.oidToCloid = s.oidToCloid
      /\ a.told = [c \in Clients |-> IF c \in clients THEN Heard(s.told[c], "CANCELLED")
                                                      ELSE s.told[c]]
  BY DEF Fit, Good, Fields
<1>2. CheckTimeouts(s, n, late) = t
  BY DEF CheckTimeouts
<1>3. \A x \in swept : IsIoc(s, x) /\ x \in DOMAIN s.cloidToClient
  BY DEF SweptOrders, IsIoc
<1>4. \A c \in clients : \E x \in swept : c = s.cloidToClient[x]
  OBVIOUS
<1>p. PICK A : A = a
  OBVIOUS
<1>q. PICK T : T = RemoveOrders(A, swept)
  OBVIOUS
<1> HIDE DEF a, t, clients, swept
<1>5. Fit(A, X)
  <2>1. A.told \in [Clients -> Telling]
    BY <1>0, <1>1, <1>p, HeardFacts
  <2> QED
    BY <1>1, <1>p, <2>1 DEF Fit, Good, Paired, MapsTyped, Known
<1>6. /\ Fit(T, X) /\ T.told = A.told
      /\ \A c \in DOMAIN T.clientToCloid :
           c \in DOMAIN A.clientToCloid /\ T.clientToCloid[c] = A.clientToCloid[c]
      /\ \A x : IsIoc(T, x) => IsIoc(A, x)
  BY <1>5, <1>q, RemoveFacts
<1>7. \A x : IsIoc(A, x) <=> IsIoc(s, x)
  BY <1>1, <1>p DEF IsIoc
<1>8. ASSUME NEW c \in Clients
      PROVE  EndsOnceIn(s, T, X, c)
  <2>1. CASE c \notin clients
    BY <1>1, <1>6, <1>p, <2>1 DEF EndsOnceIn
  <2>2. CASE c \in clients
    <3>1. PICK x \in swept : c = s.cloidToClient[x]
      BY <1>4, <2>2
    <3>2. IsIoc(s, x) /\ x \in DOMAIN s.cloidToClient
      BY <1>3, <3>1
    <3>3. c \in DOMAIN s.clientToCloid /\ s.clientToCloid[c] = x
      BY <3>1, <3>2 DEF Fit, Good, Paired
    <3> QED
      BY <3>2, <3>3 DEF EndsOnceIn
  <2> QED
    BY <2>1, <2>2
<1>9. Settles(s, T, X)
  BY <1>1, <1>6, <1>7, <1>8, <1>p DEF Settles
<1> QED
  BY <1>2, <1>9, <1>p, <1>q DEF t

LEMMA EmitFillSettles ==
  ASSUME NEW s, NEW X, Fit(s, X), NEW cloid,
         LookupClientOrderId(s, cloid) # NoClient => cloid \in X
  PROVE  Settles(s, EmitFill(s, LookupClientOrderId(s, cloid), cloid), X)
<1>c. PICK client : client = LookupClientOrderId(s, cloid)
  OBVIOUS
<1>t. PICK t : t = ApplyFill(s, cloid, 1)
  OBVIOUS
<1>u. PICK u : u = EmitFill(s, client, cloid)
  OBVIOUS
<1>1. Settles(s, t, X) /\ Fit(t, X)
  BY <1>t, ApplyFillSettles, SettlesFit
<1>2. t.cloidToClient = s.cloidToClient /\ cloid \in DOMAIN t.cloidToState
  BY <1>t DEF ApplyFill, SetState, Put, Fit, Good, Fields
<1>3. client = LookupClientOrderId(t, cloid)
  BY <1>2, <1>c DEF LookupClientOrderId
<1>4. client \in Clients \cup {NoClient} /\ "FILLED" \in ReportKinds
  BY <1>c, LookedUp DEF ReportKinds
<1>5. \/ u = Report(t, client, "PARTIALLY_FILLED")
      \/ u = Report(t, client, "FILLED") /\ StateOf(t, cloid).isIoc
      \/ u = RemoveOrder(Report(t, client, "FILLED"), cloid)
  BY <1>t, <1>u DEF EmitFill
<1>6. Settles(t, u, X)
  <2>1. CASE u = Report(t, client, "PARTIALLY_FILLED")
    BY <1>1, <1>4, <2>1, NewsSettles
  <2>2. CASE u = Report(t, client, "FILLED") /\ StateOf(t, cloid).isIoc
    <3>1. IsIoc(t, cloid)
      BY <1>1, <2>2, StateOfIoc
    <3> QED
      BY <1>1, <1>3, <1>4, <2>2, <3>1, IocReportSettles
  <2>3. CASE u = RemoveOrder(Report(t, client, "FILLED"), cloid)
    BY <1>1, <1>3, <1>4, <1>c, <2>3, EndSettles
  <2> QED
    BY <1>5, <2>1, <2>2, <2>3
<1>7. Settles(s, u, X)
  BY <1>1, <1>6, SettlesTrans
<1> QED
  BY <1>7, <1>c, <1>u

(* An oid leads to an order of X, or to none.                              *)
LEMMA ByOid ==
  ASSUME NEW s, NEW X, Fit(s, X), NEW oid
  PROVE  LookupClientOrderId(s, LookupCloidByOid(s, oid)) # NoClient =>
           LookupCloidByOid(s, oid) \in X
<1>1. NoCloid \notin Cloids
  BY DEF NoCloid
<1> QED
  BY <1>1, LookedUp DEF LookupCloidByOid, Fit, Known

LEMMA OnUserFillSettles ==
  ASSUME NEW s, NEW X, Fit(s, X), NEW fill
  PROVE  Settles(s, OnUserFill(s, fill), X)
<1>1. Good(BufferFill(s, fill))
  BY FitGood, OtherField, ShrinksGood DEF BufferFill, Good, Fields
<1>2. Settles(s, BufferFill(s, fill), X)
  BY <1>1, Unsaid DEF BufferFill, Fit, Good, Fields
<1>3. Settles(s, EmitFill(s, LookupClientOrderIdByOid(s, fill.oid), LookupCloidByOid(s, fill.oid)), X)
  BY ByOid, EmitFillSettles DEF LookupClientOrderIdByOid
<1> QED
  BY <1>2, <1>3 DEF OnUserFill

LEMMA TakeBufferedSettles ==
  ASSUME NEW s, NEW X, Fit(s, X), NEW oid
  PROVE  Settles(s, TakeBuffered(s, oid), X)
<1>1. Good(TakeBuffered(s, oid))
  BY FitGood, TakeBufferedShrinks, ShrinksGood
<1> QED
  BY <1>1, Unsaid DEF TakeBuffered, Fit, Good, Fields

LEMMA OnOpenSettles ==
  ASSUME NEW s, NEW X, Fit(s, X), NEW u, u.cloid \in X
  PROVE  Settles(s, OnOpen(s, u), X)
<1>a. PICK a : a = SetActiveOid(s, u.oid, u.cloid)
  OBVIOUS
<1>b. PICK b : b = InitOrderState(a, u.cloid, u.origSz)
  OBVIOUS
<1>1. Settles(s, a, X) /\ Fit(a, X)
  BY <1>a, SetActiveOidSettles, SettlesFit
<1>2. Settles(a, b, X) /\ Fit(b, X)
  BY <1>1, <1>b, InitOrderStateSettles, SettlesFit
<1>3. Settles(b, ReportKnown(b, LookupClientOrderId(b, u.cloid), "NEW"), X)
  BY <1>2, ReportKnownSettles
<1>4. OnOpen(s, u) = ReportKnown(b, LookupClientOrderId(b, u.cloid), "NEW")
  BY <1>a, <1>b DEF OnOpen
<1> QED
  BY <1>1, <1>2, <1>3, <1>4, SettlesTrans

LEMMA OnFilledSettles ==
  ASSUME NEW s, NEW X, Fit(s, X), NEW u, u.cloid \in X
  PROVE  Settles(s, OnFilled(s, u), X)
<1>1. \/ OnFilled(s, u) = RemoveOrder(s, u.cloid)
      \/ OnFilled(s, u) =
           RemoveOrder(Report(s, LookupClientOrderId(s, u.cloid), "CANCELLED"), u.cloid)
  BY DEF OnFilled, ReportKnown
<1>2. "CANCELLED" \in ReportKinds
  BY DEF ReportKinds
<1> QED
  BY <1>1, <1>2, RemoveSettles, EndSettles

LEMMA OnEndedSettles ==
  ASSUME NEW s, NEW X, Fit(s, X), NEW u, u.cloid \in X
  PROVE  Settles(s, OnEnded(s, u), X)
<1>1. \/ OnEnded(s, u) = s
      \/ OnEnded(s, u) =
           RemoveOrder(Report(s, LookupClientOrderId(s, u.cloid), "CANCELLED"), u.cloid)
      \/ OnEnded(s, u) =
           RemoveOrder(Report(s, LookupClientOrderId(s, u.cloid), "REJECTED"), u.cloid)
  BY DEF OnEnded
<1>2. "CANCELLED" \in ReportKinds /\ "REJECTED" \in ReportKinds
  BY DEF ReportKinds
<1> QED
  BY <1>1, <1>2, SettlesSelf, EndSettles

LEMMA OnOrderUpdateSettles ==
  ASSUME NEW s, NEW X, Fit(s, X), NEW u, u.cloid \in X
  PROVE  Settles(s, OnOrderUpdate(s, u), X)
<1>t. PICK t : t = RegisterOid(s, u.oid, u.cloid)
  OBVIOUS
<1>1. Settles(s, t, X) /\ Fit(t, X)
  BY <1>t, RegisterOidSettles, SettlesFit
<1>2. OnOrderUpdate(s, u) \in {OnOpen(t, u), t, OnFilled(t, u), OnEnded(t, u)}
  BY <1>t DEF OnOrderUpdate
<1>3. Settles(t, OnOrderUpdate(s, u), X)
  BY <1>1, <1>2, OnOpenSettles, OnFilledSettles, OnEndedSettles, SettlesSelf
<1> QED
  BY <1>1, <1>3, SettlesTrans

(* A response, to a request about an order of X or one that is not pending *)
(* any more.                                                               *)
LEMMA ResponseSettles ==
  ASSUME NEW s, NEW X, Fit(s, X), NEW result, NEW cloid
  PROVE  /\ cloid \in X \cup {NoCloid} => Settles(s, OnPlaceOrder(s, result, cloid), X)
         /\ Settles(s, OnModifyOrder(s, result, cloid), X)
         /\ Settles(s, OnCancelOrder(s, result, cloid), X)
<1>1. ASSUME cloid \in X \cup {NoCloid}
      PROVE  Settles(s, OnPlaceOrder(s, result, cloid), X)
  <2>1. "REJECTED" \in ReportKinds /\ NoCloid \notin Cloids
    BY DEF ReportKinds, NoCloid
  <2>2. LookupClientOrderId(s, cloid) # NoClient => cloid \in X
    BY <1>1, <2>1, LookedUp
  <2>3. Settles(s, SendNewOrderReject(s, cloid), X)
    BY <2>1, <2>2, EndSettles DEF SendNewOrderReject
  <2> QED
    BY <2>3, SettlesSelf DEF OnPlaceOrder
<1>2. Settles(s, OnModifyOrder(s, result, cloid), X)
  BY ReportKnownSettles, SettlesSelf DEF OnModifyOrder, SendAmendReject
<1>3. Settles(s, OnCancelOrder(s, result, cloid), X)
  <2>1. LookupClientOrderId(s, cloid) \in Clients \cup {NoClient}
    BY LookedUp
  <2>2. Settles(s, SendCancelReject(s, cloid), X)
    BY <2>1, NewsSettles DEF SendCancelReject
  <2> QED
    BY <2>2, SettlesSelf DEF OnCancelOrder
<1> QED
  BY <1>1, <1>2, <1>3

-----------------------------------------------------------------------------
(* What a step of callbacks leaves of the invariant, if no ghost is sent.  *)
GatewayInv == MapsTyped(gw) /\ GhostInv /\ EndInv /\ IocInv /\ CloidInv

LEMMA IInvFit ==
  ASSUME IInv
  PROVE  Fit(gw, Sent) /\ nextCloid \in Nat
<1>1. ASSUME NEW oid \in DOMAIN gw.oidToCloid
      PROVE  gw.oidToCloid[oid] \in Sent
  <2>1. gw.oidToCloid[oid] \in Cloids
    BY DEF IInv, CloidInv, Known
  <2> QED
    BY <2>1 DEF Sent, Ghost
<1> QED
  BY <1>1 DEF IInv, MapsInv, Fit, Known

LEMMA GatewayKept ==
  ASSUME IInv, Settles(gw, gw', Sent),
         UNCHANGED <<nextCloid, seen, cloidOf, iocAsked>>,
         main' = main \/ main' = NoHandler,
         \A x \in Cloids : Ghost(x) => NeverSent(x)' \/ (Placing(x) /\ main' = NoHandler)
  PROVE  GatewayInv'
<1>0. /\ Fit(gw, Sent) /\ Fit(gw', Sent) /\ nextCloid \in Nat
      /\ \A x : IsIoc(gw', x) => IsIoc(gw, x)
      /\ \A c \in DOMAIN gw'.clientToCloid :
           c \in DOMAIN gw.clientToCloid /\ gw'.clientToCloid[c] = gw.clientToCloid[c]
      /\ \A c \in Clients : EndsOnceIn(gw, gw', Sent, c)
  BY IInvFit DEF Settles
<1>1. main' # main => main'.at = "idle"
  BY DEF NoHandler
<1>2. \A c \in DOMAIN gw.clientToCloid :
        c \in Clients /\ seen[c] = "entered" /\ gw.clientToCloid[c] = cloidOf[c]
  BY DEF IInv, MapsTyped, IsMap, MapsInv, CloidInv
<1>3. \A c \in Entered : cloidOf[c] \in Cloids /\ cloidOf[c] < nextCloid /\ cloidOf[c] \in Nat
  BY DEF IInv, CloidInv
<1>4. main.at # "idle" => main.client \in Entered /\ main.cloid = cloidOf[main.client]
  BY DEF IInv, CloidInv
<1>5. Entered' = Entered
  BY DEF Entered
<1>6. \A x \in Cloids : Ghost(x) /\ NeverSent(x)' => Ghost(x)'
  BY <1>0 DEF Ghost, Fit, Known, Sent
<1>7. MapsTyped(gw)'
  BY <1>0 DEF Fit
<1>8. CloidInv'
  <2>1. Known(gw, Cloids)'
    BY <1>0 DEF Fit, Known, Sent
  <2>2. \A c, d \in Entered : cloidOf[c] = cloidOf[d] => c = d
    BY DEF IInv, CloidInv
  <2>3. \A c \in DOMAIN gw'.clientToCloid : gw'.clientToCloid[c] = cloidOf'[c]
    BY <1>0, <1>2
  <2>4. main'.at # "idle" => main'.client \in Entered' /\ main'.cloid = cloidOf'[main'.client]
    BY <1>1, <1>4, <1>5
  <2> QED
    BY <1>3, <1>5, <2>1, <2>2, <2>3, <2>4 DEF CloidInv
<1>9. IocInv'
  <2>1. \A c \in Entered : IsIoc(gw, cloidOf[c]) => c \in iocAsked
    BY DEF IInv, IocInv
  <2>2. main.at # "idle" /\ main.ioc => main.client \in iocAsked
    BY DEF IInv, IocInv
  <2>3. \A c \in Entered' : IsIoc(gw', cloidOf'[c]) => c \in iocAsked'
    BY <1>0, <1>5, <2>1
  <2>4. main'.at # "idle" /\ main'.ioc => main'.client \in iocAsked'
    BY <1>1, <2>2
  <2> QED
    BY <2>3, <2>4 DEF IocInv
<1>10. GhostInv'
  <2>1. ASSUME NEW x \in Cloids, x >= nextCloid' \/ Placing(x)'
        PROVE  Ghost(x)'
    <3>1. Ghost(x)
      BY <1>1, <2>1 DEF IInv, GhostInv, Placing
    <3>2. ~(Placing(x) /\ main' = NoHandler)
      <4>1. SUFFICES ASSUME Placing(x), main' = NoHandler PROVE FALSE
        OBVIOUS
      <4>2. x < nextCloid /\ ~(x >= nextCloid)
        BY <1>0, <1>3, <1>4, <4>1 DEF Placing
      <4>3. main'.at = "idle"
        BY <4>1 DEF NoHandler
      <4> QED
        BY <2>1, <4>2, <4>3 DEF Placing
    <3> QED
      BY <1>6, <3>1, <3>2
  <2> QED
    BY <2>1 DEF GhostInv
<1>11. EndInv'
  <2>1. ASSUME NEW c \in Clients, seen'[c] = "no"
        PROVE  gw'.told[c].ends = 0
    <3>1. c \notin DOMAIN gw.clientToCloid /\ gw.told[c].ends = 0
      BY <1>2, <2>1 DEF IInv, EndInv
    <3> QED
      BY <1>0, <3>1 DEF EndsOnceIn
  <2>2. ASSUME NEW c \in Entered' \ iocAsked'
        PROVE  \/ gw'.told[c].ends = gw.told[c].ends
               \/ /\ gw'.told[c].ends = gw.told[c].ends + 1
                  /\ c \notin DOMAIN gw'.clientToCloid
                  /\ ~Ghost(cloidOf[c])
    <3>1. c \in Entered /\ c \in Clients /\ c \notin iocAsked
      BY <1>5, <2>2 DEF Entered
    <3>2. ~IsIoc(gw, cloidOf[c])
      BY <3>1 DEF IInv, IocInv
    <3> QED
      BY <1>0, <1>2, <3>1, <3>2 DEF EndsOnceIn, Sent
  <2>3. ASSUME NEW c \in Entered' \ iocAsked'
        PROVE  \/ gw'.told[c].ends = 0
               \/ gw'.told[c].ends = 1 /\ (c \in DOMAIN gw'.clientToCloid => Ghost(cloidOf[c])')
    <3>1. c \in Entered /\ c \notin iocAsked /\ cloidOf[c] \in Cloids
      BY <1>3, <1>5, <2>3
    <3>2. \/ gw.told[c].ends = 0
          \/ gw.told[c].ends = 1 /\ (c \in DOMAIN gw.clientToCloid => Ghost(cloidOf[c]))
      BY <3>1 DEF IInv, EndInv
    <3>3. CASE gw'.told[c].ends = gw.told[c].ends
      <4>1. CASE gw.told[c].ends = 0
        BY <3>3, <4>1
      <4>2. CASE gw.told[c].ends = 1 /\ (c \in DOMAIN gw.clientToCloid => Ghost(cloidOf[c]))
        <5>1. SUFFICES ASSUME c \in DOMAIN gw'.clientToCloid
                       PROVE  Ghost(cloidOf[c])'
          BY <3>3, <4>2
        <5>2. Ghost(cloidOf[c])
          BY <1>0, <4>2, <5>1
        <5>3. ~Placing(cloidOf[c])
          <6>1. SUFFICES ASSUME Placing(cloidOf[c]) PROVE FALSE
            OBVIOUS
          <6>2. main.client = c /\ main.at = "placing"
            BY <1>4, <3>1, <6>1 DEF Placing, IInv, CloidInv
          <6>3. gw.told[c].ends = 0
            BY <3>1, <6>2 DEF IInv, EndInv
          <6> QED
            BY <4>2, <6>3
        <5>4. NeverSent(cloidOf[c])'
          <6>1. PICK x : x = cloidOf[c]
            OBVIOUS
          <6>2. NeverSent(x)'
            BY <3>1, <5>2, <5>3, <6>1
          <6> QED
            BY <6>1, <6>2 DEF NeverSent
        <5>5. PICK x \in Cloids : x = cloidOf[c]
          BY <3>1
        <5>6. Ghost(x)'
          BY <1>6, <5>2, <5>4, <5>5 DEF NeverSent
        <5> QED
          BY <5>5, <5>6 DEF Ghost, NeverSent
      <4> QED
        BY <3>2, <4>1, <4>2
    <3>4. CASE /\ gw'.told[c].ends = gw.told[c].ends + 1
               /\ c \notin DOMAIN gw'.clientToCloid
               /\ ~Ghost(cloidOf[c])
      <4>1. c \in DOMAIN gw.clientToCloid
        BY <1>0, <3>1, <3>4 DEF EndsOnceIn, Entered, Fit, MapsTyped, Telling
      <4> QED
        BY <3>2, <3>4, <4>1
    <3> QED
      BY <2>2, <2>3, <3>3, <3>4
  <2>4. ASSUME main'.at = "placing", main'.client \notin iocAsked'
        PROVE  gw'.told[main'.client].ends = 0
    <3>1. /\ main' = main /\ main.client \in Entered /\ main.cloid = cloidOf[main.client]
          /\ main.client \notin iocAsked
      BY <1>1, <1>4, <2>4
    <3>2. gw.told[main.client].ends = 0
      BY <2>4, <3>1 DEF IInv, EndInv
    <3>3. Ghost(cloidOf[main.client])
      BY <1>3, <2>4, <3>1 DEF IInv, GhostInv, Placing
    <3> QED
      BY <1>5, <2>2, <3>1, <3>2, <3>3
  <2> QED
    BY <2>1, <2>3, <2>4 DEF EndInv
<1> QED
  BY <1>7, <1>8, <1>9, <1>10, <1>11 DEF GatewayInv


-----------------------------------------------------------------------------
(* The exchange.  It answers the next request, if it handles one, and says *)
(* something only of an order that it has heard of.                        *)
Events == Update \cup Fill

AboutSent(x) ==
  \E e \in BookEntry, events \in Seq(Events) :
    /\ book' = [book EXCEPT ![x] = e]
    /\ e.state = "live" => e.left # 0
    /\ \A i \in 1 .. Len(events) : events[i].cloid = x
    /\ Produces(events)

Answered ==
  /\ requests # <<>> /\ requests' = Tail(requests)
  /\ \E result \in {"ok", "failed", "error"} : Answers(Head(requests), result)

ExchangeMoves ==
  /\ UNCHANGED <<requests, responses>> \/ Answered
  /\ UNCHANGED <<book, stream>> \/ \E x \in Cloids : ~NeverSent(x) /\ AboutSent(x)
  /\ link' = link /\ nextOid' \in Nat

LEMMA NextRequest ==
  ASSUME IInv, requests # <<>>
  PROVE  /\ Head(requests) \in Request /\ Head(requests) = requests[1] /\ 1 \in 1 .. Len(requests)
         /\ Head(requests).kind # "cancel" => Head(requests).qty # 0
         /\ Head(requests).qty \in Nat
<1>1. requests \in Seq(Request)
  BY DEF IInv, TypesOK, ExchangeTypeOK
<1>2. Len(requests) \in Nat /\ Len(requests) # 0 /\ 1 \in 1 .. Len(requests)
  BY <1>1, EmptySeq, LenProperties
<1>3. Head(requests) = requests[1] /\ requests[1] \in Request
  BY <1>1, <1>2, ElementOfSeq
<1>4. requests[1].kind # "cancel" => requests[1].qty # 0
  BY <1>2 DEF IInv, LiveLeft
<1>5. requests[1].qty \in Nat
  <2>1. \A qty \in Quantities \cup {0} : qty \in Nat
    BY ExchangeAssumption
  <2>2. requests[1].qty \in Quantities \cup {0}
    BY <1>3 DEF Request
  <2> QED
    BY <2>1, <2>2
<1> QED
  BY <1>2, <1>3, <1>4, <1>5

LEMMA OneEvent ==
  ASSUME NEW a \in Events, NEW x, a.cloid = x
  PROVE  <<a>> \in Seq(Events) /\ \A i \in 1 .. Len(<<a>>) : <<a>>[i].cloid = x
OBVIOUS

LEMMA TwoEvents ==
  ASSUME NEW a \in Events, NEW b \in Events, NEW x, a.cloid = x, b.cloid = x
  PROVE  <<a, b>> \in Seq(Events) /\ \A i \in 1 .. Len(<<a, b>>) : <<a, b>>[i].cloid = x
<1>1. <<a, b>> \in Seq(Events) /\ Len(<<a, b>>) = 2 /\ <<a, b>>[1] = a /\ <<a, b>>[2] = b
  OBVIOUS
<1> QED
  BY <1>1

LEMMA EventsAfter ==
  ASSUME NEW s \in Seq(Events), NEW t \in Seq(Events), NEW x,
         \A i \in 1 .. Len(s) : s[i].cloid = x, \A i \in 1 .. Len(t) : t[i].cloid = x
  PROVE  s \o t \in Seq(Events) /\ \A i \in 1 .. Len(s \o t) : (s \o t)[i].cloid = x
<1>1. /\ s \o t \in Seq(Events) /\ Len(s \o t) = Len(s) + Len(t)
      /\ \A i \in 1 .. Len(s) + Len(t) : (s \o t)[i] = IF i <= Len(s) THEN s[i] ELSE t[i - Len(s)]
  BY ConcatProperties
<1>2. Len(s) \in Nat /\ Len(t) \in Nat
  BY LenProperties
<1>3. ASSUME NEW i \in 1 .. Len(s \o t)
      PROVE  (s \o t)[i].cloid = x
  <2>1. i \in 1 .. Len(s) + Len(t)
    BY <1>1
  <2>2. CASE i <= Len(s)
    BY <1>1, <1>2, <2>1, <2>2
  <2>3. CASE ~(i <= Len(s))
    <3>1. i - Len(s) \in 1 .. Len(t)
      BY <1>2, <2>1, <2>3
    <3> QED
      BY <1>1, <2>1, <2>3, <3>1
  <2> QED
    BY <2>2, <2>3
<1> QED
  BY <1>1, <1>3

LEMMA NoEvents ==
  ASSUME NEW x
  PROVE  <<>> \in Seq(Events) /\ \A i \in 1 .. Len(<<>>) : <<>>[i].cloid = x
OBVIOUS

LEMMA UpdatedIsEvent ==
  ASSUME NEW x \in Cloids, NEW oid \in Nat, NEW qty \in Nat,
         NEW status \in {"Open", "Filled", "Canceled", "Rejected"},
         NEW a, a = Updated(x, oid, status, qty)
  PROVE  a \in Events /\ a.cloid = x
BY DEF Updated, Events, Update

(* A live order is one that the exchange has heard of, ...                 *)
LEMMA LiveSent ==
  ASSUME NEW x, book[x].state = "live"
  PROVE  ~NeverSent(x)
BY DEF NeverSent

(* ... and one that it is asked to place will be.                          *)
LEMMA PlaceSent ==
  ASSUME IInv, IsNext("place")
  PROVE  Head(requests).cloid \in Cloids /\ ~NeverSent(Head(requests).cloid)
<1>1. requests # <<>> /\ Head(requests).kind = "place"
  BY DEF IsNext
<1>2. Head(requests) \in Request /\ Head(requests) = requests[1] /\ 1 \in 1 .. Len(requests)
  BY <1>1, NextRequest
<1> QED
  BY <1>1, <1>2 DEF NeverSent, Request

LEMMA EntryTypes ==
  ASSUME IInv, NEW x \in Cloids
  PROVE  /\ book \in [Cloids -> BookEntry] /\ book[x] \in BookEntry
         /\ book[x].oid \in Nat /\ book[x].left \in Nat /\ book[x].done \in Nat
         /\ book[x].filled \in Nat /\ book[x].ioc \in BOOLEAN
         /\ book[x].left + book[x].done \in Nat
         /\ book[x].state = "live" => book[x].left # 0
         /\ book[x] = [state |-> book[x].state, oid |-> book[x].oid, left |-> book[x].left,
                       done |-> book[x].done, ioc |-> book[x].ioc, filled |-> book[x].filled]
<1>1. book \in [Cloids -> BookEntry] /\ book[x] \in BookEntry
  BY DEF IInv, TypesOK, ExchangeTypeOK
<1>2. book[x].state = "live" => book[x].left # 0
  BY DEF IInv, LiveLeft
<1>3. /\ book[x].oid \in Nat /\ book[x].left \in Nat /\ book[x].done \in Nat
      /\ book[x].filled \in Nat /\ book[x].ioc \in BOOLEAN
      /\ book[x] = [state |-> book[x].state, oid |-> book[x].oid, left |-> book[x].left,
                    done |-> book[x].done, ioc |-> book[x].ioc, filled |-> book[x].filled]
  BY <1>1 DEF BookEntry
<1> QED
  BY <1>1, <1>2, <1>3

(* The entry with another state, and with a unit less to trade.            *)
LEMMA EntryEnds ==
  ASSUME IInv, NEW x \in Cloids, NEW e, e = [book[x] EXCEPT !.state = "ended"]
  PROVE  e \in BookEntry /\ e.state = "ended"
<1>1. book[x] \in BookEntry
  BY EntryTypes
<1> QED
  BY <1>1 DEF BookEntry

LEMMA EndsAbout ==
  ASSUME IInv, NEW x \in Cloids, NEW status \in {"Open", "Filled", "Canceled", "Rejected"},
         Ends(x, status)
  PROVE  AboutSent(x)
<1>e. PICK e : e = [book[x] EXCEPT !.state = "ended"]
  OBVIOUS
<1>a. PICK a : a = Updated(x, book[x].oid, status, book[x].left + book[x].done)
  OBVIOUS
<1>1. e \in BookEntry /\ e.state = "ended"
  BY <1>e, EntryEnds
<1>2. book' = [book EXCEPT ![x] = e] /\ Produces(<<a>>)
  BY <1>e, <1>a DEF Ends
<1>3. a \in Events /\ a.cloid = x
  <2>1. book[x].oid \in Nat /\ book[x].left + book[x].done \in Nat
    BY EntryTypes
  <2> QED
    BY <1>a, <2>1, UpdatedIsEvent
<1>4. <<a>> \in Seq(Events) /\ \A i \in 1 .. Len(<<a>>) : <<a>>[i].cloid = x
  BY <1>3, OneEvent
<1> QED
  BY <1>1, <1>2, <1>4 DEF AboutSent

LEMMA TradeAbout ==
  ASSUME IInv, NEW x \in Cloids, Trade(x)
  PROVE  AboutSent(x)
<1>b. PICK b : b = book[x]
  OBVIOUS
<1>1. /\ b \in BookEntry /\ b.state = "live" /\ b.left # 0
      /\ b.left \in Nat /\ b.done \in Nat /\ b.oid \in Nat /\ b.filled \in Nat
  BY <1>b, EntryTypes DEF Trade
<1>s. PICK state \in {"live", "ended"} : state = IF b.left = 1 THEN "ended" ELSE "live"
  OBVIOUS
<1>n. PICK left \in Nat, done \in Nat, filled \in Nat :
        left = b.left - 1 /\ done = b.done + 1 /\ filled = b.filled + 1
  BY <1>1
<1>e. PICK e : e = [b EXCEPT !.left = left, !.done = done, !.filled = filled, !.state = state]
  OBVIOUS
<1>2. e \in BookEntry /\ (e.state = "live" => e.left # 0)
  <2>1. e \in BookEntry /\ e.left = left /\ e.state = state
    BY <1>1, <1>e DEF BookEntry
  <2>2. state = "live" => left # 0
    BY <1>1, <1>s, <1>n
  <2> QED
    BY <2>1, <2>2
<1>3. book' = [book EXCEPT ![x] = e]
  BY <1>b, <1>s, <1>n, <1>e DEF Trade
<1>a. PICK a : a = FillOf(x, b.oid)
  OBVIOUS
<1>u. PICK u : u = Updated(x, b.oid, "Filled", b.left + b.done)
  OBVIOUS
<1>4. a \in Events /\ a.cloid = x /\ u \in Events /\ u.cloid = x
  <2>1. b.left + b.done \in Nat
    BY <1>1
  <2> QED
    BY <1>1, <1>a, <1>u, <2>1 DEF FillOf, Updated, Events, Update, Fill
<1>5. PICK rest \in {<<>>, <<u>>} : Produces(<<a>> \o rest)
  BY <1>a, <1>b, <1>u DEF Trade
<1>6. rest \in Seq(Events) /\ \A i \in 1 .. Len(rest) : rest[i].cloid = x
  <2>1. CASE rest = <<>>
    BY <2>1, NoEvents
  <2>2. CASE rest = <<u>>
    BY <1>4, <2>2, OneEvent
  <2> QED
    BY <1>5, <2>1, <2>2
<1>7. PICK events : events = <<a>> \o rest
  OBVIOUS
<1>8. events \in Seq(Events) /\ \A i \in 1 .. Len(events) : events[i].cloid = x
  BY <1>4, <1>6, <1>7, OneEvent, EventsAfter
<1> QED
  BY <1>2, <1>3, <1>5, <1>7, <1>8 DEF AboutSent

LEMMA ExchangeMovesOn ==
  ASSUME IInv, ExchangeNext
  PROVE  ExchangeMoves
<1>t. nextOid \in Nat /\ nextOid + 1 \in Nat
  BY DEF IInv, TypesOK, ExchangeTypeOK
<1>1. CASE AcceptPlace
  <2>r. PICK r : r = Head(requests)
    OBVIOUS
  <2>0. r \in Request /\ r.cloid \in Cloids /\ ~NeverSent(r.cloid) /\ r.qty # 0 /\ r.qty \in Nat
        /\ r.ioc \in BOOLEAN
    BY <1>1, <2>r, NextRequest, PlaceSent DEF AcceptPlace, IsNext, Request
  <2>e. PICK e : e = [state |-> "live", oid |-> nextOid, left |-> r.qty, done |-> 0,
                      ioc |-> r.ioc, filled |-> 0]
    OBVIOUS
  <2>a. PICK a : a = Updated(r.cloid, nextOid, "Open", r.qty)
    OBVIOUS
  <2>1. e \in BookEntry /\ e.left # 0
    BY <1>t, <2>0, <2>e DEF BookEntry
  <2>2. a \in Events /\ a.cloid = r.cloid
    BY <1>t, <2>0, <2>a DEF Updated, Events, Update
  <2>3. <<a>> \in Seq(Events) /\ \A i \in 1 .. Len(<<a>>) : <<a>>[i].cloid = r.cloid
    BY <2>2, OneEvent
  <2>4. /\ book' = [book EXCEPT ![r.cloid] = e] /\ Produces(<<a>>) /\ Answers(r, "ok")
        /\ nextOid' = nextOid + 1 /\ requests' = Tail(requests) /\ link' = link
        /\ requests # <<>>
    BY <1>1, <2>r, <2>e, <2>a DEF AcceptPlace, IsNext
  <2>5. AboutSent(r.cloid)
    BY <2>1, <2>3, <2>4 DEF AboutSent
  <2>6. Answered
    BY <2>r, <2>4 DEF Answered
  <2> QED
    BY <1>t, <2>0, <2>4, <2>5, <2>6 DEF ExchangeMoves
<1>2. CASE RejectPlace
  <2>r. PICK r : r = Head(requests)
    OBVIOUS
  <2>0. r \in Request /\ r.cloid \in Cloids /\ ~NeverSent(r.cloid) /\ r.qty \in Nat
    BY <1>2, <2>r, NextRequest, PlaceSent DEF RejectPlace, IsNext
  <2>e. PICK e : e = [book[r.cloid] EXCEPT !.state = "ended"]
    OBVIOUS
  <2>a. PICK a : a = Updated(r.cloid, nextOid, "Rejected", r.qty)
    OBVIOUS
  <2>1. e \in BookEntry /\ e.state = "ended"
    BY <2>0, <2>e, EntryEnds
  <2>2. a \in Events /\ a.cloid = r.cloid
    BY <1>t, <2>0, <2>a DEF Updated, Events, Update
  <2>3. <<a>> \in Seq(Events) /\ \A i \in 1 .. Len(<<a>>) : <<a>>[i].cloid = r.cloid
    BY <2>2, OneEvent
  <2>4. book' = [book EXCEPT ![r.cloid] = e] /\ (Produces(<<a>>) \/ Produces(<<>>))
    BY <1>2, <2>r, <2>e, <2>a DEF RejectPlace, IsNext
  <2>5. AboutSent(r.cloid)
    BY <2>1, <2>3, <2>4, NoEvents DEF AboutSent
  <2>6. Answered
    BY <1>2 DEF Answered, RejectPlace, IsNext
  <2>7. nextOid' = nextOid + 1 /\ link' = link
    BY <1>2 DEF RejectPlace
  <2> QED
    BY <1>t, <2>0, <2>5, <2>6, <2>7 DEF ExchangeMoves
<1>3. CASE AcceptModify
  <2>r. PICK r : r = Head(requests)
    OBVIOUS
  <2>0. /\ r \in Request /\ r.cloid \in Cloids /\ r.qty # 0 /\ r.qty \in Nat /\ r.ioc \in BOOLEAN
        /\ requests # <<>>
    BY <1>3, <2>r, NextRequest DEF AcceptModify, IsNext, Request
  <2>x. ~NeverSent(r.cloid)
    BY <1>3, <2>r, LiveSent DEF AcceptModify
  <2>e. PICK e : e = [book[r.cloid] EXCEPT !.oid = nextOid, !.left = r.qty, !.done = 0, !.ioc = r.ioc]
    OBVIOUS
  <2>a. PICK a : a = Updated(r.cloid, nextOid, "Open", r.qty)
    OBVIOUS
  <2>b. PICK b : b = Updated(r.cloid, book[r.cloid].oid, "Canceled",
                             book[r.cloid].left + book[r.cloid].done)
    OBVIOUS
  <2>1. e \in BookEntry /\ e.left # 0
    <3>1. book[r.cloid] \in BookEntry
      BY <2>0, EntryTypes
    <3> QED
      BY <1>t, <2>0, <2>e, <3>1 DEF BookEntry
  <2>2. a \in Events /\ a.cloid = r.cloid /\ b \in Events /\ b.cloid = r.cloid
    <3>1. book[r.cloid].oid \in Nat /\ book[r.cloid].left + book[r.cloid].done \in Nat
      BY <2>0, EntryTypes
    <3> QED
      BY <1>t, <2>0, <2>a, <2>b, <3>1 DEF Updated, Events, Update
  <2>3. <<a, b>> \in Seq(Events) /\ \A i \in 1 .. Len(<<a, b>>) : <<a, b>>[i].cloid = r.cloid
    BY <2>2, TwoEvents
  <2>4. book' = [book EXCEPT ![r.cloid] = e] /\ Produces(<<a, b>>)
    BY <1>3, <2>r, <2>e, <2>a, <2>b DEF AcceptModify
  <2>5. AboutSent(r.cloid)
    BY <2>1, <2>3, <2>4 DEF AboutSent
  <2>6. Answered
    BY <1>3 DEF Answered, AcceptModify, IsNext
  <2>7. nextOid' = nextOid + 1 /\ link' = link
    BY <1>3 DEF AcceptModify
  <2> QED
    BY <1>t, <2>0, <2>x, <2>5, <2>6, <2>7 DEF ExchangeMoves
<1>4. CASE RejectModify \/ RejectCancel
  <2>1. Answered
    BY <1>4 DEF Answered, RejectModify, RejectCancel, IsNext
  <2>2. UNCHANGED <<book, stream, link, nextOid>>
    BY <1>4 DEF RejectModify, RejectCancel
  <2> QED
    BY <1>t, <2>1, <2>2 DEF ExchangeMoves
<1>5. CASE AcceptCancel
  <2>x. PICK x : x = Head(requests).cloid
    OBVIOUS
  <2>0. x \in Cloids /\ ~NeverSent(x) /\ Ends(x, "Canceled")
    BY <1>5, <2>x, NextRequest, LiveSent DEF AcceptCancel, IsNext, Request
  <2>1. AboutSent(x)
    BY <2>0, EndsAbout
  <2>2. Answered
    BY <1>5 DEF Answered, AcceptCancel, IsNext
  <2> QED
    BY <1>t, <1>5, <2>0, <2>1, <2>2 DEF ExchangeMoves, AcceptCancel
<1>6. ASSUME NEW x \in Cloids, IocGivenUp(x) \/ ExchangeCancels(x)
      PROVE  ExchangeMoves
  <2>1. ~NeverSent(x)
    BY <1>6, LiveSent DEF IocGivenUp, ExchangeCancels
  <2>2. AboutSent(x)
    <3>1. CASE IocGivenUp(x)
      <4>1. Ends(x, "Filled") \/ Ends(x, "Rejected")
        BY <3>1 DEF IocGivenUp
      <4> QED
        BY <4>1, EndsAbout
    <3>2. CASE ExchangeCancels(x)
      BY <3>2, EndsAbout DEF ExchangeCancels
    <3> QED
      BY <1>6, <3>1, <3>2
  <2> QED
    BY <1>t, <1>6, <2>1, <2>2 DEF ExchangeMoves, IocGivenUp, ExchangeCancels
<1>7. ASSUME NEW x \in Cloids, Trade(x)
      PROVE  ExchangeMoves
  <2>1. ~NeverSent(x)
    BY <1>7, LiveSent DEF Trade
  <2>2. AboutSent(x)
    BY <1>7, TradeAbout
  <2> QED
    BY <1>t, <1>7, <2>1, <2>2 DEF ExchangeMoves, Trade
<1> QED
  BY <1>1, <1>2, <1>3, <1>4, <1>5, <1>6, <1>7 DEF ExchangeNext, HandleRequest

(* What is on its way is what was, with no more than news of y.            *)
Within(s, t) == \A i \in 1 .. Len(s) : \E j \in 1 .. Len(t) : s[i] = t[j]

LEMMA TailWithin ==
  ASSUME NEW S, NEW s \in Seq(S), s # <<>>
  PROVE  Tail(s) \in Seq(S) /\ Within(Tail(s), s)
<1>1. /\ Tail(s) \in Seq(S) /\ Len(Tail(s)) = Len(s) - 1
      /\ \A i \in 1 .. Len(Tail(s)) : Tail(s)[i] = s[i + 1]
  BY HeadTailProperties
<1>2. Len(s) \in Nat
  BY LenProperties
<1>3. ASSUME NEW i \in 1 .. Len(Tail(s))
      PROVE  \E j \in 1 .. Len(s) : Tail(s)[i] = s[j]
  <2>1. i + 1 \in 1 .. Len(s)
    BY <1>1, <1>2
  <2> QED
    BY <1>1, <2>1
<1> QED
  BY <1>1, <1>3 DEF Within

LEMMA ConcatWithin ==
  ASSUME NEW S, NEW s \in Seq(S), NEW t \in Seq(S), NEW y,
         \A i \in 1 .. Len(t) : t[i].cloid = y,
         NEW u, u = s \o t
  PROVE  /\ u \in Seq(S)
         /\ \A i \in 1 .. Len(u) : u[i].cloid = y \/ \E j \in 1 .. Len(s) : u[i] = s[j]
<1>1. /\ u \in Seq(S) /\ Len(u) = Len(s) + Len(t)
      /\ \A i \in 1 .. Len(s) + Len(t) : u[i] = IF i <= Len(s) THEN s[i] ELSE t[i - Len(s)]
  BY ConcatProperties
<1>2. Len(s) \in Nat /\ Len(t) \in Nat
  BY LenProperties
<1>3. ASSUME NEW i \in 1 .. Len(u)
      PROVE  u[i].cloid = y \/ \E j \in 1 .. Len(s) : u[i] = s[j]
  <2>1. i \in 1 .. Len(s) + Len(t)
    BY <1>1
  <2>2. CASE i <= Len(s)
    BY <1>1, <1>2, <2>1, <2>2
  <2>3. CASE ~(i <= Len(s))
    <3>1. i - Len(s) \in 1 .. Len(t)
      BY <1>2, <2>1, <2>3
    <3> QED
      BY <1>1, <2>1, <2>3, <3>1
  <2> QED
    BY <2>2, <2>3
<1> QED
  BY <1>1, <1>3

LEMMA AboutSentFacts ==
  ASSUME IInv, NEW y \in Cloids, AboutSent(y)
  PROVE  /\ book' \in [Cloids -> BookEntry] /\ stream' \in Seq(Events)
         /\ \A x \in Cloids : x # y => book'[x] = book[x]
         /\ book'[y].state = "live" => book'[y].left # 0
         /\ \A i \in 1 .. Len(stream') :
              stream'[i].cloid = y \/ \E j \in 1 .. Len(stream) : stream'[i] = stream[j]
<1>1. PICK e \in BookEntry, events \in Seq(Events) :
        /\ book' = [book EXCEPT ![y] = e]
        /\ e.state = "live" => e.left # 0
        /\ \A i \in 1 .. Len(events) : events[i].cloid = y
        /\ Produces(events)
  BY DEF AboutSent
<1>2. book \in [Cloids -> BookEntry] /\ stream \in Seq(Events)
  BY DEF IInv, TypesOK, ExchangeTypeOK, Events
<1>3. /\ book' \in [Cloids -> BookEntry]
      /\ \A x \in Cloids : x # y => book'[x] = book[x]
      /\ book'[y] = e
  BY <1>1, <1>2
<1>4. stream' = stream \/ stream' = stream \o events
  BY <1>1 DEF Produces
<1>5. /\ stream' \in Seq(Events)
      /\ \A i \in 1 .. Len(stream') :
              stream'[i].cloid = y \/ \E j \in 1 .. Len(stream) : stream'[i] = stream[j]
  <2>1. CASE stream' = stream
    BY <1>2, <2>1
  <2>2. CASE stream' = stream \o events
    BY <1>1, <1>2, <2>2, ConcatWithin
  <2> QED
    BY <1>4, <2>1, <2>2
<1> QED
  BY <1>1, <1>3, <1>5

LEMMA AnsweredFacts ==
  ASSUME IInv, UNCHANGED <<requests, responses>> \/ Answered
  PROVE  /\ requests' \in Seq(Request) /\ responses' \subseteq Response
         /\ Within(requests', requests)
         /\ \A r \in responses' : r \in responses
              \/ \E i \in 1 .. Len(requests) : r.kind = requests[i].kind /\ r.corr = requests[i].corr
<1>1. requests \in Seq(Request) /\ responses \subseteq Response
  BY DEF IInv, TypesOK, ExchangeTypeOK
<1>2. CASE UNCHANGED <<requests, responses>>
  BY <1>1, <1>2 DEF Within
<1>3. CASE Answered
  <2>1. requests # <<>> /\ requests' = Tail(requests)
    BY <1>3 DEF Answered
  <2>2. requests' \in Seq(Request) /\ Within(requests', requests)
    BY <1>1, <2>1, TailWithin
  <2>r. PICK q : q = Head(requests)
    OBVIOUS
  <2>3. q \in Request /\ q = requests[1] /\ 1 \in 1 .. Len(requests)
    BY <2>1, <2>r, NextRequest
  <2>4. PICK result \in {"ok", "failed", "error"} :
          responses' = responses \cup {[kind |-> q.kind, corr |-> q.corr, result |-> result]}
    BY <1>3, <2>r DEF Answered, Answers
  <2>n. PICK new : new = [kind |-> q.kind, corr |-> q.corr, result |-> result]
    OBVIOUS
  <2>5. new \in Response /\ new.kind = q.kind /\ new.corr = q.corr
    BY <2>3, <2>n DEF Request, Response
  <2>6. responses' = responses \cup {new}
    BY <2>4, <2>n
  <2> QED
    BY <1>1, <2>2, <2>3, <2>5, <2>6
<1> QED
  BY <1>2, <1>3

(* The exchange's step is none about an order it has never heard of.       *)
LEMMA ExchangeKeepsUnsent ==
  ASSUME IInv, ExchangeMoves, pending' = pending, NEW x \in Cloids, NeverSent(x)
  PROVE  NeverSent(x)'
<1>1. /\ requests' \in Seq(Request) /\ responses' \subseteq Response
      /\ Within(requests', requests)
      /\ \A r \in responses' : r \in responses
           \/ \E i \in 1 .. Len(requests) : r.kind = requests[i].kind /\ r.corr = requests[i].corr
  BY AnsweredFacts DEF ExchangeMoves
<1>2. /\ book'[x] = book[x]
      /\ \A i \in 1 .. Len(stream') :
           stream'[i].cloid # x \/ \E j \in 1 .. Len(stream) : stream'[i] = stream[j]
  <2>1. CASE UNCHANGED <<book, stream>>
    BY <2>1
  <2>2. ASSUME NEW y \in Cloids, ~NeverSent(y), AboutSent(y)
        PROVE  /\ book'[x] = book[x]
               /\ \A i \in 1 .. Len(stream') :
                    stream'[i].cloid # x \/ \E j \in 1 .. Len(stream) : stream'[i] = stream[j]
    <3>1. x # y
      BY <2>2
    <3> QED
      BY <2>2, <3>1, AboutSentFacts
  <2> QED
    BY <2>1, <2>2 DEF ExchangeMoves
<1>3. /\ book[x].state = "unknown"
      /\ \A i \in 1 .. Len(requests) : requests[i].kind = "place" => requests[i].cloid # x
      /\ \A i \in 1 .. Len(stream) : stream[i].cloid # x
      /\ \A r \in responses, p \in pending :
           r.kind = "place" /\ p.kind = "place" /\ p.corr = r.corr => p.cloid # x
  BY DEF NeverSent
<1>4. \A i \in 1 .. Len(requests') : requests'[i].kind = "place" => requests'[i].cloid # x
  BY <1>1, <1>3 DEF Within
<1>5. \A i \in 1 .. Len(stream') : stream'[i].cloid # x
  BY <1>2, <1>3
<1>6. ASSUME NEW r \in responses', NEW p \in pending,
             r.kind = "place", p.kind = "place", p.corr = r.corr
      PROVE  p.cloid # x
  <2>1. CASE r \in responses
    BY <1>3, <1>6, <2>1
  <2>2. ASSUME NEW i \in 1 .. Len(requests), r.kind = requests[i].kind, r.corr = requests[i].corr
        PROVE  p.cloid # x
    <3>1. p.cloid = requests[i].cloid
      BY <1>6, <2>2 DEF IInv, CorrInv
    <3> QED
      BY <1>3, <1>6, <2>2, <3>1
  <2> QED
    BY <1>1, <2>1, <2>2
<1> QED
  BY <1>2, <1>3, <1>4, <1>5, <1>6 DEF NeverSent

LEMMA ExchangeKeeps ==
  ASSUME IInv, ExchangeMoves, UNCHANGED gatewayVars
  PROVE  IInv'
<1>0. UNCHANGED <<gw, pending, nextCorr, nextCloid, main, seen, cloidOf, iocAsked>>
  BY DEF gatewayVars, history
<1>1. MapsInv'
  BY <1>0 DEF IInv, MapsInv
<1>2. /\ requests' \in Seq(Request) /\ responses' \subseteq Response
      /\ Within(requests', requests)
      /\ \A r \in responses' : r \in responses
           \/ \E i \in 1 .. Len(requests) : r.kind = requests[i].kind /\ r.corr = requests[i].corr
  BY AnsweredFacts DEF ExchangeMoves
<1>3. /\ book' \in [Cloids -> BookEntry] /\ stream' \in Seq(Events)
      /\ \A x \in Cloids : book'[x].state = "live" => book'[x].left # 0
  <2>1. CASE UNCHANGED <<book, stream>>
    BY <2>1 DEF IInv, TypesOK, ExchangeTypeOK, LiveLeft, Events
  <2>2. ASSUME NEW y \in Cloids, AboutSent(y)
        PROVE  /\ book' \in [Cloids -> BookEntry] /\ stream' \in Seq(Events)
               /\ \A x \in Cloids : book'[x].state = "live" => book'[x].left # 0
    <3>1. \A x \in Cloids : x # y => book'[x] = book[x]
      BY <2>2, AboutSentFacts
    <3>2. \A x \in Cloids : book[x].state = "live" => book[x].left # 0
      BY DEF IInv, LiveLeft
    <3> QED
      BY <2>2, <3>1, <3>2, AboutSentFacts
  <2> QED
    BY <2>1, <2>2 DEF ExchangeMoves
<1>4. TypesOK'
  <2>1. ExchangeTypeOK'
    BY <1>2, <1>3 DEF IInv, TypesOK, ExchangeTypeOK, ExchangeMoves, Events
  <2> QED
    BY <1>0, <2>1 DEF IInv, TypesOK, Handlers
<1>5. LiveLeft'
  <2>1. \A i \in 1 .. Len(requests) : requests[i].kind # "cancel" => requests[i].qty # 0
    BY DEF IInv, LiveLeft
  <2>2. \A i \in 1 .. Len(requests') : requests'[i].kind # "cancel" => requests'[i].qty # 0
    BY <1>2, <2>1 DEF Within
  <2>3. main'.at \in {"placing", "amending"} => main'.qty # 0
    BY <1>0 DEF IInv, LiveLeft
  <2> QED
    BY <1>3, <2>2, <2>3 DEF LiveLeft
<1>6. CorrInv'
  <2>1. /\ \A i \in 1 .. Len(requests) : requests[i].corr < nextCorr
        /\ \A r \in responses : r.corr < nextCorr
        /\ \A p \in pending : p.corr < nextCorr
        /\ \A i \in 1 .. Len(requests) : \A p \in pending :
             p.corr = requests[i].corr => p.kind = requests[i].kind /\ p.cloid = requests[i].cloid
    BY DEF IInv, CorrInv
  <2>2. /\ \A i \in 1 .. Len(requests') : requests'[i].corr < nextCorr
        /\ \A i \in 1 .. Len(requests') : \A p \in pending :
             p.corr = requests'[i].corr => p.kind = requests'[i].kind /\ p.cloid = requests'[i].cloid
    BY <1>2, <2>1 DEF Within
  <2>3. \A r \in responses' : r.corr < nextCorr
    BY <1>2, <2>1
  <2> QED
    BY <1>0, <2>1, <2>2, <2>3 DEF CorrInv
<1>7. GatewayInv'
  <2>1. Settles(gw, gw', Sent)
    BY <1>0, IInvFit, SettlesSelf
  <2>2. \A x \in Cloids : Ghost(x) => NeverSent(x)'
    BY <1>0, ExchangeKeepsUnsent DEF Ghost
  <2> QED
    BY <1>0, <2>1, <2>2, GatewayKept
<1> QED
  BY <1>1, <1>4, <1>5, <1>6, <1>7 DEF IInv, GatewayInv

-----------------------------------------------------------------------------
(* The websocket's thread.                                                 *)
LEMMA SubSeqWithin ==
  ASSUME NEW S, NEW s \in Seq(S), NEW m \in Nat, NEW n \in Nat, 1 <= m, n <= Len(s),
         NEW t, t = SubSeq(s, m, n)
  PROVE  t \in Seq(S) /\ \A k \in 1 .. Len(t) : \E j \in 1 .. Len(s) : t[k] = s[j]
<1>1. Len(s) \in Nat
  BY LenProperties
<1>2. \A j \in m .. n : s[j] \in S
  BY <1>1, ElementOfSeq
<1>3. /\ t \in Seq(S)
      /\ Len(t) = IF m <= n THEN n - m + 1 ELSE 0
      /\ \A j \in 1 .. n - m + 1 : t[j] = s[m + j - 1]
  BY <1>2, SubSeqProperties
<1>4. ASSUME NEW k \in 1 .. Len(t)
      PROVE  \E j \in 1 .. Len(s) : t[k] = s[j]
  <2>1. m <= n /\ k \in 1 .. n - m + 1
    BY <1>3
  <2>2. m + k - 1 \in 1 .. Len(s)
    BY <1>1, <2>1
  <2> QED
    BY <1>3, <2>1, <2>2
<1> QED
  BY <1>3, <1>4

LEMMA RemoveAtWithin ==
  ASSUME NEW S, NEW s \in Seq(S), NEW i \in 1 .. Len(s)
  PROVE  RemoveAt(s, i) \in Seq(S) /\ Within(RemoveAt(s, i), s)
<1>1. Len(s) \in Nat
  BY LenProperties
<1>t. PICK t : t = SubSeq(s, 1, i - 1)
  OBVIOUS
<1>u. PICK u : u = SubSeq(s, i + 1, Len(s))
  OBVIOUS
<1>2. t \in Seq(S) /\ \A k \in 1 .. Len(t) : \E j \in 1 .. Len(s) : t[k] = s[j]
  <2>1. i - 1 \in Nat /\ 1 \in Nat /\ i - 1 <= Len(s)
    BY <1>1
  <2> QED
    BY <1>t, <2>1, SubSeqWithin
<1>3. u \in Seq(S) /\ \A k \in 1 .. Len(u) : \E j \in 1 .. Len(s) : u[k] = s[j]
  <2>1. PICK m \in Nat, n \in Nat : m = i + 1 /\ n = Len(s) /\ 1 <= m /\ n <= Len(s)
    BY <1>1
  <2>2. u = SubSeq(s, m, n)
    BY <1>u, <2>1
  <2> QED
    BY <2>1, <2>2, SubSeqWithin
<1>v. PICK v : v = t \o u
  OBVIOUS
<1>4. /\ v \in Seq(S) /\ Len(v) = Len(t) + Len(u)
      /\ \A k \in 1 .. Len(t) + Len(u) : v[k] = IF k <= Len(t) THEN t[k] ELSE u[k - Len(t)]
  BY <1>2, <1>3, <1>v, ConcatProperties
<1>5. Len(t) \in Nat /\ Len(u) \in Nat
  BY <1>2, <1>3, LenProperties
<1>6. ASSUME NEW k \in 1 .. Len(v)
      PROVE  \E j \in 1 .. Len(s) : v[k] = s[j]
  <2>1. CASE k <= Len(t)
    <3>1. k \in 1 .. Len(t) /\ v[k] = t[k]
      BY <1>4, <1>5, <2>1
    <3> QED
      BY <1>2, <3>1
  <2>2. CASE ~(k <= Len(t))
    <3>1. k - Len(t) \in 1 .. Len(u) /\ v[k] = u[k - Len(t)]
      BY <1>4, <1>5, <2>2
    <3> QED
      BY <1>3, <3>1
  <2> QED
    BY <2>1, <2>2
<1>7. RemoveAt(s, i) = v
  BY <1>t, <1>u, <1>v DEF RemoveAt
<1> QED
  BY <1>4, <1>6, <1>7 DEF Within

(* A callback, or the link's loss: nothing is added to what is on its way. *)
WebsocketMoves ==
  /\ UNCHANGED <<nextCloid, nextCorr, main, seen, cloidOf, iocAsked, book, nextOid>>
  /\ link' \in BOOLEAN
  /\ requests' \in {requests, <<>>}
  /\ responses' \subseteq responses
  /\ pending' \subseteq pending
  /\ stream' \in Seq(Events) /\ Within(stream', stream)

LEMMA WebsocketKeeps ==
  ASSUME IInv, WebsocketMoves, MapsInv', Settles(gw, gw', Sent)
  PROVE  IInv'
<1>1. /\ UNCHANGED <<nextCloid, nextCorr, main, seen, cloidOf, iocAsked, book, nextOid>>
      /\ responses' \subseteq responses /\ pending' \subseteq pending
  BY DEF WebsocketMoves
<1>2. requests' \in Seq(Request) /\ Within(requests', requests)
  <2>1. requests \in Seq(Request) /\ <<>> \in Seq(Request) /\ Len(<<>>) = 0
    BY DEF IInv, TypesOK, ExchangeTypeOK
  <2>2. CASE requests' = requests
    BY <2>1, <2>2 DEF Within
  <2>3. CASE requests' = <<>>
    BY <2>1, <2>3 DEF Within
  <2> QED
    BY <2>2, <2>3 DEF WebsocketMoves
<1>3. TypesOK'
  <2>1. ExchangeTypeOK'
    BY <1>1, <1>2 DEF WebsocketMoves, IInv, TypesOK, ExchangeTypeOK, Events
  <2> QED
    BY <1>1, <2>1 DEF IInv, TypesOK, Handlers
<1>4. LiveLeft'
  <2>1. \A i \in 1 .. Len(requests) : requests[i].kind # "cancel" => requests[i].qty # 0
    BY DEF IInv, LiveLeft
  <2>2. \A i \in 1 .. Len(requests') : requests'[i].kind # "cancel" => requests'[i].qty # 0
    BY <1>2, <2>1 DEF Within
  <2> QED
    BY <1>1, <2>2 DEF IInv, LiveLeft
<1>5. CorrInv'
  <2>1. /\ \A i \in 1 .. Len(requests) : requests[i].corr < nextCorr
        /\ \A r \in responses : r.corr < nextCorr
        /\ \A p \in pending : p.corr < nextCorr
        /\ \A i \in 1 .. Len(requests) : \A p \in pending :
             p.corr = requests[i].corr => p.kind = requests[i].kind /\ p.cloid = requests[i].cloid
    BY DEF IInv, CorrInv
  <2>2. /\ \A i \in 1 .. Len(requests') : requests'[i].corr < nextCorr
        /\ \A i \in 1 .. Len(requests') : \A p \in pending :
             p.corr = requests'[i].corr => p.kind = requests'[i].kind /\ p.cloid = requests'[i].cloid
    BY <1>2, <2>1 DEF Within
  <2> QED
    BY <1>1, <2>1, <2>2 DEF CorrInv
<1>6. GatewayInv'
  <2>1. ASSUME NEW x \in Cloids, NeverSent(x)
        PROVE  NeverSent(x)'
    <3>1. /\ book[x].state = "unknown"
          /\ \A i \in 1 .. Len(requests) : requests[i].kind = "place" => requests[i].cloid # x
          /\ \A i \in 1 .. Len(stream) : stream[i].cloid # x
          /\ \A r \in responses, p \in pending :
               r.kind = "place" /\ p.kind = "place" /\ p.corr = r.corr => p.cloid # x
      BY <2>1 DEF NeverSent
    <3>2. \A i \in 1 .. Len(requests') : requests'[i].kind = "place" => requests'[i].cloid # x
      BY <1>2, <3>1 DEF Within
    <3>3. \A i \in 1 .. Len(stream') : stream'[i].cloid # x
      BY <3>1 DEF Within, WebsocketMoves
    <3> QED
      BY <1>1, <3>1, <3>2, <3>3 DEF NeverSent
  <2> QED
    BY <1>1, <2>1, GatewayKept DEF Ghost
<1> QED
  BY <1>3, <1>4, <1>5, <1>6 DEF IInv, GatewayInv

LEMMA CheckedSettles ==
  ASSUME IInv, NEW checked \in AfterCheckTimeouts
  PROVE  Settles(gw, checked, Sent) /\ Fit(checked, Sent)
<1>1. \E late \in SUBSET SweptOrders(gw) : \E n : checked = CheckTimeouts(gw, n, late)
  <2>1. CASE Timeouts
    BY <2>1 DEF AfterCheckTimeouts
  <2>2. CASE ~Timeouts
    <3>1. checked = CheckTimeouts(gw, 0, {}) /\ {} \in SUBSET SweptOrders(gw)
      BY <2>2 DEF AfterCheckTimeouts
    <3> QED
      BY <3>1
  <2> QED
    BY <2>1, <2>2
<1>2. Settles(gw, checked, Sent)
  BY <1>1, IInvFit, CheckTimeoutsSettles
<1> QED
  BY <1>2, SettlesFit

LEMMA StreamTypes ==
  ASSUME IInv
  PROVE  stream \in Seq(Events) /\ Within(stream, stream)
BY DEF IInv, TypesOK, ExchangeTypeOK, Events, Within

(* What is in the stream is about an order that was sent.                  *)
LEMMA StreamSent ==
  ASSUME IInv, NEW i \in 1 .. Len(stream)
  PROVE  stream[i].cloid \in Sent
<1>1. stream[i] \in Update \cup Fill
  BY StreamTypes, ElementOfSeq DEF Events
<1>2. stream[i].cloid \in Cloids
  BY <1>1 DEF Update, Fill
<1> QED
  BY <1>2 DEF Sent, Ghost, NeverSent

LEMMA Delivered ==
  ASSUME IInv, NEW i \in 1 .. Len(stream), stream' = RemoveAt(stream, i),
         UNCHANGED <<link, requests, responses, book, nextOid, pending>>, RestUnchanged
  PROVE  WebsocketMoves
<1>1. stream' \in Seq(Events) /\ Within(stream', stream)
  BY StreamTypes, RemoveAtWithin
<1>2. link \in BOOLEAN
  BY DEF IInv, TypesOK, ExchangeTypeOK
<1> QED
  BY <1>1, <1>2 DEF WebsocketMoves, RestUnchanged, history

LEMMA PendingSent ==
  ASSUME IInv, NEW r \in responses, r.kind = "place"
  PROVE  PendingCloid(r) \in Sent \cup {NoCloid}
<1>1. CASE PendingOf(r) = {}
  BY <1>1 DEF PendingCloid
<1>2. CASE PendingOf(r) # {}
  <2>p. PICK p \in PendingOf(r) : PendingCloid(r) = p.cloid
    <3>1. (CHOOSE p \in PendingOf(r) : TRUE) \in PendingOf(r)
      BY <1>2
    <3> QED
      BY <1>2, <3>1 DEF PendingCloid
  <2>1. p \in pending /\ p.kind = "place" /\ p.corr = r.corr
    BY DEF PendingOf
  <2>2. p.cloid \in Cloids
    BY <2>1 DEF IInv, TypesOK, Pendings
  <2>3. ~NeverSent(p.cloid)
    BY <2>1 DEF NeverSent
  <2> QED
    BY <2>p, <2>2, <2>3 DEF Sent, Ghost
<1> QED
  BY <1>1, <1>2

LEMMA WebsocketStepKeeps ==
  ASSUME IInv, WebsocketStep
  PROVE  IInv'
<1>0. Fit(gw, Sent) /\ MapsInv'
  BY IInvFit, WebsocketStepMaps DEF IInv
<1>1. ASSUME NEW i \in 1 .. Len(stream), OrderUpdateArrives(i)
      PROVE  IInv'
  <2>u. PICK u : u = stream[i]
    OBVIOUS
  <2>1. PICK checked \in AfterCheckTimeouts :
          gw' = OnOrderUpdate(checked, u) \/ gw' = TakeBuffered(OnOrderUpdate(checked, u), u.oid)
    BY <1>1, <2>u DEF OrderUpdateArrives
  <2>s. PICK s : s = OnOrderUpdate(checked, u)
    OBVIOUS
  <2>2. Settles(gw, s, Sent)
    BY <2>u, <2>s, CheckedSettles, StreamSent, OnOrderUpdateSettles, SettlesTrans
  <2>3. Settles(s, TakeBuffered(s, u.oid), Sent)
    BY <2>2, SettlesFit, TakeBufferedSettles
  <2>4. Settles(gw, gw', Sent)
    BY <2>1, <2>s, <2>2, <2>3, SettlesTrans
  <2>5. WebsocketMoves
    BY <1>1, Delivered DEF OrderUpdateArrives
  <2> QED
    BY <1>0, <2>4, <2>5, WebsocketKeeps
<1>2. ASSUME NEW i \in 1 .. Len(stream), UserFillArrives(i)
      PROVE  IInv'
  <2>1. PICK checked \in AfterCheckTimeouts : gw' = OnUserFill(checked, stream[i])
    BY <1>2 DEF UserFillArrives
  <2>2. Settles(gw, gw', Sent)
    BY <2>1, CheckedSettles, OnUserFillSettles, SettlesTrans
  <2>3. WebsocketMoves
    BY <1>2, Delivered DEF UserFillArrives
  <2> QED
    BY <1>0, <2>2, <2>3, WebsocketKeeps
<1>3. CASE ReplayFill
  <2>1. Settles(gw, gw', Sent)
    BY <1>0, <1>3, ByOid, EmitFillSettles DEF ReplayFill, LookupClientOrderIdByOid
  <2>2. WebsocketMoves
    <3>1. UNCHANGED <<exchangeVars, pending>> /\ RestUnchanged
      BY <1>3 DEF ReplayFill
    <3>2. link \in BOOLEAN
      BY DEF IInv, TypesOK, ExchangeTypeOK
    <3> QED
      BY <3>1, <3>2, StreamTypes DEF WebsocketMoves, RestUnchanged, history, exchangeVars
  <2> QED
    BY <1>0, <2>1, <2>2, WebsocketKeeps
<1>4. ASSUME NEW r \in responses, ResponseArrives(r)
      PROVE  IInv'
  <2>1. \/ r.kind = "place" /\ gw' = OnPlaceOrder(gw, r.result, PendingCloid(r))
        \/ gw' = OnModifyOrder(gw, r.result, PendingCloid(r))
        \/ gw' = OnCancelOrder(gw, r.result, PendingCloid(r))
    BY <1>4 DEF ResponseArrives
  <2>2. Settles(gw, gw', Sent)
    BY <1>0, <2>1, PendingSent, ResponseSettles
  <2>3. WebsocketMoves
    <3>1. /\ UNCHANGED <<link, requests, stream, book, nextOid>> /\ RestUnchanged
          /\ responses' \subseteq responses /\ pending' \subseteq pending
      BY <1>4 DEF ResponseArrives
    <3>2. link \in BOOLEAN
      BY DEF IInv, TypesOK, ExchangeTypeOK
    <3> QED
      BY <3>1, <3>2, StreamTypes DEF WebsocketMoves, RestUnchanged, history
  <2> QED
    BY <1>0, <2>2, <2>3, WebsocketKeeps
<1>5. CASE OnConnected
  <2>1. Settles(gw, gw', Sent)
    BY <1>0, <1>5, SettlesSelf DEF OnConnected
  <2>2. WebsocketMoves
    BY <1>5, StreamTypes DEF OnConnected, WebsocketMoves, RestUnchanged, history
  <2> QED
    BY <1>0, <2>1, <2>2, WebsocketKeeps
<1>6. CASE OnDisconnected
  <2>1. Settles(gw, gw', Sent)
    <3>1. gw' = [gw EXCEPT !.bufferedFills = <<>>]
      BY <1>6 DEF OnDisconnected
    <3>2. Good(gw')
      BY <1>0 DEF MapsInv
    <3> QED
      BY <1>0, <3>1, <3>2, Unsaid DEF Fit, Good, Fields
  <2>2. WebsocketMoves
    <3>1. UNCHANGED exchangeVars /\ pending' = {} /\ RestUnchanged
      BY <1>6 DEF OnDisconnected
    <3>2. link \in BOOLEAN
      BY DEF IInv, TypesOK, ExchangeTypeOK
    <3> QED
      BY <3>1, <3>2, StreamTypes DEF WebsocketMoves, RestUnchanged, history, exchangeVars
  <2> QED
    BY <1>0, <2>1, <2>2, WebsocketKeeps
<1> QED
  BY <1>1, <1>2, <1>3, <1>4, <1>5, <1>6 DEF WebsocketStep

LEMMA LinkBreaksKeeps ==
  ASSUME IInv, LinkBreaks
  PROVE  IInv'
<1>1. MapsInv'
  BY DEF LinkBreaks, history, IInv, MapsInv
<1>2. Settles(gw, gw', Sent)
  BY IInvFit, SettlesSelf DEF LinkBreaks
<1>3. stream' \in Seq(Events) /\ Within(stream', stream)
  <2>1. stream' = <<>> /\ <<>> \in Seq(Events) /\ Len(<<>>) = 0
    BY DEF LinkBreaks
  <2> QED
    BY <2>1 DEF Within
<1>4. WebsocketMoves
  BY <1>3 DEF LinkBreaks, WebsocketMoves, history
<1> QED
  BY <1>1, <1>2, <1>4, WebsocketKeeps

-----------------------------------------------------------------------------
(* The main thread.  First the steps that send nothing.                    *)
LEMMA QuietKeeps ==
  ASSUME IInv, UNCHANGED <<exchangeVars, pending, nextCorr>>,
         main' \in Handlers, main'.at \in {"placing", "amending"} => main'.qty # 0,
         cloidOf' \in [Clients -> AnyCloid], iocAsked' \subseteq Clients
  PROVE  /\ TypesOK' /\ LiveLeft' /\ CorrInv'
         /\ \A x : NeverSent(x)' <=> NeverSent(x)
<1>0. UNCHANGED <<link, requests, responses, stream, book, nextOid, pending, nextCorr>>
  BY DEF exchangeVars
<1>1. TypesOK'
  BY <1>0 DEF IInv, TypesOK, ExchangeTypeOK, Handlers
<1>2. LiveLeft'
  BY <1>0 DEF IInv, LiveLeft
<1>3. CorrInv'
  BY <1>0 DEF IInv, CorrInv
<1>4. \A x : NeverSent(x)' <=> NeverSent(x)
  BY <1>0 DEF NeverSent
<1> QED
  BY <1>1, <1>2, <1>3, <1>4

LEMMA HandlerTypes ==
  ASSUME IInv
  PROVE  /\ main \in Handlers /\ cloidOf \in [Clients -> AnyCloid] /\ iocAsked \subseteq Clients
         /\ main.at \in {"placing", "amending"} => main.qty # 0
         /\ NoHandler \in Handlers /\ NoHandler.at = "idle"
         /\ \A c \in DOMAIN gw.clientToCloid :
              c \in Clients /\ c \in Entered /\ gw.clientToCloid[c] = cloidOf[c] /\ cloidOf[c] \in Cloids
<1>1. /\ main \in Handlers /\ cloidOf \in [Clients -> AnyCloid] /\ iocAsked \subseteq Clients
      /\ main.at \in {"placing", "amending"} => main.qty # 0
  BY DEF IInv, TypesOK, LiveLeft
<1>2. NoHandler \in Handlers /\ NoHandler.at = "idle"
  BY DEF NoHandler, Handlers, AnyCloid
<1>3. \A c \in DOMAIN gw.clientToCloid :
        c \in Clients /\ c \in Entered /\ gw.clientToCloid[c] = cloidOf[c] /\ cloidOf[c] \in Cloids
  BY DEF IInv, MapsTyped, IsMap, MapsInv, CloidInv, Entered
<1> QED
  BY <1>1, <1>2, <1>3

(* A step that enters no order and tells nobody that one is over.          *)
LEMMA SilentKeeps ==
  ASSUME IInv, UNCHANGED <<exchangeVars, pending, nextCorr, nextCloid, main, seen, cloidOf, iocAsked>>,
         Settles(gw, gw', Sent), MapsInv'
  PROVE  IInv'
<1>1. TypesOK' /\ LiveLeft' /\ CorrInv' /\ \A x : NeverSent(x)' <=> NeverSent(x)
  BY HandlerTypes, QuietKeeps
<1>2. GatewayInv'
  BY <1>1, GatewayKept DEF Ghost
<1> QED
  BY <1>1, <1>2 DEF IInv, GatewayInv

(* A NewOrder that is not entered.                                         *)
LEMMA UnenteredKeeps ==
  ASSUME IInv, MapsInv', NEW c \in Clients, NEW fate \in {"ignored", "rejected"},
         seen[c] = "no", seen' = [seen EXCEPT ![c] = fate],
         UNCHANGED <<exchangeVars, pending, nextCorr, nextCloid, main, cloidOf, iocAsked>>,
         Fit(gw', Sent), \A d \in Clients : d # c => gw'.told[d] = gw.told[d],
         gw'.clientToCloid = gw.clientToCloid, gw'.cloidToState = gw.cloidToState,
         gw'.oidToCloid = gw.oidToCloid
  PROVE  IInv'
<1>1. TypesOK' /\ LiveLeft' /\ CorrInv' /\ \A x : NeverSent(x)' <=> NeverSent(x)
  BY HandlerTypes, QuietKeeps
<1>2. /\ Entered' = Entered /\ c \notin Entered
      /\ \A d \in Clients : seen'[d] = "no" => d # c /\ seen[d] = "no"
  BY DEF Entered, IInv, MapsInv
<1>3. \A x : Ghost(x)' <=> Ghost(x)
  BY <1>1 DEF Ghost
<1>4. CloidInv'
  BY <1>2 DEF IInv, CloidInv, Known
<1>5. GhostInv'
  BY <1>3 DEF IInv, GhostInv, Placing
<1>6. IocInv'
  BY <1>2 DEF IInv, IocInv, IsIoc
<1>7. EndInv'
  <2>1. \A d \in Clients : seen'[d] = "no" => gw'.told[d].ends = 0
    BY <1>2 DEF IInv, EndInv
  <2>2. ASSUME NEW d \in Entered' \ iocAsked'
        PROVE  \/ gw'.told[d].ends = 0
               \/ gw'.told[d].ends = 1 /\ (d \in DOMAIN gw'.clientToCloid => Ghost(cloidOf[d]))
    <3>1. d \in Entered \ iocAsked /\ d \in Clients /\ d # c
      BY <1>2, <2>2 DEF Entered
    <3> QED
      BY <3>1 DEF IInv, EndInv
  <2>3. \A d \in Entered : Ghost(cloidOf[d]) => Ghost(cloidOf[d])'
    <3>1. ASSUME NEW d \in Entered, Ghost(cloidOf[d])
          PROVE  Ghost(cloidOf[d])'
      <4>x. PICK x : x = cloidOf[d]
        OBVIOUS
      <4>1. Ghost(x)'
        BY <1>3, <3>1, <4>x
      <4> QED
        BY <4>x, <4>1 DEF Ghost, NeverSent
    <3> QED
      BY <3>1
  <2>4. main'.at = "placing" /\ main'.client \notin iocAsked' => gw'.told[main'.client].ends = 0
    <3>1. SUFFICES ASSUME main.at = "placing", main.client \notin iocAsked
                   PROVE  gw'.told[main.client].ends = 0
      OBVIOUS
    <3>2. main.client \in Entered /\ main.client \in Clients /\ main.client # c
      BY <1>2, <3>1 DEF IInv, CloidInv, Entered
    <3>3. gw.told[main.client].ends = 0
      BY <3>1 DEF IInv, EndInv
    <3> QED
      BY <3>2, <3>3
  <2> QED
    BY <1>2, <2>1, <2>2, <2>3, <2>4 DEF EndInv
<1> QED
  BY <1>1, <1>4, <1>5, <1>6, <1>7 DEF IInv, Fit

LEMMA EnterNewOrderKeeps ==
  ASSUME IInv, MapsInv', NEW c \in Clients, EnterNewOrder(c)
  PROVE  IInv'
<1>x. PICK x \in Cloids : x = nextCloid
  BY DEF EnterNewOrder
<1>0. PICK qty \in Quantities, ioc \in BOOLEAN :
        /\ gw' = AddOrder(gw, c, x, qty, ioc)
        /\ main' = [at |-> "placing", client |-> c, cloid |-> x, qty |-> qty, ioc |-> ioc]
        /\ iocAsked' = IF ioc THEN iocAsked \cup {c} ELSE iocAsked
  BY <1>x DEF EnterNewOrder
<1>1. /\ seen[c] = "no" /\ seen' = [seen EXCEPT ![c] = "entered"]
      /\ cloidOf' = [cloidOf EXCEPT ![c] = x] /\ nextCloid' = x + 1
      /\ UNCHANGED <<exchangeVars, pending, nextCorr>>
  BY <1>x DEF EnterNewOrder
<1>n. x \in Nat /\ nextCloid \in Nat
  BY <1>x DEF IInv, MapsInv
<1>2. /\ main'.at = "placing" /\ main'.client = c /\ main'.cloid = x /\ main'.qty = qty
      /\ main'.ioc = ioc
  BY <1>0
<1>3. /\ main' \in Handlers /\ main'.qty # 0
      /\ cloidOf' \in [Clients -> AnyCloid] /\ iocAsked' \subseteq Clients
  <2>1. qty # 0
    BY ExchangeAssumption
  <2>2. main' \in Handlers
    BY <1>0 DEF Handlers, AnyCloid
  <2> QED
    BY <1>0, <1>1, <1>2, <2>1, <2>2, HandlerTypes DEF AnyCloid
<1>4. TypesOK' /\ LiveLeft' /\ CorrInv' /\ \A y : NeverSent(y)' <=> NeverSent(y)
  BY <1>1, <1>3, QuietKeeps
<1>5. /\ Entered' = Entered \cup {c} /\ c \notin Entered
      /\ \A d \in Clients : seen'[d] = "no" => seen[d] = "no"
  BY <1>1 DEF Entered, IInv, MapsInv
<1>6. /\ gw'.clientToCloid = Put(gw.clientToCloid, c, x)
      /\ gw'.cloidToClient = Put(gw.cloidToClient, x, c)
      /\ gw'.cloidToState = Put(gw.cloidToState, x, [StateOf(gw, x) EXCEPT !.requestedQty = qty,
                                                       !.isIoc = ioc, !.stamped = TRUE])
      /\ gw'.told = gw.told /\ gw'.oidToCloid = gw.oidToCloid
  BY <1>0 DEF AddOrder, IInv, MapsInv, Good, Fields
<1>7. /\ DOMAIN gw'.clientToCloid = DOMAIN gw.clientToCloid \cup {c}
      /\ gw'.clientToCloid[c] = x
      /\ \A d \in DOMAIN gw.clientToCloid : d # c => gw'.clientToCloid[d] = gw.clientToCloid[d]
      /\ DOMAIN gw'.cloidToClient = DOMAIN gw.cloidToClient \cup {x}
      /\ gw'.cloidToClient[x] = c
      /\ \A y \in DOMAIN gw.cloidToClient : y # x => gw'.cloidToClient[y] = gw.cloidToClient[y]
  BY <1>6 DEF Put
<1>8. /\ "isIoc" \in DOMAIN gw'.cloidToState[x]
      /\ gw'.cloidToState[x].isIoc = ioc
      /\ DOMAIN gw'.cloidToState = DOMAIN gw.cloidToState \cup {x}
      /\ \A y \in DOMAIN gw.cloidToState : y # x => gw'.cloidToState[y] = gw.cloidToState[y]
  <2>1. "isIoc" \in DOMAIN StateOf(gw, x)
    BY IInvFit, StateOfIoc
  <2> QED
    BY <1>6, <2>1 DEF Put
<1>9. \A d \in Entered : d # c /\ cloidOf'[d] = cloidOf[d] /\ cloidOf[d] \in Cloids
                         /\ cloidOf[d] < x /\ cloidOf[d] # x
  <2>1. \A d \in Entered : d # c /\ d \in Clients /\ cloidOf[d] \in Cloids /\ cloidOf[d] < x
    BY <1>5, <1>x DEF Entered, IInv, CloidInv
  <2>2. \A y \in Cloids : y < x => y # x
    BY <1>n
  <2> QED
    BY <1>1, <2>1, <2>2, HandlerTypes
<1>10. cloidOf'[c] = x
  BY <1>1, HandlerTypes
<1>11. \A y : Ghost(y)' <=> Ghost(y)
  BY <1>4, <1>6 DEF Ghost
<1>12. MapsTyped(gw)'
  <2>1. IsMap(gw'.clientToCloid, Clients, Cloids)
    BY <1>7 DEF IInv, MapsTyped, IsMap
  <2>2. IsMap(gw'.cloidToClient, Cloids, Clients)
    BY <1>7 DEF IInv, MapsTyped, IsMap
  <2>3. \A y \in DOMAIN gw'.cloidToState : "isIoc" \in DOMAIN gw'.cloidToState[y]
    BY <1>8 DEF IInv, MapsTyped
  <2>4. gw'.told \in [Clients -> Telling]
    BY <1>6 DEF IInv, MapsTyped
  <2> QED
    BY <2>1, <2>2, <2>3, <2>4 DEF MapsTyped
<1>13. CloidInv'
  <2>1. Known(gw, Cloids)'
    BY <1>6 DEF IInv, CloidInv, Known
  <2>2. \A d \in DOMAIN gw'.clientToCloid : gw'.clientToCloid[d] = cloidOf'[d]
    BY <1>7, <1>9, <1>10, HandlerTypes
  <2>3. \A d \in Entered' : cloidOf'[d] \in Cloids /\ cloidOf'[d] < nextCloid'
    <3>1. \A y \in Cloids : y < x => y < x + 1
      BY <1>n, ExchangeAssumption
    <3>2. x < x + 1
      BY <1>n
    <3> QED
      BY <1>1, <1>5, <1>9, <1>10, <3>1, <3>2
  <2>4. \A d, e \in Entered' : cloidOf'[d] = cloidOf'[e] => d = e
    <3>1. \A d, e \in Entered : cloidOf[d] = cloidOf[e] => d = e
      BY DEF IInv, CloidInv
    <3> QED
      BY <1>5, <1>9, <1>10, <3>1
  <2>5. main'.client \in Entered' /\ main'.cloid = cloidOf'[main'.client]
    BY <1>2, <1>5, <1>10
  <2> QED
    BY <2>1, <2>2, <2>3, <2>4, <2>5 DEF CloidInv
<1>14. IocInv'
  <2>1. ASSUME NEW d \in Entered', IsIoc(gw', cloidOf'[d])
        PROVE  d \in iocAsked'
    <3>1. CASE d = c
      BY <1>0, <1>8, <1>10, <2>1, <3>1 DEF IsIoc
    <3>2. CASE d # c
      <4>1. d \in Entered /\ IsIoc(gw, cloidOf[d])
        BY <1>5, <1>8, <1>9, <2>1, <3>2 DEF IsIoc
      <4>2. d \in iocAsked
        BY <4>1 DEF IInv, IocInv
      <4> QED
        BY <1>0, <4>2
    <3> QED
      BY <3>1, <3>2
  <2>2. main'.ioc => main'.client \in iocAsked'
    BY <1>0, <1>2
  <2> QED
    BY <2>1, <2>2 DEF IocInv
<1>15. GhostInv'
  <2>1. ASSUME NEW y \in Cloids, y >= nextCloid' \/ Placing(y)'
        PROVE  Ghost(y)'
    <3>1. y >= nextCloid
      <4>1. y \in Nat
        BY ExchangeAssumption
      <4>2. y >= x + 1 \/ y = x
        BY <1>1, <1>2, <2>1 DEF Placing
      <4> QED
        BY <1>n, <1>x, <4>1, <4>2
    <3>2. Ghost(y)
      BY <3>1 DEF IInv, GhostInv
    <3> QED
      BY <1>11, <3>2
  <2> QED
    BY <2>1 DEF GhostInv
<1>16. EndInv'
  <2>0. gw.told[c].ends = 0
    BY <1>1 DEF IInv, EndInv
  <2>1. \A d \in Clients : seen'[d] = "no" => gw'.told[d].ends = 0
    BY <1>5, <1>6 DEF IInv, EndInv
  <2>2. ASSUME NEW d \in Entered' \ iocAsked'
        PROVE  \/ gw'.told[d].ends = 0
               \/ gw'.told[d].ends = 1 /\ (d \in DOMAIN gw'.clientToCloid => Ghost(cloidOf[d])')
    <3>1. CASE d = c
      BY <1>6, <2>0, <3>1
    <3>2. CASE d # c
      <4>1. d \in Entered \ iocAsked
        BY <1>0, <1>5, <2>2, <3>2
      <4>2. \/ gw.told[d].ends = 0
            \/ gw.told[d].ends = 1 /\ (d \in DOMAIN gw.clientToCloid => Ghost(cloidOf[d]))
        BY <4>1 DEF IInv, EndInv
      <4>3. Ghost(cloidOf[d]) => Ghost(cloidOf[d])'
        <5>y. PICK y : y = cloidOf[d] /\ y = cloidOf'[d]
          BY <1>9, <4>1
        <5>1. Ghost(cloidOf[d]) => Ghost(y)'
          BY <1>11, <5>y
        <5>2. Ghost(y)' => Ghost(cloidOf[d])'
          BY <5>y DEF Ghost, NeverSent
        <5> QED
          BY <5>1, <5>2
      <4> QED
        BY <1>6, <1>7, <3>2, <4>2, <4>3
    <3> QED
      BY <3>1, <3>2
  <2>3. gw'.told[main'.client].ends = 0
    BY <1>2, <1>6, <2>0
  <2> QED
    BY <2>1, <2>2, <2>3 DEF EndInv
<1> QED
  BY <1>4, <1>12, <1>13, <1>14, <1>15, <1>16 DEF IInv

(* onAmendOrder and onCancelOrder find the order in the maps.              *)
LEMMA FindKeeps ==
  ASSUME IInv, MapsInv', NEW c \in DOMAIN gw.clientToCloid,
         UNCHANGED <<exchangeVars, gw, pending, nextCorr, nextCloid, seen, cloidOf>>,
         main = NoHandler, main' \in Handlers,
         main'.at \in {"amending", "cancelling"}, main'.at = "amending" => main'.qty # 0,
         main'.client = c, main'.cloid = gw.clientToCloid[c],
         iocAsked' \subseteq Clients, iocAsked \subseteq iocAsked',
         main'.ioc => c \in iocAsked'
  PROVE  IInv'
<1>0. c \in Clients /\ c \in Entered /\ gw.clientToCloid[c] = cloidOf[c]
  BY HandlerTypes
<1>1. TypesOK' /\ LiveLeft' /\ CorrInv' /\ \A x : NeverSent(x)' <=> NeverSent(x)
  BY HandlerTypes, QuietKeeps
<1>2. Entered' = Entered /\ \A x : Ghost(x)' <=> Ghost(x)
  BY <1>1 DEF Entered, Ghost
<1>3. MapsTyped(gw)'
  BY DEF IInv
<1>4. CloidInv'
  BY <1>0, <1>2 DEF IInv, CloidInv, Known
<1>5. IocInv'
  BY <1>2 DEF IInv, IocInv
<1>6. GhostInv'
  BY <1>2 DEF IInv, GhostInv, Placing
<1>7. EndInv'
  <2>1. \A d \in Clients : seen[d] = "no" => gw.told[d].ends = 0
    BY DEF IInv, EndInv
  <2>2. ASSUME NEW d \in Entered \ iocAsked'
        PROVE  \/ gw.told[d].ends = 0
               \/ gw.told[d].ends = 1 /\ (d \in DOMAIN gw.clientToCloid => Ghost(cloidOf[d])')
    <3>1. \/ gw.told[d].ends = 0
          \/ gw.told[d].ends = 1 /\ (d \in DOMAIN gw.clientToCloid => Ghost(cloidOf[d]))
      BY DEF IInv, EndInv
    <3>2. Ghost(cloidOf[d]) => Ghost(cloidOf[d])'
      <4>x. PICK x : x = cloidOf[d] /\ x = cloidOf'[d]
        OBVIOUS
      <4>1. Ghost(cloidOf[d]) => Ghost(x)'
        BY <1>2, <4>x
      <4>2. Ghost(x)' => Ghost(cloidOf[d])'
        BY <4>x DEF Ghost, NeverSent
      <4> QED
        BY <4>1, <4>2
    <3> QED
      BY <3>1, <3>2
  <2> QED
    BY <1>2, <2>1, <2>2 DEF EndInv
<1> QED
  BY <1>1, <1>3, <1>4, <1>5, <1>6, <1>7 DEF IInv

LEMMA MainFindsKeep ==
  ASSUME IInv, MapsInv', NEW c \in Clients, FindAmended(c) \/ FindCancelled(c)
  PROVE  IInv'
<1>0. /\ c \in DOMAIN gw.clientToCloid /\ main = NoHandler
      /\ UNCHANGED <<exchangeVars, gw, pending, nextCorr, nextCloid, seen, cloidOf>>
  BY DEF FindAmended, FindCancelled, MayCancel
<1>x. PICK x \in Cloids : x = gw.clientToCloid[c]
  BY <1>0, HandlerTypes
<1>1. CASE FindAmended(c)
  <2>1. PICK qty \in Quantities, ioc \in BOOLEAN :
          /\ main' = [at |-> "amending", client |-> c, cloid |-> x, qty |-> qty, ioc |-> ioc]
          /\ iocAsked' = IF ioc THEN iocAsked \cup {c} ELSE iocAsked
    BY <1>1, <1>x DEF FindAmended
  <2>2. main' \in Handlers
    BY <2>1 DEF Handlers, AnyCloid
  <2>3. main'.qty # 0
    BY <2>1, ExchangeAssumption
  <2>4. iocAsked' \subseteq Clients /\ iocAsked \subseteq iocAsked' /\ (main'.ioc => c \in iocAsked')
    BY <2>1, HandlerTypes
  <2>5. main'.at = "amending" /\ main'.client = c /\ main'.cloid = gw.clientToCloid[c]
    BY <1>x, <2>1
  <2> QED
    BY <1>0, <2>2, <2>3, <2>4, <2>5, FindKeeps
<1>2. CASE FindCancelled(c)
  <2>1. /\ main' = [at |-> "cancelling", client |-> c, cloid |-> x, qty |-> 0, ioc |-> FALSE]
        /\ iocAsked' = iocAsked
    BY <1>2, <1>x DEF FindCancelled, MayCancel
  <2>2. main' \in Handlers
    BY <2>1 DEF Handlers, AnyCloid
  <2>3. iocAsked' \subseteq Clients /\ ~main'.ioc
    BY <2>1, HandlerTypes
  <2>4. main'.at = "cancelling" /\ main'.client = c /\ main'.cloid = gw.clientToCloid[c]
    BY <1>x, <2>1
  <2> QED
    BY <1>0, <2>1, <2>2, <2>3, <2>4, FindKeeps
<1> QED
  BY <1>1, <1>2

(* The step that ends a handler, and may send its request.                 *)
Sends(kind) ==
  /\ \/ Track(kind) /\ (Post(kind) \/ UNCHANGED requests)
     \/ UNCHANGED <<pending, nextCorr, requests>>
  /\ kind = "place" /\ ~UNCHANGED requests => main.at = "placing"
  /\ kind # "cancel" => main.at \in {"placing", "amending"}
  /\ HandlerDone

LEMMA SendKeeps ==
  ASSUME IInv, main.at # "idle", NEW kind \in {"place", "modify", "cancel"}, Sends(kind)
  PROVE  /\ TypesOK' /\ LiveLeft' /\ CorrInv'
         /\ UNCHANGED <<nextCloid, seen, cloidOf, iocAsked>> /\ main' = NoHandler
         /\ \A x \in Cloids : NeverSent(x) =>
              NeverSent(x)' \/ (kind = "place" /\ Placing(x) /\ ~UNCHANGED requests)
<1>0. /\ UNCHANGED <<link, responses, stream, book, nextOid, nextCloid, seen, cloidOf, iocAsked>>
      /\ main' = NoHandler
  BY DEF Sends, HandlerDone, history
<1>x. PICK x \in Cloids : x = main.cloid
  BY DEF IInv, CloidInv
<1>p. PICK p : p = [kind |-> kind, corr |-> nextCorr, cloid |-> x]
  OBVIOUS
<1>q. PICK q : q = [kind |-> kind, corr |-> nextCorr, cloid |-> x, qty |-> main.qty, ioc |-> main.ioc]
  OBVIOUS
<1>1. /\ requests \in Seq(Request) /\ responses \subseteq Response
      /\ pending \subseteq Pendings /\ nextCorr \in Nat /\ main \in Handlers
      /\ cloidOf \in [Clients -> AnyCloid] /\ iocAsked \subseteq Clients
  BY DEF IInv, TypesOK, ExchangeTypeOK
<1>2. p \in Pendings /\ p.kind = kind /\ p.corr = nextCorr /\ p.cloid = x
  BY <1>1, <1>p DEF Pendings
<1>3. /\ q \in Request /\ q.kind = kind /\ q.corr = nextCorr /\ q.cloid = x
      /\ q.kind # "cancel" => q.qty # 0
  <2>1. main.qty \in Quantities \cup {0} /\ main.ioc \in BOOLEAN
    BY <1>1 DEF Handlers
  <2>2. kind # "cancel" => main.qty # 0
    BY DEF Sends, IInv, LiveLeft
  <2> QED
    BY <1>1, <1>q, <2>1, <2>2 DEF Request
<1>4. \/ /\ pending' = pending \cup {p} /\ nextCorr' = nextCorr + 1
         /\ requests' = requests \/ requests' = Append(requests, q)
      \/ UNCHANGED <<pending, nextCorr, requests>>
  BY <1>x, <1>p, <1>q DEF Sends, Track, Post
<1>5. /\ requests' \in Seq(Request)
      /\ \A i \in 1 .. Len(requests') :
           \/ \E j \in 1 .. Len(requests) : requests'[i] = requests[j]
           \/ requests'[i] = q /\ requests' # requests /\ pending' = pending \cup {p}
  <2>1. CASE requests' = requests
    BY <1>1, <2>1
  <2>2. CASE requests' = Append(requests, q) /\ requests' # requests /\ pending' = pending \cup {p}
    <3>1. /\ requests' \in Seq(Request) /\ Len(requests') = Len(requests) + 1
          /\ \A i \in 1 .. Len(requests) : requests'[i] = requests[i]
          /\ requests'[Len(requests) + 1] = q
      BY <1>1, <1>3, <2>2, AppendProperties
    <3>2. Len(requests) \in Nat
      BY <1>1, LenProperties
    <3>3. \A i \in 1 .. Len(requests') : i \in 1 .. Len(requests) \/ i = Len(requests) + 1
      BY <3>1, <3>2
    <3> QED
      BY <2>2, <3>1, <3>3
  <2> QED
    BY <1>4, <2>1, <2>2
<1>6. TypesOK'
  <2>1. ExchangeTypeOK'
    BY <1>0, <1>5 DEF IInv, TypesOK, ExchangeTypeOK
  <2>2. pending' \subseteq Pendings /\ nextCorr' \in Nat
    BY <1>1, <1>2, <1>4
  <2> QED
    BY <1>0, <1>1, <2>1, <2>2, HandlerTypes DEF TypesOK, Handlers
<1>7. LiveLeft'
  <2>1. \A i \in 1 .. Len(requests) : requests[i].kind # "cancel" => requests[i].qty # 0
    BY DEF IInv, LiveLeft
  <2>2. \A i \in 1 .. Len(requests') : requests'[i].kind # "cancel" => requests'[i].qty # 0
    BY <1>3, <1>5, <2>1
  <2>3. main'.at = "idle"
    BY <1>0, HandlerTypes
  <2> QED
    BY <1>0, <2>2, <2>3 DEF IInv, LiveLeft
<1>8. /\ \A i \in 1 .. Len(requests) : requests[i].corr < nextCorr /\ requests[i].corr \in Nat
      /\ \A r \in responses : r.corr < nextCorr /\ r.corr \in Nat
      /\ \A d \in pending : d.corr < nextCorr /\ d.corr \in Nat
      /\ \A i \in 1 .. Len(requests) : \A d \in pending :
           d.corr = requests[i].corr => d.kind = requests[i].kind /\ d.cloid = requests[i].cloid
  <2>0. \A i \in 1 .. Len(requests) : requests[i] \in Request
    BY <1>1, ElementOfSeq
  <2>1. \A i \in 1 .. Len(requests) : requests[i].corr \in Nat
    BY <2>0 DEF Request
  <2>2. \A r \in responses : r.corr \in Nat
    BY <1>1 DEF Response
  <2>3. \A d \in pending : d.corr \in Nat
    BY <1>1 DEF Pendings
  <2> QED
    BY <2>1, <2>2, <2>3 DEF IInv, CorrInv
<1>9. CorrInv'
  <2>0. nextCorr' = nextCorr \/ (nextCorr' = nextCorr + 1 /\ pending' = pending \cup {p})
    BY <1>4
  <2>1. CASE UNCHANGED <<pending, nextCorr, requests>>
    BY <1>0, <1>8, <2>1 DEF CorrInv
  <2>2. CASE pending' = pending \cup {p} /\ nextCorr' = nextCorr + 1
    <3>1. \A i \in 1 .. Len(requests') : requests'[i].corr < nextCorr'
      <4>1. nextCorr < nextCorr' /\ \A n \in Nat : n < nextCorr => n < nextCorr'
        BY <1>1, <2>2
      <4>2. \A i \in 1 .. Len(requests) : requests[i].corr < nextCorr'
        BY <1>8, <4>1
      <4> QED
        BY <1>3, <1>5, <4>1, <4>2
    <3>2. \A r \in responses' : r.corr < nextCorr'
      BY <1>0, <1>1, <1>8, <2>2
    <3>3. \A d \in pending' : d.corr < nextCorr'
      BY <1>1, <1>2, <1>8, <2>2
    <3>4. ASSUME NEW i \in 1 .. Len(requests'), NEW d \in pending', d.corr = requests'[i].corr
          PROVE  d.kind = requests'[i].kind /\ d.cloid = requests'[i].cloid
      <4>1. CASE d \in pending /\ requests'[i] # q
        BY <1>5, <1>8, <3>4, <4>1
      <4>2. CASE d \in pending /\ requests'[i] = q
        BY <1>1, <1>3, <1>8, <3>4, <4>2
      <4>3. CASE d = p /\ requests'[i] # q
        BY <1>1, <1>2, <1>5, <1>8, <3>4, <4>3
      <4>4. CASE d = p /\ requests'[i] = q
        BY <1>2, <1>3, <4>4
      <4> QED
        BY <2>2, <4>1, <4>2, <4>3, <4>4
    <3> QED
      BY <3>1, <3>2, <3>3, <3>4 DEF CorrInv
  <2> QED
    BY <1>4, <2>1, <2>2
<1>10. ASSUME NEW y \in Cloids, NeverSent(y), ~(kind = "place" /\ Placing(y) /\ ~UNCHANGED requests)
       PROVE  NeverSent(y)'
  <2>1. /\ book[y].state = "unknown"
        /\ \A i \in 1 .. Len(requests) : requests[i].kind = "place" => requests[i].cloid # y
        /\ \A i \in 1 .. Len(stream) : stream[i].cloid # y
        /\ \A r \in responses, d \in pending :
             r.kind = "place" /\ d.kind = "place" /\ d.corr = r.corr => d.cloid # y
    BY <1>10 DEF NeverSent
  <2>2. \A i \in 1 .. Len(requests') : requests'[i].kind = "place" => requests'[i].cloid # y
    <3>1. ASSUME requests' # requests, kind = "place"
          PROVE  x # y
      BY <1>10, <1>x, <3>1 DEF Sends, Placing
    <3> QED
      BY <1>3, <1>5, <2>1, <3>1
  <2>3. \A r \in responses, d \in pending' :
          r.kind = "place" /\ d.kind = "place" /\ d.corr = r.corr => d.cloid # y
    <3>1. \A r \in responses : p.corr # r.corr
      BY <1>1, <1>2, <1>8
    <3> QED
      BY <1>4, <2>1, <3>1
  <2> QED
    BY <1>0, <2>1, <2>2, <2>3 DEF NeverSent
<1> QED
  BY <1>0, <1>6, <1>7, <1>9, <1>10

(* An amend may make an order IOC, one that was asked to be.               *)
LEMMA ModifyOrderKeeps ==
  ASSUME IInv, MapsInv', ModifyOrder
  PROVE  IInv'
<1>1. main.at = "amending" /\ Sends("modify")
  BY DEF ModifyOrder, Sends
<1>2. /\ TypesOK' /\ LiveLeft' /\ CorrInv'
      /\ UNCHANGED <<nextCloid, seen, cloidOf, iocAsked>> /\ main' = NoHandler
      /\ \A x \in Cloids : NeverSent(x) => NeverSent(x)'
  BY <1>1, SendKeeps
<1>3. PICK state : /\ gw' = SetState(gw, main.cloid, state)
                   /\ "isIoc" \in DOMAIN state /\ state.isIoc = main.ioc
  <2>1. "isIoc" \in DOMAIN StateOf(gw, main.cloid)
    BY IInvFit, StateOfIoc
  <2>s. PICK state : state = [StateOf(gw, main.cloid) EXCEPT !.requestedQty = main.qty,
                                !.isIoc = main.ioc, !.stamped = TRUE]
    OBVIOUS
  <2>2. "isIoc" \in DOMAIN state /\ state.isIoc = main.ioc
    BY <2>1, <2>s
  <2>3. gw' = SetState(gw, main.cloid, state)
    BY <2>s DEF ModifyOrder, EnterAmend
  <2> QED
    BY <2>2, <2>3
<1>4. /\ gw'.clientToCloid = gw.clientToCloid /\ gw'.cloidToClient = gw.cloidToClient
      /\ gw'.told = gw.told /\ gw'.oidToCloid = gw.oidToCloid
      /\ gw'.cloidToState = Put(gw.cloidToState, main.cloid, state)
  BY <1>3 DEF SetState, IInv, MapsInv, Good, Fields
<1>5. /\ DOMAIN gw'.cloidToState = DOMAIN gw.cloidToState \cup {main.cloid}
      /\ gw'.cloidToState[main.cloid] = state
      /\ \A y \in DOMAIN gw.cloidToState : y # main.cloid => gw'.cloidToState[y] = gw.cloidToState[y]
  BY <1>4 DEF Put
<1>6. \A x \in Cloids : Ghost(x) => Ghost(x)'
  BY <1>2, <1>4 DEF Ghost
<1>7. Entered' = Entered /\ main'.at = "idle"
  BY <1>2, HandlerTypes DEF Entered
<1>8. MapsTyped(gw)'
  BY <1>3, <1>4, <1>5 DEF IInv, MapsTyped
<1>9. CloidInv'
  BY <1>2, <1>4, <1>7 DEF IInv, CloidInv, Known
<1>10. GhostInv'
  BY <1>2, <1>6, <1>7 DEF IInv, GhostInv, Placing
<1>11. IocInv'
  <2>1. ASSUME NEW c \in Entered, IsIoc(gw', cloidOf[c])
        PROVE  c \in iocAsked
    <3>1. CASE cloidOf[c] = main.cloid
      <4>1. main.client \in Entered /\ cloidOf[main.client] = cloidOf[c]
        BY <1>1, <3>1 DEF IInv, CloidInv
      <4>2. c = main.client
        BY <4>1 DEF IInv, CloidInv
      <4>3. main.ioc
        BY <1>3, <1>5, <2>1, <3>1 DEF IsIoc
      <4> QED
        BY <1>1, <4>2, <4>3 DEF IInv, IocInv
    <3>2. CASE cloidOf[c] # main.cloid
      <4>1. IsIoc(gw, cloidOf[c])
        BY <1>5, <2>1, <3>2 DEF IsIoc
      <4> QED
        BY <4>1 DEF IInv, IocInv
    <3> QED
      BY <3>1, <3>2
  <2> QED
    BY <1>2, <1>7, <2>1 DEF IocInv
<1>12. EndInv'
  <2>1. \A c \in Clients : seen'[c] = "no" => gw'.told[c].ends = 0
    BY <1>2, <1>4 DEF IInv, EndInv
  <2>2. ASSUME NEW c \in Entered \ iocAsked
        PROVE  \/ gw'.told[c].ends = 0
               \/ gw'.told[c].ends = 1 /\ (c \in DOMAIN gw'.clientToCloid => Ghost(cloidOf[c])')
    <3>1. \/ gw.told[c].ends = 0
          \/ gw.told[c].ends = 1 /\ (c \in DOMAIN gw.clientToCloid => Ghost(cloidOf[c]))
      BY DEF IInv, EndInv
    <3>2. Ghost(cloidOf[c]) => Ghost(cloidOf[c])'
      <4>x. PICK x \in Cloids : x = cloidOf[c] /\ x = cloidOf'[c]
        BY <1>2 DEF IInv, CloidInv
      <4>1. Ghost(cloidOf[c]) => Ghost(x)'
        BY <1>6, <4>x
      <4>2. Ghost(x)' => Ghost(cloidOf[c])'
        BY <4>x DEF Ghost, NeverSent
      <4> QED
        BY <4>1, <4>2
    <3> QED
      BY <1>4, <3>1, <3>2
  <2> QED
    BY <1>2, <1>7, <2>1, <2>2 DEF EndInv
<1> QED
  BY <1>2, <1>8, <1>9, <1>10, <1>11, <1>12 DEF IInv

(* placeOrder throws: the order is reported over, and is a ghost.          *)
LEMMA PlaceOrderThrowsKeeps ==
  ASSUME IInv, MapsInv', PlaceOrderThrows
  PROVE  IInv'
<1>1. main.at = "placing" /\ Sends("place") /\ UNCHANGED requests
  BY DEF PlaceOrderThrows, Sends
<1>2. /\ TypesOK' /\ LiveLeft' /\ CorrInv'
      /\ UNCHANGED <<nextCloid, seen, cloidOf, iocAsked>> /\ main' = NoHandler
      /\ \A x \in Cloids : NeverSent(x) => NeverSent(x)'
  BY <1>1, SendKeeps
<1>3. /\ main.client \in Entered /\ main.client \in Clients
      /\ main.cloid = cloidOf[main.client] /\ main.cloid \in Cloids
  BY <1>1 DEF IInv, CloidInv, Entered
<1>4. "REJECTED" \in ReportKinds /\ gw.told \in [Clients -> Telling]
  BY DEF ReportKinds, IInv, MapsTyped
<1>5. /\ Fit(gw', Sent)
      /\ gw'.clientToCloid = gw.clientToCloid
      /\ gw'.cloidToState = gw.cloidToState /\ gw'.oidToCloid = gw.oidToCloid
      /\ \A c \in Clients : gw'.told[c] =
           IF c = main.client THEN Heard(gw.told[c], "REJECTED") ELSE gw.told[c]
  <2>1. gw' = Report(gw, main.client, "REJECTED") /\ Fit(gw, Sent)
    BY IInvFit DEF PlaceOrderThrows
  <2> QED
    BY <1>3, <1>4, <2>1, ReportFacts, ReportFit
<1>6. \A x \in Cloids : Ghost(x) => Ghost(x)'
  BY <1>2, <1>5 DEF Ghost
<1>7. Entered' = Entered /\ main'.at = "idle"
  BY <1>2, HandlerTypes DEF Entered
<1>8. CloidInv'
  BY <1>2, <1>5, <1>7 DEF IInv, CloidInv, Known
<1>9. GhostInv'
  BY <1>2, <1>6, <1>7 DEF IInv, GhostInv, Placing
<1>10. IocInv'
  BY <1>2, <1>5, <1>7 DEF IInv, IocInv, IsIoc
<1>11. EndInv'
  <2>1. ASSUME NEW c \in Clients, seen'[c] = "no"
        PROVE  gw'.told[c].ends = 0
    BY <1>2, <1>3, <1>5, <2>1 DEF IInv, EndInv, Entered
  <2>2. ASSUME NEW c \in Entered \ iocAsked
        PROVE  \/ gw'.told[c].ends = 0
               \/ gw'.told[c].ends = 1 /\ (c \in DOMAIN gw'.clientToCloid => Ghost(cloidOf[c])')
    <3>1. c \in Clients
      BY DEF Entered
    <3>2. Ghost(cloidOf[c]) => Ghost(cloidOf[c])'
      <4>x. PICK x \in Cloids : x = cloidOf[c] /\ x = cloidOf'[c]
        BY <1>2 DEF IInv, CloidInv
      <4>1. Ghost(cloidOf[c]) => Ghost(x)'
        BY <1>6, <4>x
      <4>2. Ghost(x)' => Ghost(cloidOf[c])'
        BY <4>x DEF Ghost, NeverSent
      <4> QED
        BY <4>1, <4>2
    <3>3. CASE c = main.client
      <4>1. gw.told[c].ends = 0
        BY <1>1, <3>3 DEF IInv, EndInv
      <4>2. gw'.told[c].ends = 1
        BY <1>4, <1>5, <3>1, <3>3, <4>1, HeardFacts
      <4>3. Ghost(cloidOf[c])
        BY <1>1, <1>3, <3>3 DEF IInv, GhostInv, Placing
      <4> QED
        BY <3>2, <4>2, <4>3
    <3>4. CASE c # main.client
      BY <1>5, <3>1, <3>2, <3>4 DEF IInv, EndInv
    <3> QED
      BY <3>3, <3>4
  <2> QED
    BY <1>2, <1>7, <2>1, <2>2 DEF EndInv
<1> QED
  BY <1>2, <1>5, <1>8, <1>9, <1>10, <1>11 DEF IInv, Fit

LEMMA MainStepKeeps ==
  ASSUME IInv, MapsInv', MainStep
  PROVE  IInv'
<1>1. ASSUME NEW kind \in {"place", "modify", "cancel"}, main.at # "idle", Sends(kind),
             Settles(gw, gw', Sent)
      PROVE  IInv'
  <2>1. /\ TypesOK' /\ LiveLeft' /\ CorrInv'
        /\ UNCHANGED <<nextCloid, seen, cloidOf, iocAsked>> /\ main' = NoHandler
        /\ \A x \in Cloids : NeverSent(x) => NeverSent(x)' \/ Placing(x)
    BY <1>1, SendKeeps
  <2>2. GatewayInv'
    BY <1>1, <2>1, GatewayKept DEF Ghost
  <2> QED
    BY <2>1, <2>2 DEF IInv, GatewayInv
<1>2. CASE PlaceOrder
  <2>1. main.at # "idle" /\ Sends("place")
    BY <1>2 DEF PlaceOrder, Sends
  <2>2. Settles(gw, gw', Sent)
    BY <1>2, IInvFit, SettlesSelf DEF PlaceOrder
  <2> QED
    BY <1>1, <2>1, <2>2
<1>3. CASE CancelOrderByCloid
  <2>1. main.at # "idle" /\ Sends("cancel")
    BY <1>3 DEF CancelOrderByCloid, Sends
  <2>2. Settles(gw, gw', Sent)
    BY <1>3, IInvFit, SettlesSelf DEF CancelOrderByCloid
  <2> QED
    BY <1>1, <2>1, <2>2
<1>4. CASE CancelOrderFails
  <2>1. main.at # "idle" /\ Sends("cancel")
    BY <1>4 DEF CancelOrderFails, Sends
  <2>2. main.client \in Clients \cup {NoClient}
    BY HandlerTypes DEF Handlers
  <2>3. Settles(gw, gw', Sent)
    BY <1>4, <2>2, IInvFit, NewsSettles DEF CancelOrderFails
  <2> QED
    BY <1>1, <2>1, <2>3
<1> QED
  BY <1>2, <1>3, <1>4, ModifyOrderKeeps, PlaceOrderThrowsKeeps DEF MainStep

LEMMA MainNextKeeps ==
  ASSUME IInv, MainNext
  PROVE  IInv'
<1>0. Fit(gw, Sent) /\ MapsInv'
  BY IInvFit, MainNextMaps DEF IInv
<1>1. CASE EndReplay
  BY <1>0, <1>1, SettlesSelf, SilentKeeps DEF EndReplay, history
<1>2. ASSUME NEW c \in Clients, IgnoreNewOrder(c)
      PROVE  IInv'
  <2>1. /\ seen[c] = "no" /\ seen' = [seen EXCEPT ![c] = "ignored"]
        /\ UNCHANGED <<exchangeVars, pending, nextCorr, nextCloid, main, cloidOf, iocAsked>>
        /\ gw' = gw
    BY <1>2 DEF IgnoreNewOrder
  <2> QED
    BY <1>0, <2>1, UnenteredKeeps
<1>3. ASSUME NEW c \in Clients, RejectNewOrder(c)
      PROVE  IInv'
  <2>1. /\ seen[c] = "no" /\ seen' = [seen EXCEPT ![c] = "rejected"]
        /\ UNCHANGED <<exchangeVars, pending, nextCorr, nextCloid, main, cloidOf, iocAsked>>
        /\ gw' = Report(gw, c, "REJECTED")
    BY <1>3 DEF RejectNewOrder
  <2>2. "REJECTED" \in ReportKinds /\ c \in Clients \cup {NoClient}
    BY DEF ReportKinds
  <2>3. /\ Fit(gw', Sent)
        /\ gw'.clientToCloid = gw.clientToCloid
        /\ gw'.cloidToState = gw.cloidToState /\ gw'.oidToCloid = gw.oidToCloid
        /\ \A d \in Clients : d # c => gw'.told[d] = gw.told[d]
    BY <1>0, <2>1, <2>2, ReportFacts, ReportFit
  <2> QED
    BY <1>0, <2>1, <2>3, UnenteredKeeps
<1>4. ASSUME NEW c \in Clients, EnterNewOrder(c)
      PROVE  IInv'
  BY <1>0, <1>4, EnterNewOrderKeeps
<1>5. ASSUME NEW c \in Clients, FindAmended(c) \/ FindCancelled(c)
      PROVE  IInv'
  BY <1>0, <1>5, MainFindsKeep
<1>6. ASSUME NEW c \in Clients, RejectCancelOrder(c)
      PROVE  IInv'
  <2>1. /\ UNCHANGED <<exchangeVars, pending, nextCorr, nextCloid, main, seen, cloidOf, iocAsked>>
        /\ gw' = Report(gw, c, "CancelReject")
    BY <1>6 DEF RejectCancelOrder, MayCancel
  <2>2. Settles(gw, gw', Sent)
    BY <1>0, <2>1, NewsSettles
  <2> QED
    BY <1>0, <2>1, <2>2, SilentKeeps
<1>7. CASE MainStep
  BY <1>0, <1>7, MainStepKeeps
<1> QED
  BY <1>1, <1>2, <1>3, <1>4, <1>5, <1>6, <1>7 DEF MainNext

-----------------------------------------------------------------------------
LEMMA InitEstablishes ==
  ASSUME Init
  PROVE  IInv
<1>1. /\ DOMAIN gw = Fields
      /\ gw.clientToCloid = NoEntries /\ gw.cloidToClient = NoEntries
      /\ gw.oidToCloid = NoEntries /\ gw.cloidToState = NoEntries
      /\ gw.told = [c \in Clients |-> NothingTold]
  BY DEF Init, GatewayInit, Fields
<1>2. DOMAIN NoEntries = {}
  BY DEF NoEntries
<1>3. /\ pending = {} /\ nextCorr = 1 /\ nextCloid = 1 /\ main = NoHandler
      /\ seen = [c \in Clients |-> "no"] /\ cloidOf = [c \in Clients |-> NoCloid] /\ iocAsked = {}
  BY DEF Init, GatewayInit
<1>4. /\ link = FALSE /\ requests = <<>> /\ responses = {} /\ stream = <<>>
      /\ book = [cloid \in Cloids |-> Unknown] /\ nextOid = 1
  BY DEF Init, ExchangeInit
<1>5. /\ <<>> \in Seq(Request) /\ <<>> \in Seq(Update \cup Fill) /\ Len(<<>>) = 0
  OBVIOUS
<1>6. Unknown \in BookEntry /\ Unknown.state = "unknown"
  BY DEF Unknown, BookEntry
<1>7. NothingTold \in Telling /\ NothingTold.ends = 0
  BY DEF NothingTold, Telling
<1>8. NoHandler \in Handlers /\ NoHandler.at = "idle"
  BY DEF NoHandler, Handlers, AnyCloid
<1>9. MapsInv
  BY <1>1, <1>2, <1>3 DEF MapsInv, Good, Paired
<1>10. TypesOK
  <2>1. ExchangeTypeOK
    BY <1>4, <1>5, <1>6 DEF ExchangeTypeOK
  <2>2. cloidOf \in [Clients -> AnyCloid]
    BY <1>3 DEF AnyCloid
  <2> QED
    BY <1>3, <1>8, <2>1, <2>2 DEF TypesOK
<1>11. MapsTyped(gw)
  BY <1>1, <1>2, <1>7 DEF MapsTyped, IsMap
<1>12. LiveLeft /\ CorrInv
  BY <1>3, <1>4, <1>5, <1>6, <1>8 DEF LiveLeft, CorrInv
<1>13. Entered = {}
  BY <1>3 DEF Entered
<1>14. CloidInv /\ IocInv
  BY <1>1, <1>2, <1>3, <1>8, <1>13 DEF CloidInv, IocInv, Known
<1>15. GhostInv
  <2>1. \A x \in Cloids : Ghost(x)
    BY <1>1, <1>2, <1>4, <1>5, <1>6 DEF Ghost, NeverSent
  <2> QED
    BY <2>1 DEF GhostInv
<1>16. EndInv
  BY <1>1, <1>3, <1>7, <1>8, <1>13 DEF EndInv
<1> QED
  BY <1>9, <1>10, <1>11, <1>12, <1>14, <1>15, <1>16 DEF IInv

LEMMA StutterKeeps ==
  ASSUME IInv, UNCHANGED vars
  PROVE  IInv'
<1>1. UNCHANGED <<exchangeVars, gw, pending, nextCorr, nextCloid, main, seen, cloidOf, iocAsked>>
  BY DEF vars, gatewayVars, history
<1>2. MapsInv'
  BY <1>1 DEF IInv, MapsInv
<1>3. Settles(gw, gw', Sent)
  BY <1>1, IInvFit, SettlesSelf
<1> QED
  BY <1>1, <1>2, <1>3, SilentKeeps

-----------------------------------------------------------------------------
(* The rejects of amends.  Only a response to a modify request makes one,  *)
(* and takes the request with it; the rest tells nothing of the kind.      *)
Told(s) == Good(s) /\ s.told \in [Clients -> Telling]

Mute(s, t) ==
  Told(t) /\ \A c \in Clients : t.told[c].amendRejects = s.told[c].amendRejects

LEMMA MuteTrans ==
  ASSUME NEW s, NEW t, NEW u, Mute(s, t), Mute(t, u)
  PROVE  Mute(s, u)
BY DEF Mute

LEMMA MuteSelf ==
  ASSUME NEW s, Told(s)
  PROVE  Mute(s, s)
BY DEF Mute

LEMMA SameTold ==
  ASSUME NEW s, Told(s), NEW t, Good(t), t.told = s.told
  PROVE  Mute(s, t)
BY DEF Mute, Told

LEMMA StateMute ==
  ASSUME NEW s, Told(s), NEW cloid, NEW state
  PROVE  Mute(s, SetState(s, cloid, state))
<1>1. SetState(s, cloid, state).told = s.told
  BY DEF SetState, Told, Good, Fields
<1> QED
  BY <1>1, SetStateShrinks, ShrinksGood, SameTold DEF Told

LEMMA RegisterOidMute ==
  ASSUME NEW s, Told(s), NEW oid, NEW cloid
  PROVE  /\ Mute(s, RegisterOid(s, oid, cloid))
         /\ Mute(s, SetActiveOid(s, oid, cloid))
<1>1. Good(RegisterOid(s, oid, cloid)) /\ Good(SetActiveOid(s, oid, cloid))
  BY RegisterOidShrinks, SetActiveOidShrinks, ShrinksGood DEF Told
<1>2. RegisterOid(s, oid, cloid).told = s.told /\ DOMAIN RegisterOid(s, oid, cloid) = Fields
  BY DEF RegisterOid, Told, Good, Fields
<1>3. SetActiveOid(s, oid, cloid).told = s.told
  BY <1>2 DEF SetActiveOid, Fields
<1> QED
  BY <1>1, <1>2, <1>3, SameTold

LEMMA ReportMute ==
  ASSUME NEW s, Told(s), NEW client \in Clients \cup {NoClient},
         NEW report \in ReportKinds, report # "AmendReject"
  PROVE  Mute(s, Report(s, client, report)) /\ Mute(s, ReportKnown(s, client, report))
<1>t. PICK t : t = Report(s, client, report)
  OBVIOUS
<1>1. Good(t)
  BY <1>t, ReportShrinks, ShrinksGood DEF Told
<1>2. t.told = IF client = NoClient THEN s.told
               ELSE [s.told EXCEPT ![client] = Heard(@, report)]
  BY <1>t DEF Report, Told, Good, Fields
<1>3. t.told \in [Clients -> Telling]
  BY <1>2, HeardFacts DEF Told
<1>4. \A c \in Clients : t.told[c].amendRejects = s.told[c].amendRejects
  BY <1>2, HeardFacts DEF Told
<1>5. Mute(s, t)
  BY <1>1, <1>3, <1>4 DEF Mute, Told
<1> QED
  BY <1>t, <1>5, MuteSelf DEF ReportKnown

LEMMA RemoveMute ==
  ASSUME NEW s, Told(s), NEW cloids
  PROVE  Mute(s, RemoveOrders(s, cloids))
<1>1. /\ DOMAIN ForgetExchangeIds(s, cloids) = Fields
      /\ ForgetExchangeIds(s, cloids).told = s.told
  BY DEF ForgetExchangeIds, Told, Good, Fields
<1>2. RemoveOrders(s, cloids).told = s.told
  BY <1>1 DEF RemoveOrders, Fields
<1> QED
  BY <1>2, RemoveOrdersShrinks, ShrinksGood, SameTold DEF Told

LEMMA ReportRemoveMute ==
  ASSUME NEW s, Told(s), NEW client \in Clients \cup {NoClient},
         NEW report \in ReportKinds, report # "AmendReject", NEW cloid
  PROVE  Mute(s, RemoveOrder(Report(s, client, report), cloid))
<1>t. PICK t : t = Report(s, client, report)
  OBVIOUS
<1>1. Mute(s, t) /\ Told(t)
  BY <1>t, ReportMute DEF Mute
<1>2. Mute(t, RemoveOrder(t, cloid))
  BY <1>1, RemoveMute DEF RemoveOrder
<1> QED
  BY <1>t, <1>1, <1>2, MuteTrans

LEMMA CheckTimeoutsMute ==
  ASSUME NEW s, Told(s), NEW n, NEW late
  PROVE  Mute(s, CheckTimeouts(s, n, late))
<1> DEFINE swept == late \cap DOMAIN s.cloidToClient
           clients == {s.cloidToClient[cloid] : cloid \in swept}
           b == SubSeq(s.bufferedFills, n + 1, Len(s.bufferedFills))
           f == [c \in Clients |-> IF c \in clients THEN Heard(s.told[c], "CANCELLED")
                                                    ELSE s.told[c]]
           t == [s EXCEPT !.bufferedFills = b, !.told = f]
<1>1. CheckTimeouts(s, n, late) = RemoveOrders(t, swept)
  BY DEF CheckTimeouts, Told, Good, Fields
<1>2. /\ DOMAIN t = DOMAIN s /\ t.told = f
      /\ t.clientToCloid = s.clientToCloid /\ t.cloidToClient = s.cloidToClient
  BY DEF Told, Good, Fields
<1>3. "CANCELLED" \in ReportKinds
  BY DEF ReportKinds
<1>4. f \in [Clients -> Telling] /\ \A c \in Clients : f[c].amendRejects = s.told[c].amendRejects
  <2>1. ASSUME NEW c \in Clients
        PROVE  f[c] \in Telling /\ f[c].amendRejects = s.told[c].amendRejects
    <3>1. s.told[c] \in Telling
      BY DEF Told
    <3>2. Heard(s.told[c], "CANCELLED") \in Telling
          /\ Heard(s.told[c], "CANCELLED").amendRejects = s.told[c].amendRejects
      BY <1>3, <3>1, HeardFacts
    <3> QED
      BY <3>1, <3>2
  <2> QED
    BY <2>1
<1> HIDE DEF t, f, swept, b
<1>5. Good(t)
  BY <1>2, OtherField, ShrinksGood DEF Told
<1>6. Mute(s, t) /\ Told(t)
  BY <1>2, <1>4, <1>5 DEF Mute, Told
<1> QED
  BY <1>1, <1>6, RemoveMute, MuteTrans

-----------------------------------------------------------------------------
LEMMA EmitFillMute ==
  ASSUME NEW s, Told(s), NEW client \in Clients \cup {NoClient}, NEW cloid
  PROVE  Mute(s, EmitFill(s, client, cloid))
<1>t. PICK t : t = ApplyFill(s, cloid, 1)
  OBVIOUS
<1>1. Mute(s, t) /\ Told(t)
  BY <1>t, StateMute DEF ApplyFill, Mute
<1>2. \/ EmitFill(s, client, cloid) = Report(t, client, "PARTIALLY_FILLED")
      \/ EmitFill(s, client, cloid) = Report(t, client, "FILLED")
      \/ EmitFill(s, client, cloid) = RemoveOrder(Report(t, client, "FILLED"), cloid)
  BY <1>t DEF EmitFill
<1>3. Mute(t, EmitFill(s, client, cloid))
  BY <1>1, <1>2, ReportMute, ReportRemoveMute DEF ReportKinds
<1> QED
  BY <1>1, <1>3, MuteTrans

LEMMA BufferMute ==
  ASSUME NEW s, Told(s), NEW fills
  PROVE  Mute(s, [s EXCEPT !.bufferedFills = fills])
<1>1. /\ DOMAIN [s EXCEPT !.bufferedFills = fills] = DOMAIN s
      /\ [s EXCEPT !.bufferedFills = fills].clientToCloid = s.clientToCloid
      /\ [s EXCEPT !.bufferedFills = fills].cloidToClient = s.cloidToClient
      /\ [s EXCEPT !.bufferedFills = fills].told = s.told
  BY DEF Told, Good, Fields
<1> QED
  BY <1>1, OtherField, ShrinksGood, SameTold DEF Told

LEMMA OnUserFillMute ==
  ASSUME NEW s, Told(s), NEW fill,
         LookupClientOrderIdByOid(s, fill.oid) \in Clients \cup {NoClient}
  PROVE  Mute(s, OnUserFill(s, fill))
BY BufferMute, EmitFillMute DEF OnUserFill, BufferFill

(* A client that is looked up is one.                                      *)
Clientele(s) == \A cloid : LookupClientOrderId(s, cloid) \in Clients \cup {NoClient}

LEMMA OnOrderUpdateMute ==
  ASSUME NEW s, Told(s), NEW u, Clientele(s)
  PROVE  Mute(s, OnOrderUpdate(s, u))
<1>t. PICK t : t = RegisterOid(s, u.oid, u.cloid)
  OBVIOUS
<1>1. Mute(s, t) /\ Told(t) /\ t.cloidToClient = s.cloidToClient /\ Clientele(t)
  <2>1. t.cloidToClient = s.cloidToClient
    BY <1>t DEF RegisterOid, Told, Good, Fields
  <2> QED
    BY <1>t, <2>1, RegisterOidMute DEF Mute, Clientele, LookupClientOrderId
<1>2. Mute(t, OnOpen(t, u))
  <2>a. PICK a : a = SetActiveOid(t, u.oid, u.cloid)
    OBVIOUS
  <2>b. PICK b : b = InitOrderState(a, u.cloid, u.origSz)
    OBVIOUS
  <2>1. Mute(t, a) /\ Told(a)
    BY <1>1, <2>a, RegisterOidMute DEF Mute
  <2>2. Mute(a, b) /\ Told(b)
    BY <2>1, <2>b, StateMute DEF InitOrderState, Mute
  <2>3. b.cloidToClient = t.cloidToClient
    <3>0. RegisterOid(t, u.oid, u.cloid).cloidToClient = t.cloidToClient
          /\ DOMAIN RegisterOid(t, u.oid, u.cloid) = Fields
      BY <1>1 DEF RegisterOid, Told, Good, Fields
    <3>1. a.cloidToClient = t.cloidToClient
      BY <2>a, <3>0 DEF SetActiveOid, Fields
    <3>2. b.cloidToClient = a.cloidToClient
      BY <2>1, <2>b DEF InitOrderState, SetState, Told, Good, Fields
    <3> QED
      BY <3>1, <3>2
  <2>4. LookupClientOrderId(b, u.cloid) \in Clients \cup {NoClient}
    BY <1>1, <2>3 DEF Clientele, LookupClientOrderId
  <2>5. OnOpen(t, u) = ReportKnown(b, LookupClientOrderId(b, u.cloid), "NEW")
    BY <2>a, <2>b DEF OnOpen
  <2>6. Mute(b, OnOpen(t, u))
    BY <2>2, <2>4, <2>5, ReportMute DEF ReportKinds
  <2> QED
    BY <2>1, <2>2, <2>6, MuteTrans
<1>3. Mute(t, OnFilled(t, u))
  <2>r. PICK r : r = ReportKnown(t, LookupClientOrderId(t, u.cloid), "CANCELLED")
    OBVIOUS
  <2>0. /\ "CANCELLED" \in ReportKinds
        /\ LookupClientOrderId(t, u.cloid) \in Clients \cup {NoClient}
    BY <1>1 DEF ReportKinds, Clientele
  <2>1. Mute(t, r)
    BY <1>1, <2>0, <2>r, ReportMute
  <2>3. Told(r)
    BY <2>1 DEF Mute
  <2>2. OnFilled(t, u) = RemoveOrder(r, u.cloid) \/ OnFilled(t, u) = RemoveOrder(t, u.cloid)
    BY <2>r DEF OnFilled
  <2> QED
    BY <1>1, <2>1, <2>2, <2>3, RemoveMute, MuteTrans DEF RemoveOrder
<1>4. Mute(t, OnEnded(t, u))
  BY <1>1, ReportRemoveMute, MuteSelf DEF OnEnded, Clientele, ReportKinds
<1>5. OnOrderUpdate(s, u) \in {OnOpen(t, u), t, OnFilled(t, u), OnEnded(t, u)}
  BY <1>t DEF OnOrderUpdate
<1> QED
  BY <1>1, <1>2, <1>3, <1>4, <1>5, MuteTrans

-----------------------------------------------------------------------------
(* A client has been told of as many refused amends as it asked for, at    *)
(* most; and of none while its amend is being sent or under way, which is  *)
(* in one place at a time.                                                 *)
Amends == {p \in pending : p.kind = "modify"}

Unrefused(x) ==
  \A c \in Entered : cloidOf[c] = x => c \in amendAsked /\ gw.told[c].amendRejects = 0

AmendInv ==
  /\ \A c \in Clients : gw.told[c].amendRejects <= AmendsOf(c)
  /\ \A p \in Amends : p.cloid < nextCloid /\ Unrefused(p.cloid)
  /\ \A p, q \in Amends : p.cloid = q.cloid => p = q
  /\ main.at = "amending" => Unrefused(main.cloid) /\ \A p \in Amends : p.cloid # main.cloid

LEMMA IInvTold ==
  ASSUME IInv
  PROVE  /\ Told(gw) /\ Clientele(gw) /\ Mute(gw, gw)
         /\ \A c \in Clients : gw.told[c].amendRejects \in Nat
<1>1. Fit(gw, Sent)
  BY IInvFit
<1>2. Told(gw)
  BY <1>1 DEF Fit, MapsTyped, Told
<1>3. Clientele(gw)
  BY <1>1, LookedUp DEF Clientele
<1>4. \A c \in Clients : gw.told[c].amendRejects \in Nat
  BY <1>2 DEF Told, Telling
<1> QED
  BY <1>2, <1>3, <1>4, MuteSelf

LEMMA MuteStep ==
  ASSUME AmendInv, Mute(gw, gw'), Entered' = Entered, UNCHANGED <<cloidOf, amendAsked, nextCloid>>,
         Amends' \subseteq Amends, main' = main \/ main'.at # "amending"
  PROVE  AmendInv'
<1>1. \A c \in Clients : gw'.told[c].amendRejects = gw.told[c].amendRejects
  BY DEF Mute
<1>2. \A x : Unrefused(x) => Unrefused(x)'
  BY <1>1 DEF Unrefused, Entered
<1>3. \A c \in Clients : gw'.told[c].amendRejects <= AmendsOf(c)'
  BY <1>1 DEF AmendInv, AmendsOf
<1>4. \A p \in Amends' : p.cloid < nextCloid' /\ Unrefused(p.cloid)'
  BY <1>2 DEF AmendInv
<1>5. main'.at = "amending" =>
        Unrefused(main.cloid)' /\ \A p \in Amends' : p.cloid # main'.cloid
  <2>1. CASE main' = main
    <3>1. ASSUME main'.at = "amending"
          PROVE  Unrefused(main.cloid)'
      <4>1. Unrefused(main.cloid)
        BY <2>1, <3>1 DEF AmendInv
      <4> QED
        BY <1>1, <2>1, <4>1 DEF Unrefused, Entered
    <3> QED
      BY <2>1, <3>1 DEF AmendInv
  <2> QED
    BY <2>1
<1>6. \A p, q \in Amends' : p.cloid = q.cloid => p = q
  BY DEF AmendInv
<1> QED
  BY <1>3, <1>4, <1>5, <1>6 DEF AmendInv

LEMMA UserCallbacksMute ==
  ASSUME IInv, NEW i \in 1 .. Len(stream), OrderUpdateArrives(i) \/ UserFillArrives(i)
  PROVE  Mute(gw, gw')
<1>1. PICK checked \in AfterCheckTimeouts :
        \/ gw' = OnOrderUpdate(checked, stream[i])
        \/ gw' = TakeBuffered(OnOrderUpdate(checked, stream[i]), stream[i].oid)
        \/ gw' = OnUserFill(checked, stream[i])
  BY DEF OrderUpdateArrives, UserFillArrives
<1>2. Mute(gw, checked)
  <2>1. \E n, late : checked = CheckTimeouts(gw, n, late)
    <3>1. CASE Timeouts
      BY <3>1 DEF AfterCheckTimeouts
    <3>2. CASE ~Timeouts
      BY <3>2 DEF AfterCheckTimeouts
    <3> QED
      BY <3>1, <3>2
  <2> QED
    BY <2>1, IInvTold, CheckTimeoutsMute
<1>3. Told(checked) /\ Clientele(checked)
  BY <1>2, CheckedSettles, LookedUp DEF Mute, Clientele
<1>s. PICK s : s = OnOrderUpdate(checked, stream[i])
  OBVIOUS
<1>4. Mute(checked, s) /\ Told(s)
  BY <1>3, <1>s, OnOrderUpdateMute DEF Mute
<1>5. Mute(s, TakeBuffered(s, stream[i].oid))
  BY <1>4, BufferMute DEF TakeBuffered
<1>6. Mute(checked, OnUserFill(checked, stream[i]))
  BY <1>3, OnUserFillMute DEF Clientele, LookupClientOrderIdByOid
<1>7. Mute(checked, gw')
  BY <1>1, <1>4, <1>5, <1>6, <1>s, MuteTrans
<1> QED
  BY <1>2, <1>7, MuteTrans

(* A response that refuses an amend: the client hears of it, and the       *)
(* request is pending no more.                                             *)
LEMMA RefusalKeeps ==
  ASSUME IInv, AmendInv, NEW r \in responses, ResponseArrives(r), r.kind = "modify",
         PendingCloid(r) # NoCloid, gw' = SendAmendReject(gw, PendingCloid(r))
  PROVE  AmendInv'
<1>p. PICK p \in PendingOf(r) : PendingCloid(r) = p.cloid
  <2>1. PendingOf(r) # {}
    BY DEF PendingCloid
  <2>2. (CHOOSE p \in PendingOf(r) : TRUE) \in PendingOf(r)
    BY <2>1
  <2> QED
    BY <2>1, <2>2 DEF PendingCloid
<1>x. PICK x : x = p.cloid
  OBVIOUS
<1>d. PICK d : d = LookupClientOrderId(gw, x)
  OBVIOUS
<1>0. /\ UNCHANGED <<main, seen, cloidOf, amendAsked, nextCloid>> /\ Entered' = Entered
      /\ pending' = pending \ PendingOf(r)
  BY DEF ResponseArrives, RestUnchanged, history, Entered
<1>1. p \in Amends /\ Amends' \subseteq Amends /\ \A q \in Amends' : q.cloid # x
  BY <1>0, <1>x DEF Amends, PendingOf, AmendInv
<1>2. CASE d = NoClient
  <2>1. gw' = gw
    BY <1>d, <1>p, <1>x, <1>2 DEF SendAmendReject, ReportKnown
  <2> QED
    BY <1>0, <1>1, <2>1, IInvTold, MuteStep
<1>3. CASE d # NoClient
  <2>1. d \in Clients /\ d \in Entered /\ cloidOf[d] = x
    BY <1>d, <1>3, IInvFit, LookedUp, HandlerTypes
  <2>2. d \in amendAsked /\ gw.told[d].amendRejects = 0
    BY <1>1, <1>x, <2>1 DEF AmendInv, Unrefused
  <2>3. "AmendReject" \in ReportKinds /\ gw.told \in [Clients -> Telling]
    BY IInvTold DEF ReportKinds, Told
  <2>4. gw'.told = [gw.told EXCEPT ![d] = Heard(@, "AmendReject")]
    BY <1>d, <1>p, <1>x, <1>3, IInvTold DEF SendAmendReject, ReportKnown, Report, Told, Good, Fields
  <2>5. /\ gw'.told[d].amendRejects = 1
        /\ \A c \in Clients : c # d => gw'.told[c].amendRejects = gw.told[c].amendRejects
    BY <2>1, <2>2, <2>3, <2>4, HeardFacts
  <2>6. \A c \in Clients : gw'.told[c].amendRejects <= AmendsOf(c)'
    BY <1>0, <2>2, <2>5 DEF AmendInv, AmendsOf
  <2>7. ASSUME NEW y, Unrefused(y), y # x
        PROVE  \A c \in Entered : cloidOf[c] = y => c \in amendAsked /\ gw'.told[c].amendRejects = 0
    BY <2>1, <2>5, <2>7 DEF Unrefused, Entered
  <2>8. \A q \in Amends' : q.cloid < nextCloid' /\ Unrefused(q.cloid)'
    BY <1>0, <1>1, <2>7 DEF AmendInv, Unrefused
  <2>9. \A q, u \in Amends' : q.cloid = u.cloid => q = u
    BY <1>1 DEF AmendInv
  <2>10. main'.at = "amending" => Unrefused(main.cloid)' /\ \A q \in Amends' : q.cloid # main'.cloid
    <3>1. ASSUME main.at = "amending"
          PROVE  Unrefused(main.cloid)' /\ \A q \in Amends' : q.cloid # main.cloid
      <4>1. Unrefused(main.cloid) /\ \A q \in Amends : q.cloid # main.cloid
        BY <3>1 DEF AmendInv
      <4> QED
        BY <1>0, <1>1, <1>x, <2>7, <4>1 DEF Unrefused
    <3> QED
      BY <1>0, <3>1
  <2> QED
    BY <2>6, <2>8, <2>9, <2>10 DEF AmendInv
<1> QED
  BY <1>2, <1>3

LEMMA ResponseAmends ==
  ASSUME IInv, AmendInv, NEW r \in responses, ResponseArrives(r)
  PROVE  AmendInv'
<1>c. PICK x : x = PendingCloid(r)
  OBVIOUS
<1>0. /\ UNCHANGED <<main, seen, cloidOf, amendAsked, nextCloid>> /\ Entered' = Entered
      /\ Amends' \subseteq Amends
  BY DEF ResponseArrives, RestUnchanged, history, Entered, Amends
<1>1. LookupClientOrderId(gw, x) \in Clients \cup {NoClient} /\ Told(gw)
  BY IInvTold DEF Clientele
<1>2. \A report \in {"REJECTED", "CancelReject"} : report \in ReportKinds /\ report # "AmendReject"
  BY DEF ReportKinds
<1>3. Mute(gw, OnPlaceOrder(gw, r.result, x))
  BY <1>1, <1>2, IInvTold, ReportRemoveMute DEF OnPlaceOrder, SendNewOrderReject
<1>4. Mute(gw, OnCancelOrder(gw, r.result, x))
  BY <1>1, <1>2, IInvTold, ReportMute DEF OnCancelOrder, SendCancelReject
<1>5. CASE r.kind = "modify" /\ r.result = "failed" /\ x # NoCloid
  <2>1. gw' = SendAmendReject(gw, x)
    BY <1>c, <1>5 DEF ResponseArrives, OnModifyOrder
  <2> QED
    BY <1>c, <1>5, <2>1, RefusalKeeps
<1>6. CASE ~(r.kind = "modify" /\ r.result = "failed" /\ x # NoCloid)
  <2>1. Mute(gw, gw')
    BY <1>c, <1>3, <1>4, <1>6, IInvTold DEF ResponseArrives, OnModifyOrder
  <2> QED
    BY <1>0, <2>1, MuteStep
<1> QED
  BY <1>5, <1>6

LEMMA WebsocketAmends ==
  ASSUME IInv, AmendInv, WebsocketStep
  PROVE  AmendInv'
<1>1. CASE \E i \in 1 .. Len(stream) : OrderUpdateArrives(i) \/ UserFillArrives(i)
  <2>1. UNCHANGED <<main, seen, cloidOf, amendAsked, nextCloid, pending>>
    BY <1>1 DEF OrderUpdateArrives, UserFillArrives, RestUnchanged, history
  <2>2. Mute(gw, gw')
    BY <1>1, UserCallbacksMute
  <2> QED
    BY <2>1, <2>2, MuteStep DEF Entered, Amends
<1>2. CASE ReplayFill
  <2>1. UNCHANGED <<main, seen, cloidOf, amendAsked, nextCloid, pending>>
    BY <1>2 DEF ReplayFill, RestUnchanged, history
  <2>2. Mute(gw, gw')
    BY <1>2, IInvTold, EmitFillMute DEF ReplayFill, LookupClientOrderIdByOid, Clientele
  <2> QED
    BY <2>1, <2>2, MuteStep DEF Entered, Amends
<1>3. CASE \E r \in responses : ResponseArrives(r)
  BY <1>3, ResponseAmends
<1>4. CASE OnConnected \/ OnDisconnected
  <2>1. UNCHANGED <<main, seen, cloidOf, amendAsked, nextCloid>> /\ pending' \subseteq pending
    BY <1>4 DEF OnConnected, OnDisconnected, RestUnchanged, history
  <2>2. Mute(gw, gw')
    BY <1>4, IInvTold, BufferMute DEF OnConnected, OnDisconnected
  <2> QED
    BY <2>1, <2>2, MuteStep DEF Entered, Amends
<1> QED
  BY <1>1, <1>2, <1>3, <1>4 DEF WebsocketStep

(* A new order: its cloid is above those of all amends.                    *)
LEMMA EnterAmends ==
  ASSUME IInv, AmendInv, NEW c \in Clients, EnterNewOrder(c)
  PROVE  AmendInv'
<1>0. /\ UNCHANGED <<pending, amendAsked>> /\ main'.at = "placing"
      /\ cloidOf' = [cloidOf EXCEPT ![c] = nextCloid] /\ nextCloid' = nextCloid + 1
      /\ seen' = [seen EXCEPT ![c] = "entered"]
  BY DEF EnterNewOrder
<1>1. /\ Entered' = Entered \cup {c} /\ nextCloid \in Nat /\ cloidOf \in [Clients -> AnyCloid]
      /\ \A p \in Amends : p.cloid \in Nat
  BY <1>0 DEF Entered, IInv, MapsInv, TypesOK, Pendings, Amends
<1>2. gw'.told = gw.told
  BY IInvTold DEF EnterNewOrder, AddOrder, Told, Good, Fields
<1>3. Amends' = Amends
  BY <1>0 DEF Amends
<1>4. \A d \in Clients : gw'.told[d].amendRejects <= AmendsOf(d)'
  BY <1>0, <1>2 DEF AmendInv, AmendsOf
<1>5. ASSUME NEW p \in Amends
      PROVE  p.cloid < nextCloid' /\ Unrefused(p.cloid)'
  <2>1. p.cloid < nextCloid /\ Unrefused(p.cloid) /\ p.cloid \in Nat
    BY <1>1 DEF AmendInv
  <2>2. p.cloid # nextCloid /\ p.cloid < nextCloid'
    BY <1>0, <1>1, <2>1
  <2>3. cloidOf'[c] # p.cloid /\ \A d \in Entered : cloidOf'[d] = p.cloid => cloidOf[d] = p.cloid
    BY <1>0, <1>1, <2>2 DEF Entered
  <2> QED
    BY <1>0, <1>1, <1>2, <2>1, <2>2, <2>3 DEF Unrefused
<1>6. \A p, q \in Amends : p.cloid = q.cloid => p = q
  BY DEF AmendInv
<1> QED
  BY <1>0, <1>3, <1>4, <1>5, <1>6 DEF AmendInv

(* An amend is asked for: there has been none of this order.               *)
LEMMA FindAmends ==
  ASSUME IInv, AmendInv, NEW c \in Clients, FindAmended(c)
  PROVE  AmendInv'
<1>0. /\ UNCHANGED <<gw, pending, seen, cloidOf, nextCloid>>
      /\ c \notin amendAsked /\ amendAsked' = amendAsked \cup {c}
      /\ main'.cloid = gw.clientToCloid[c] /\ c \in DOMAIN gw.clientToCloid
  BY DEF FindAmended
<1>1. /\ c \in Entered /\ gw.clientToCloid[c] = cloidOf[c]
      /\ Entered' = Entered /\ Amends' = Amends
  BY <1>0, HandlerTypes DEF Entered, Amends
<1>2. gw.told[c].amendRejects = 0
  BY <1>0, IInvTold DEF AmendInv, AmendsOf
<1>3. \A d \in Clients : gw.told[d].amendRejects <= AmendsOf(d)'
  BY <1>0, <1>2 DEF AmendInv, AmendsOf
<1>4. ASSUME NEW p \in Amends
      PROVE  p.cloid < nextCloid' /\ Unrefused(p.cloid)' /\ p.cloid # cloidOf[c]
  BY <1>0, <1>1 DEF AmendInv, Unrefused
<1>5. \A d \in Entered : cloidOf[d] = cloidOf[c] => d = c
  BY <1>1 DEF IInv, CloidInv
<1>x. PICK x : x = cloidOf[c]
  OBVIOUS
<1>6. \A d \in Entered : cloidOf[d] = x => d \in amendAsked' /\ gw.told[d].amendRejects = 0
  BY <1>0, <1>2, <1>5, <1>x
<1>7. \A p, q \in Amends : p.cloid = q.cloid => p = q
  BY DEF AmendInv
<1>8. Unrefused(main.cloid)' /\ \A p \in Amends : p.cloid # main'.cloid
  BY <1>0, <1>1, <1>4, <1>6, <1>x DEF Unrefused
<1> QED
  BY <1>0, <1>1, <1>3, <1>4, <1>7, <1>8 DEF AmendInv

(* It is sent: from then on its request is pending.                        *)
LEMMA ModifyAmends ==
  ASSUME IInv, AmendInv, ModifyOrder
  PROVE  AmendInv'
<1>p. PICK p : p = [kind |-> "modify", corr |-> nextCorr, cloid |-> main.cloid]
  OBVIOUS
<1>0. /\ UNCHANGED <<seen, cloidOf, amendAsked, nextCloid>> /\ main.at = "amending"
      /\ pending' = pending \cup {p} /\ main' = NoHandler
  BY <1>p DEF ModifyOrder, HandlerDone, history, Track
<1>1. /\ Amends' = Amends \cup {p} /\ p.cloid = main.cloid
      /\ Entered' = Entered /\ main'.at # "amending"
  BY <1>0, <1>p, HandlerTypes DEF Amends, Entered
<1>2. gw'.told = gw.told
  BY IInvTold DEF ModifyOrder, EnterAmend, SetState, Told, Good, Fields
<1>3. /\ p.cloid < nextCloid /\ Unrefused(p.cloid)
      /\ \A q \in Amends : q.cloid # p.cloid
  BY <1>0, <1>1 DEF AmendInv, IInv, CloidInv
<1>4. \A c \in Clients : gw'.told[c].amendRejects <= AmendsOf(c)'
  BY <1>0, <1>2 DEF AmendInv, AmendsOf
<1>5. \A y : Unrefused(y) => Unrefused(y)'
  BY <1>0, <1>1, <1>2 DEF Unrefused
<1>6. \A q \in Amends' : q.cloid < nextCloid' /\ Unrefused(q.cloid)'
  BY <1>0, <1>1, <1>3, <1>5 DEF AmendInv
<1>7. \A q, u \in Amends' : q.cloid = u.cloid => q = u
  BY <1>1, <1>3 DEF AmendInv
<1> QED
  BY <1>1, <1>4, <1>6, <1>7 DEF AmendInv

LEMMA MainAmends ==
  ASSUME IInv, AmendInv, MainNext
  PROVE  AmendInv'
<1>0. /\ Told(gw) /\ Mute(gw, gw) /\ NoHandler.at = "idle"
      /\ \A report \in {"REJECTED", "CancelReject"} : report \in ReportKinds /\ report # "AmendReject"
  BY IInvTold, HandlerTypes DEF ReportKinds
<1>1. CASE EndReplay
  <2>1. UNCHANGED <<gw, pending, nextCloid, main, seen, cloidOf, amendAsked>>
    BY <1>1 DEF EndReplay, history
  <2> QED
    BY <1>0, <2>1, MuteStep DEF Entered, Amends
<1>2. ASSUME NEW c \in Clients, IgnoreNewOrder(c) \/ RejectNewOrder(c)
      PROVE  AmendInv'
  <2>1. /\ UNCHANGED <<pending, nextCloid, main, cloidOf, amendAsked>>
        /\ seen[c] = "no" /\ \E fate \in {"ignored", "rejected"} : seen' = [seen EXCEPT ![c] = fate]
    BY <1>2 DEF IgnoreNewOrder, RejectNewOrder
  <2>2. Entered' = Entered
    BY <2>1 DEF Entered, IInv, MapsInv
  <2>3. Mute(gw, gw')
    BY <1>0, <1>2, ReportMute DEF IgnoreNewOrder, RejectNewOrder
  <2> QED
    BY <2>1, <2>2, <2>3, MuteStep DEF Amends
<1>3. ASSUME NEW c \in Clients, FindCancelled(c) \/ RejectCancelOrder(c)
      PROVE  AmendInv'
  <2>1. /\ UNCHANGED <<pending, nextCloid, seen, cloidOf, amendAsked>>
        /\ main' = main \/ main'.at # "amending"
    BY <1>3 DEF FindCancelled, RejectCancelOrder, MayCancel
  <2>2. Mute(gw, gw')
    BY <1>0, <1>3, ReportMute DEF FindCancelled, RejectCancelOrder
  <2> QED
    BY <2>1, <2>2, MuteStep DEF Entered, Amends
<1>4. CASE PlaceOrder \/ PlaceOrderThrows \/ CancelOrderByCloid \/ CancelOrderFails
  <2>1. /\ UNCHANGED <<nextCloid, seen, cloidOf, amendAsked>> /\ main' = NoHandler
        /\ \/ pending' = pending
           \/ \E kind \in {"place", "cancel"} :
                pending' = pending \cup {[kind |-> kind, corr |-> nextCorr, cloid |-> main.cloid]}
    BY <1>4 DEF PlaceOrder, PlaceOrderThrows, CancelOrderByCloid, CancelOrderFails, HandlerDone,
                history, Track
  <2>2. main.client \in Clients \cup {NoClient}
    BY HandlerTypes DEF Handlers
  <2>3. Mute(gw, gw')
    BY <1>0, <1>4, <2>2, ReportMute
       DEF PlaceOrder, PlaceOrderThrows, CancelOrderByCloid, CancelOrderFails
  <2>4. Amends' \subseteq Amends
    BY <2>1 DEF Amends
  <2> QED
    BY <1>0, <2>1, <2>3, <2>4, MuteStep DEF Entered
<1> QED
  BY <1>1, <1>2, <1>3, <1>4, EnterAmends, FindAmends, ModifyAmends DEF MainNext, MainStep

LEMMA StepKeepsAmends ==
  ASSUME IInv, AmendInv, [Next]_vars
  PROVE  AmendInv'
<1>1. CASE Exchange \/ LinkBreaks \/ UNCHANGED vars
  <2>1. UNCHANGED <<gw, pending, nextCloid, main, seen, cloidOf, amendAsked>>
    BY <1>1 DEF Exchange, LinkBreaks, vars, gatewayVars, history
  <2> QED
    BY <2>1, IInvTold, MuteStep DEF Entered, Amends
<1> QED
  BY <1>1, WebsocketAmends, MainAmends DEF Next

-----------------------------------------------------------------------------
(* For any number of orders, and whatever is lost, late or out of order: a *)
(* client never hears twice that its order is over, unless the order was   *)
(* an IOC order at some time.  emitFillExecutionReport, onOrderUpdate's    *)
(* statuses, the rejects of onPlaceOrder and the exception of placeOrder   *)
(* may all report it.  The report of a refused amend has the status        *)
(* REJECTED as well and is counted apart, for it ends nothing: a client    *)
(* hears at most as many of them as it asked for amends, and of none       *)
(* twice.                                                                  *)
THEOREM EndsOnce == Spec => []SingleEnd
<1>1. Init => IInv
  BY InitEstablishes
<1>2. IInv /\ [Next]_vars => IInv'
  <2> SUFFICES ASSUME IInv, [Next]_vars PROVE IInv'
    OBVIOUS
  <2>1. CASE Exchange
    BY <2>1, ExchangeMovesOn, ExchangeKeeps DEF Exchange
  <2>2. CASE WebsocketStep
    BY <2>2, WebsocketStepKeeps
  <2>3. CASE LinkBreaks
    BY <2>3, LinkBreaksKeeps
  <2>4. CASE MainNext
    BY <2>4, MainNextKeeps
  <2>5. CASE UNCHANGED vars
    BY <2>5, StutterKeeps
  <2> QED
    BY <2>1, <2>2, <2>3, <2>4, <2>5 DEF Next
<1>3. Init => AmendInv
  <2> SUFFICES ASSUME Init PROVE AmendInv
    OBVIOUS
  <2>1. gw.told = [c \in Clients |-> NothingTold] /\ pending = {} /\ main = NoHandler
    BY DEF Init, GatewayInit
  <2>2. \A c \in Clients : gw.told[c].amendRejects = 0
    BY <2>1 DEF NothingTold
  <2> QED
    BY <2>1, <2>2 DEF AmendInv, AmendsOf, Amends, NoHandler
<1>4. IInv /\ AmendInv /\ [Next]_vars => AmendInv'
  BY StepKeepsAmends
<1>5. IInv /\ AmendInv => SingleEnd
  <2>1. ASSUME IInv, NEW c \in Entered \ iocAsked
        PROVE  gw.told[c].ends <= 1
    BY <2>1 DEF IInv, EndInv
  <2> QED
    BY <2>1 DEF SingleEnd, AmendInv
<1> QED
  BY <1>1, <1>2, <1>3, <1>4, <1>5, PTL DEF Spec
=============================================================================
