---------------------- MODULE HyperliquidOrdersHandler ----------------------
(***************************************************************************)
(* The order maps of HyperliquidOrdersHandler, and what its members do to  *)
(* them.  The gateway's state is one record s, because a callback makes    *)
(* several of these changes in a row; each operator below returns the      *)
(* record after one of them.  The fields of s that belong to the handler:  *)
(*                                                                         *)
(*   clientToCloid, cloidToClient, oidToCloid, cloidToOid, cloidToState    *)
(*                  the maps of that name, as functions on their keys      *)
(*   cloidToAsset   the keys of m_cloidToAsset                             *)
(*                                                                         *)
(* Quantities are small numbers, and an order's side, price, security and  *)
(* type only decorate reports: they are left out.                          *)
(***************************************************************************)
EXTENDS Naturals, Sequences, Maps

CONSTANTS
  Clients,    (* the clientOrderIds of the strategies' orders, each used once *)
  NoClient    (* the empty clientOrderId                                      *)

ASSUME ClientsAssumption == NoClient \notin Clients

(* The empty cloid; generateCloid numbers the others 1, 2, ...             *)
NoCloid == 0

(* OrderState.  stamped: createdAt has been set.                           *)
NewState == [origSz |-> 0, cumQty |-> 0, requestedQty |-> 0, isIoc |-> FALSE,
             stamped |-> FALSE]

-----------------------------------------------------------------------------
LookupClientOrderId(s, cloid) ==
  IF cloid \in DOMAIN s.cloidToClient THEN s.cloidToClient[cloid] ELSE NoClient

LookupCloidByOid(s, oid) ==
  IF oid \in DOMAIN s.oidToCloid THEN s.oidToCloid[oid] ELSE NoCloid

LookupClientOrderIdByOid(s, oid) == LookupClientOrderId(s, LookupCloidByOid(s, oid))

(* m_cloidToState[cloid], which creates the entry if there is none.        *)
StateOf(s, cloid) ==
  IF cloid \in DOMAIN s.cloidToState THEN s.cloidToState[cloid] ELSE NewState

SetState(s, cloid, state) ==
  [s EXCEPT !.cloidToState = Put(s.cloidToState, cloid, state)]

(* What onNewOrder enters for an order it is about to place.               *)
AddOrder(s, client, cloid, qty, ioc) ==
  [s EXCEPT
     !.clientToCloid = Put(s.clientToCloid, client, cloid),
     !.cloidToClient = Put(s.cloidToClient, cloid, client),
     !.cloidToAsset = s.cloidToAsset \cup {cloid},
     !.cloidToState = Put(s.cloidToState, cloid,
                          [StateOf(s, cloid) EXCEPT !.requestedQty = qty,
                                                    !.isIoc = ioc, !.stamped = TRUE])]

(* What onAmendOrder enters, before the exchange has accepted the amend.   *)
EnterAmend(s, cloid, qty, ioc) ==
  SetState(s, cloid, [StateOf(s, cloid) EXCEPT !.requestedQty = qty,
                                               !.isIoc = ioc, !.stamped = TRUE])

RegisterOid(s, oid, cloid) == [s EXCEPT !.oidToCloid = Put(s.oidToCloid, oid, cloid)]

(* setActiveOid; the mutant has the two ids in the wrong order.            *)
SetActiveCloid(s, oid, cloid) ==
  [RegisterOid(s, oid, cloid) EXCEPT !.cloidToOid = Put(s.cloidToOid, oid, cloid)]

SetActiveOid(s, oid, cloid) ==
  [RegisterOid(s, oid, cloid) EXCEPT !.cloidToOid = Put(s.cloidToOid, cloid, oid)]

(* The mutant takes every update for the active one.                       *)
AnyOidActive(s, oid, cloid) == TRUE

IsActiveOid(s, oid, cloid) ==
  cloid \in DOMAIN s.cloidToOid => s.cloidToOid[cloid] = oid

(* A new exchange order begins: the larger of the strategy's quantity and  *)
(* the exchange's, nothing filled.  The mutant keeps the quantity filled   *)
(* before an amend.                                                        *)
Larger(a, b) == IF a > b THEN a ELSE b

KeepCumQty(s, cloid, origSz) ==
  LET state == StateOf(s, cloid)
  IN  SetState(s, cloid, [state EXCEPT !.origSz = Larger(state.requestedQty, origSz)])

InitOrderState(s, cloid, origSz) ==
  LET state == StateOf(s, cloid)
  IN  SetState(s, cloid, [state EXCEPT !.origSz = Larger(state.requestedQty, origSz),
                                       !.cumQty = 0])

ApplyFill(s, cloid, sz) ==
  SetState(s, cloid, [StateOf(s, cloid) EXCEPT !.cumQty = @ + sz])

(* removeOrder, for a set of orders at once.  The mutant (ForgetCloids)    *)
(* leaves the clientOrderId behind.                                        *)
ForgetExchangeIds(s, cloids) ==
  [s EXCEPT
     !.oidToCloid = Erase(@, {oid \in DOMAIN @ : @[oid] \in cloids}),
     !.cloidToOid = Erase(@, cloids),
     !.cloidToAsset = @ \ cloids,
     !.cloidToState = Erase(@, cloids)]

ForgetCloids(s, cloids) ==
  [ForgetExchangeIds(s, cloids) EXCEPT !.cloidToClient = Erase(@, cloids)]

RemoveOrders(s, cloids) ==
  [ForgetExchangeIds(s, cloids) EXCEPT
     !.clientToCloid = Erase(@, {s.cloidToClient[x] : x \in cloids \cap DOMAIN s.cloidToClient}),
     !.cloidToClient = Erase(@, cloids)]

RemoveOrder(s, cloid) == RemoveOrders(s, {cloid})

(* The orders sweepIocTimeouts looks at; how old they are is up to it.     *)
SweptOrders(s) ==
  {cloid \in DOMAIN s.cloidToState :
     s.cloidToState[cloid].isIoc /\ s.cloidToState[cloid].stamped}
=============================================================================
