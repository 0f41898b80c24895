------------------------ MODULE HyperliquidExchange ------------------------
(***************************************************************************)
(* The Hyperliquid exchange and the websocket to it, as the gateway relies *)
(* on them.  Its code is not in the repository: what it can send is taken  *)
(* from what the gateway's callbacks distinguish.                          *)
(*                                                                         *)
(* An order is known by the cloid the gateway gave it; the exchange gives  *)
(* it an oid, and a new one when it is modified.  Every accepted order is  *)
(* announced by an Open update; after a modification the Open of the new   *)
(* oid comes before the Canceled of the old one, which the gateway then    *)
(* takes for stale.                                                        *)
(***************************************************************************)
EXTENDS Naturals, Sequences

CONSTANTS
  Cloids,      (* the cloids the gateway can generate                       *)
  Quantities,  (* order quantities; a fill is of quantity 1                 *)
  FillsFirst   (* is a fill never delivered later than an order update that *)
               (* the exchange produced after it?                           *)

ASSUME ExchangeAssumption ==
  /\ Cloids \subseteq Nat \ {0}
  /\ Quantities \subseteq Nat \ {0}
  /\ FillsFirst \in BOOLEAN

VARIABLES
  link,        (* is the websocket up?                                      *)
  requests,    (* requests on their way to the exchange                     *)
  responses,   (* responses on their way to the gateway                     *)
  stream,      (* order updates and fills on their way, in the order in     *)
               (* which the exchange produced them                          *)
  book,        (* the exchange's view of each order                         *)
  nextOid

exchangeVars == <<link, requests, responses, stream, book, nextOid>>

Request == [kind : {"place", "modify", "cancel"}, corr : Nat, cloid : Cloids,
            qty : Quantities \cup {0}, ioc : BOOLEAN]

(* "ok"; "failed": the status is not ok and there are no statuses;         *)
(* "error": the one status in the response is an error.                    *)
Response == [kind : {"place", "modify", "cancel"}, corr : Nat,
             result : {"ok", "failed", "error"}]

Update == [type : {"update"}, status : {"Open", "Filled", "Canceled", "Rejected"},
           oid : Nat, cloid : Cloids, origSz : Nat]

Fill == [type : {"fill"}, oid : Nat, cloid : Cloids]

Unknown == [state |-> "unknown", oid |-> 0, left |-> 0, done |-> 0, ioc |-> FALSE,
            filled |-> 0]

(* left and done: the quantity left and filled of the current oid; filled: *)
(* what was filled of the order under all its oids.                        *)
BookEntry == [state : {"unknown", "live", "ended"}, oid : Nat, left : Nat,
              done : Nat, ioc : BOOLEAN, filled : Nat]

ExchangeTypeOK ==
  /\ link \in BOOLEAN
  /\ requests \in Seq(Request)
  /\ responses \subseteq Response
  /\ stream \in Seq(Update \cup Fill)
  /\ book \in [Cloids -> BookEntry]
  /\ nextOid \in Nat

ExchangeInit ==
  /\ link = FALSE
  /\ requests = <<>>
  /\ responses = {}
  /\ stream = <<>>
  /\ book = [cloid \in Cloids |-> Unknown]
  /\ nextOid = 1

-----------------------------------------------------------------------------
Updated(cloid, oid, status, qty) ==
  [type |-> "update", status |-> status, oid |-> oid, cloid |-> cloid, origSz |-> qty]

FillOf(cloid, oid) == [type |-> "fill", oid |-> oid, cloid |-> cloid]

(* What the exchange produces while the websocket is down is lost.         *)
Produces(events) == stream' = IF link THEN stream \o events ELSE stream

Answers(request, result) ==
  responses' = responses \cup {[kind |-> request.kind, corr |-> request.corr, result |-> result]}

IsNext(kind) == requests # <<>> /\ Head(requests).kind = kind

AcceptPlace ==
  /\ IsNext("place")
  /\ LET r == Head(requests)
     IN  /\ book' = [book EXCEPT ![r.cloid] =
                       [state |-> "live", oid |-> nextOid, left |-> r.qty, done |-> 0,
                        ioc |-> r.ioc, filled |-> 0]]
         /\ Produces(<<Updated(r.cloid, nextOid, "Open", r.qty)>>)
         /\ Answers(r, "ok")
  /\ nextOid' = nextOid + 1
  /\ requests' = Tail(requests)
  /\ UNCHANGED link

(* A rejected order is reported in the response, and may be in an update.  *)
RejectPlace ==
  /\ IsNext("place")
  /\ LET r == Head(requests)
     IN  /\ book' = [book EXCEPT ![r.cloid].state = "ended"]
         /\ \/ Produces(<<Updated(r.cloid, nextOid, "Rejected", r.qty)>>)
            \/ Produces(<<>>)
         /\ \E result \in {"failed", "error"} : Answers(r, result)
  /\ nextOid' = nextOid + 1
  /\ requests' = Tail(requests)
  /\ UNCHANGED link

AcceptModify ==
  /\ IsNext("modify")
  /\ LET r == Head(requests)
         old == book[r.cloid]
     IN  /\ old.state = "live"
         /\ book' = [book EXCEPT ![r.cloid] =
                       [@ EXCEPT !.oid = nextOid, !.left = r.qty, !.done = 0, !.ioc = r.ioc]]
         /\ Produces(<<Updated(r.cloid, nextOid, "Open", r.qty),
                       Updated(r.cloid, old.oid, "Canceled", old.left + old.done)>>)
         /\ Answers(r, "ok")
  /\ nextOid' = nextOid + 1
  /\ requests' = Tail(requests)
  /\ UNCHANGED link

RejectModify ==
  /\ IsNext("modify")
  /\ \E result \in {"failed", "error"} : Answers(Head(requests), result)
  /\ requests' = Tail(requests)
  /\ UNCHANGED <<link, stream, book, nextOid>>

(* An order ends; the update names its size.                               *)
Ends(cloid, status) ==
  /\ book' = [book EXCEPT ![cloid].state = "ended"]
  /\ Produces(<<Updated(cloid, book[cloid].oid, status, book[cloid].left + book[cloid].done)>>)

AcceptCancel ==
  /\ IsNext("cancel")
  /\ LET r == Head(requests)
     IN  /\ book[r.cloid].state = "live"
         /\ Ends(r.cloid, "Canceled")
         /\ Answers(r, "ok")
  /\ requests' = Tail(requests)
  /\ UNCHANGED <<link, nextOid>>

RejectCancel ==
  /\ IsNext("cancel")
  /\ book[Head(requests).cloid].state # "live"
  /\ \E result \in {"failed", "error"} : Answers(Head(requests), result)
  /\ requests' = Tail(requests)
  /\ UNCHANGED <<link, stream, book, nextOid>>

(* One unit of an order trades; the last one ends it.                      *)
Trade(cloid) ==
  /\ book[cloid].state = "live"
  /\ LET b == book[cloid]
         over == b.left = 1
     IN  /\ book' = [book EXCEPT ![cloid] =
                       [b EXCEPT !.left = @ - 1, !.done = @ + 1, !.filled = @ + 1,
                                 !.state = IF over THEN "ended" ELSE "live"]]
         /\ Produces(<<FillOf(cloid, b.oid)>> \o
                     (IF over THEN <<Updated(cloid, b.oid, "Filled", b.left + b.done)>> ELSE <<>>))
  /\ UNCHANGED <<link, requests, responses, nextOid>>

(* What is left of an IOC order is given up: Filled if something traded,   *)
(* IocCancelRejected otherwise.                                            *)
IocGivenUp(cloid) ==
  /\ book[cloid].state = "live" /\ book[cloid].ioc
  /\ Ends(cloid, IF book[cloid].done > 0 THEN "Filled" ELSE "Rejected")
  /\ UNCHANGED <<link, requests, responses, nextOid>>

(* MarginCanceled and the like.                                            *)
ExchangeCancels(cloid) ==
  /\ book[cloid].state = "live"
  /\ Ends(cloid, "Canceled")
  /\ UNCHANGED <<link, requests, responses, nextOid>>

(* The exchange handles the next request.                                  *)
HandleRequest ==
  \/ AcceptPlace \/ RejectPlace
  \/ AcceptModify \/ RejectModify
  \/ AcceptCancel \/ RejectCancel

ExchangeNext ==
  \/ HandleRequest
  \/ \E cloid \in Cloids : Trade(cloid) \/ IocGivenUp(cloid) \/ ExchangeCancels(cloid)

-----------------------------------------------------------------------------
(* Which of the events on their way can be delivered next: order updates   *)
(* come in their order, fills come in theirs, and a fill may come early.   *)
FirstOf(type, i) ==
  /\ stream[i].type = type
  /\ \A j \in 1 .. i - 1 : stream[j].type # type

Deliverable(i) ==
  \/ FirstOf("fill", i)
  \/ FirstOf("update", i) /\ (FillsFirst => i = 1)
=============================================================================
