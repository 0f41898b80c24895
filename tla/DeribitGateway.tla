--------------------------- MODULE DeribitGateway ---------------------------
(***************************************************************************)
(* The Deribit gateway with its clients, the market data process, the      *)
(* exchange, and the failures of the link and of the process.              *)
(***************************************************************************)
EXTENDS DeribitGWApplication

CONSTANTS MaxCrashes, MaxLosses  (* bounds: crashes, and lost connections   *)

ASSUME DeribitGatewayAssumption == MaxCrashes \in Nat /\ MaxLosses \in Nat

VARIABLES
  book,     (* the exchange's orders: none, live or over                    *)
  crashes,  (* crashes so far, with the messages sent that lead to one      *)
  losses    (* connections lost so far                                      *)

gatewayVars == <<runnerVars, running, linkVars, loggedOn, mutex, fix, told>>

vars == <<gatewayVars, book, crashes, losses>>

Init ==
  /\ ApplicationInit
  /\ book = [o \in Orders |-> "none"]
  /\ crashes = 0 /\ losses = 0

-----------------------------------------------------------------------------
(* The exchange answers the requests of a session in turn.  A cancel is    *)
(* answered with two execution reports, the second of ExecType CANCELED;   *)
(* an amend or a cancel may be refused, whatever the reason.               *)
Report(order, status, re) ==
  [type |-> "report", status |-> status, second |-> FALSE, order |-> order, re |-> re]

SecondReport(order, re) == [Report(order, "CANCELLED", re) EXCEPT !.second = TRUE]

CancelReject(re) == [type |-> "cancelReject", re |-> re]

Answers(r, messages, state) ==
  /\ fromExchange' = fromExchange \o messages
  /\ book' = [book EXCEPT ![r.order] = state]

IsNext(r) == toExchange # <<>> /\ r = Head(toExchange)

ExchangeAnswers ==
  \E r \in Requests :
    /\ IsNext(r)
    /\ \/ /\ r.kind = "NewOrder"
          /\ \/ Answers(r, <<Report(r.order, "NEW", r)>>, "live")
             \/ Answers(r, <<Report(r.order, "REJECTED", r)>>, "over")
       \/ /\ r.kind = "AmendOrder" /\ book[r.order] = "live"
          /\ Answers(r, <<Report(r.order, "REPLACED", r)>>, "live")
       \/ /\ r.kind = "CancelOrder" /\ book[r.order] = "live"
          /\ Answers(r, <<Report(r.order, "CANCELLED", r), SecondReport(r.order, r)>>, "over")
       \/ /\ r.kind # "NewOrder"
          /\ Answers(r, <<CancelReject(r)>>, book[r.order])
    /\ toExchange' = Tail(toExchange)
    /\ UNCHANGED <<runnerVars, running, session, loggedOn, mutex, fix, told, crashes, losses>>

(* It may also answer with a message the gateway cannot take.              *)
ExchangeAnswersOddly ==
  \E r \in Requests :
    /\ IsNext(r)
    /\ crashes < MaxCrashes
    /\ \/ Answers(r, <<[type |-> "other", re |-> r]>>, book[r.order])
       \/ /\ r.kind = "NewOrder"
          /\ Answers(r, <<[Report(r.order, "REJECTED", r) EXCEPT !.type = "unnamed"]>>, "over")
    /\ crashes' = crashes + 1
    /\ toExchange' = Tail(toExchange)
    /\ UNCHANGED <<runnerVars, running, session, loggedOn, mutex, fix, told, losses>>

(* A live order is filled; the report goes to the session there is.        *)
Fill(order) ==
  /\ book[order] = "live"
  /\ book' = [book EXCEPT ![order] = "over"]
  /\ fromExchange' = IF session = "up"
                     THEN Append(fromExchange, Report(order, "FILLED", NoRequest))
                     ELSE fromExchange
  /\ UNCHANGED <<runnerVars, running, session, toExchange, loggedOn, mutex, fix, told,
                 crashes, losses>>

-----------------------------------------------------------------------------
(* The connection is lost with all that is under way, at first unnoticed.  *)
LinkBreaks ==
  /\ session = "up" /\ losses < MaxLosses
  /\ losses' = losses + 1
  /\ session' = "broken"
  /\ toExchange' = <<>> /\ fromExchange' = <<>>
  /\ told' = [told EXCEPT !.lost = @ \cup Pending]
  /\ UNCHANGED <<runnerVars, running, loggedOn, mutex, fix, book, crashes>>

(* The process is killed, ...                                              *)
Crash ==
  /\ running /\ crashes < MaxCrashes
  /\ crashes' = crashes + 1
  /\ Dies
  /\ UNCHANGED <<book, losses>>

(* ... and started again: the queues are read from their beginning.        *)
Restart ==
  /\ ~running
  /\ running' = TRUE
  /\ RunnerRestarted
  /\ UNCHANGED <<mdQueue, inQueue, linkVars, loggedOn, mutex, fix, told, book, crashes, losses>>

-----------------------------------------------------------------------------
MainThread == MainStep /\ UNCHANGED <<book, crashes, losses>>

FixThread == FixStep /\ UNCHANGED <<book, crashes, losses>>

Environment ==
  /\ \/ \E id \in SecurityIds : Publish(id)
     \/ \E r \in Requests : WriteRequest(r)
  /\ UNCHANGED <<running, linkVars, loggedOn, mutex, fix, told, book, crashes, losses>>

Next ==
  \/ MainThread
  \/ FixThread
  \/ OnLogon /\ UNCHANGED <<book, crashes, losses>>
  \/ ExchangeAnswers
  \/ ExchangeAnswersOddly
  \/ \E o \in Orders : Fill(o)
  \/ LinkBreaks
  \/ Crash
  \/ Restart
  \/ Environment

Spec == Init /\ [][Next]_vars

(* Both threads run, and the exchange answers what it receives.            *)
FairSpec == Spec /\ WF_vars(MainThread) /\ WF_vars(FixThread) /\ WF_vars(ExchangeAnswers)

-----------------------------------------------------------------------------
QueuesTypeOK ==
  /\ mdQueue \in Seq(Definitions) /\ mdRead \in 0 .. Len(mdQueue)
  /\ inQueue \in Seq(Requests) /\ inRead \in 0 .. Len(inQueue)
  /\ isReplay \in BOOLEAN

MainTypeOK ==
  /\ main = [at |-> main.at, request |-> main.request]
  /\ \/ main.at \in Loop /\ main.request = NoRequest
     \/ main.at \in {"sending", "rejecting", "writing"} /\ main.request \in Requests

LinkTypeOK ==
  /\ running \in BOOLEAN /\ loggedOn \in BOOLEAN /\ session \in {"up", "broken", "down"}
  /\ loggedOn <=> session # "down"
  /\ toExchange \in Seq(Requests) /\ fromExchange \in Seq(Messages)

WriterTypeOK ==
  /\ mutex \in {"free", "main", "fix"} /\ fix \in Messages \cup {NoMessage}
  /\ mutex = "main" <=> main.at = "writing"
  /\ mutex = "fix" <=> fix # NoMessage

ToldTypeOK ==
  /\ told = [ends |-> told.ends, answered |-> told.answered, sent |-> told.sent, lost |-> told.lost]
  /\ told.ends \in [Orders -> Nat] /\ told.sent \in [Requests -> Nat]
  /\ told.answered \subseteq Requests /\ told.lost \subseteq Requests

ExchangeTypeOK ==
  /\ book \in [Orders -> {"none", "live", "over"}]
  /\ crashes \in 0 .. MaxCrashes /\ losses \in 0 .. MaxLosses

(* Every variable has its type, and the mutex is held by the thread that   *)
(* is between prepareMessage and writeMessage, and by no other.            *)
TypeOK ==
  QueuesTypeOK /\ MainTypeOK /\ LinkTypeOK /\ WriterTypeOK /\ ToldTypeOK /\ ExchangeTypeOK

(* No request is handed to the session twice, although the inbound queue   *)
(* is read from its beginning by every process: what an earlier one read   *)
(* is replayed, and nothing else comes before it.                          *)
SentOnce == \A r \in Requests : told.sent[r] <= 1

OnItsWay(o) == \E i \in 1 .. Len(toExchange) : toExchange[i].kind = "NewOrder" /\ toExchange[i].order = o

(* An order that a client was told is over does not live at the exchange   *)
(* and is not on its way there: neither a refused order, which the gateway *)
(* itself reports rejected, nor one whose amend or cancel was refused.     *)
NoOrphans ==
  \A o \in Orders : told.ends[o] > 0 => book[o] # "live" /\ ~OnItsWay(o)

(* An order is reported over at most once: rejected by the gateway or by   *)
(* the exchange, filled, or cancelled with two reports of the exchange.    *)
SingleEnd == \A o \in Orders : told.ends[o] <= 1

(* A request that the gateway sets out to send or to reject is answered,   *)
(* unless the link or the process fails on it: no thread ever waits for    *)
(* good for the writer's mutex.                                            *)
EveryRequestAnswered ==
  \A r \in Requests : main.request = r ~> r \in told.answered \cup told.lost
=============================================================================
