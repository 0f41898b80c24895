------------------------ MODULE DeribitGWApplication ------------------------
(***************************************************************************)
(* DeribitGWApplication and DeribitOrdersHandler: the callbacks of         *)
(* QuickFIX's thread and the handlers of the main thread, which share the  *)
(* FIX session, the flag m_loggedOn and the writer of the outbound queue.  *)
(*                                                                         *)
(* The gateway keeps no state of an order.  What its clients were told,    *)
(* and what became of each request, is recorded in `told'.                 *)
(***************************************************************************)
EXTENDS GWRunner

VARIABLES
  running,       (* the process is up                                       *)
  session,       (* the FIX session: up, broken (the connection is lost,    *)
                 (* and onLogout not called yet) or down                    *)
  loggedOn,      (* m_loggedOn                                              *)
  mutex,         (* the writer's mutex: free, or who holds it               *)
  fix,           (* the message QuickFIX's thread writes a report of        *)
  toExchange,    (* requests under way                                      *)
  fromExchange,  (* messages on their way back                              *)
  told           (* [ends, answered, sent, lost]: how often each order was  *)
                 (* reported over; the requests answered; how often each    *)
                 (* was handed to QuickFIX; those cut off by a failure      *)

runnerVars == <<mdQueue, mdRead, inQueue, inRead, ref, isReplay, main>>

linkVars == <<session, toExchange, fromExchange>>

NoMessage == [type |-> "none"]

Statuses == {"NEW", "REPLACED", "FILLED", "CANCELLED", "REJECTED"}

Messages ==
  [type : {"report", "unnamed"}, status : Statuses, second : BOOLEAN,
   order : Orders, re : Requests \cup {NoRequest}]
  \cup [type : {"cancelReject", "other"}, re : Requests]

NothingTold ==
  [ends |-> [o \in Orders |-> 0], answered |-> {}, sent |-> [r \in Requests |-> 0], lost |-> {}]

InHand == IF main.request = NoRequest THEN {} ELSE {main.request}

(* What a failure of the link or the process leaves without an answer.     *)
Pending == {r \in Requests : told.sent[r] > 0} \ told.answered

ApplicationInit ==
  /\ RunnerStarted
  /\ mdQueue = <<>> /\ inQueue = <<>>
  /\ running = TRUE
  /\ session = "down" /\ loggedOn = FALSE
  /\ mutex = "free" /\ fix = NoMessage
  /\ toExchange = <<>> /\ fromExchange = <<>>
  /\ told = NothingTold

-----------------------------------------------------------------------------
(* The writer: prepareMessage locks the mutex, writeMessage unlocks it.    *)
MutexIgnored == TRUE

MutexFree == mutex = "free"

(* A report with one of these statuses tells a client that its order is    *)
(* over.                                                                   *)
Final == {"FILLED", "CANCELLED", "REJECTED"}

Reported(t, order, status, re) ==
  [t EXCEPT !.ends[order] = IF status \in Final THEN @ + 1 ELSE @,
            !.answered = @ \cup ({re} \ {NoRequest})]

-----------------------------------------------------------------------------
(* DeribitOrdersHandler, on the main thread.  A request is skipped in the  *)
(* replay and ignored when its security is not known.  sendMessage reads   *)
(* m_loggedOn; the caller deals with a refusal, which leads to `onRefusal',*)
(* as with a field of an order or an amend whose conversion throws.        *)
Takes(onRefusal) ==
  LET r == NextRequest
      sending == {[at |-> "sending", request |-> r]}
  IN  main' \in IF isReplay \/ r.security \notin DOMAIN ref.defs THEN {main}
               ELSE IF ~loggedOn THEN {onRefusal}
               ELSE IF r.kind = "CancelOrder" THEN sending ELSE sending \cup {onRefusal}

Rejecting(r) == [at |-> "rejecting", request |-> r]

Handles(kind) ==
  /\ PollsRequest
  /\ NextRequest.kind = kind
  /\ UNCHANGED <<running, linkVars, loggedOn, mutex, fix, told>>

OnNewOrder == Handles("NewOrder") /\ Takes(Rejecting(NextRequest))

(* A refused amend is only logged.                                         *)
OnAmendOrder == Handles("AmendOrder") /\ Takes(main)

OnCancelOrder == Handles("CancelOrder") /\ Takes(Rejecting(NextRequest))

(* sendToTarget: a session that is not up any more stores the message, and *)
(* as sequence numbers start again at the next logon it is never sent.     *)
SendToTarget ==
  /\ main.at = "sending"
  /\ toExchange' = IF session = "up" THEN Append(toExchange, main.request) ELSE toExchange
  /\ told' = [told EXCEPT !.sent[main.request] = @ + 1,
                          !.lost = IF session = "up" THEN @ ELSE @ \cup {main.request}]
  /\ main' = At("poll in")
  /\ UNCHANGED <<mdQueue, mdRead, inQueue, inRead, ref, isReplay,
                 running, session, fromExchange, loggedOn, mutex, fix>>

(* sendNewOrderReject and sendCancelReject                                 *)
PrepareReject ==
  /\ main.at = "rejecting"
  /\ MutexFree
  /\ mutex' = "main"
  /\ main' = [main EXCEPT !.at = "writing"]
  /\ UNCHANGED <<mdQueue, mdRead, inQueue, inRead, ref, isReplay,
                 running, linkVars, loggedOn, fix, told>>

(* The mutant answers a cancel the way it answers an order.                *)
RejectOfOrder(r) == Reported(told, r.order, "REJECTED", r)

RejectOf(r) ==
  IF r.kind = "NewOrder"
  THEN Reported(told, r.order, "REJECTED", r)
  ELSE [told EXCEPT !.answered = @ \cup {r}]

WriteReject ==
  /\ main.at = "writing"
  /\ told' = RejectOf(main.request)
  /\ mutex' = "free"
  /\ main' = At("poll in")
  /\ UNCHANGED <<mdQueue, mdRead, inQueue, inRead, ref, isReplay, running, linkVars, loggedOn, fix>>

-----------------------------------------------------------------------------
(* QuickFIX's thread.                                                      *)
OnLogon ==
  /\ running /\ session = "down"
  /\ session' = "up" /\ loggedOn' = TRUE
  /\ UNCHANGED <<runnerVars, running, toExchange, fromExchange, mutex, fix, told>>

OnLogout ==
  /\ session = "broken" /\ fix = NoMessage
  /\ session' = "down" /\ loggedOn' = FALSE
  /\ UNCHANGED <<runnerVars, running, toExchange, fromExchange, mutex, fix, told>>

Dies ==
  /\ running' = FALSE
  /\ session' = "down" /\ loggedOn' = FALSE
  /\ toExchange' = <<>> /\ fromExchange' = <<>>
  /\ mutex' = "free" /\ fix' = NoMessage
  /\ main' = At("replay md")
  /\ told' = [told EXCEPT !.lost = @ \cup ((Pending \cup InHand) \ told.answered)]
  /\ UNCHANGED <<mdQueue, mdRead, inQueue, inRead, ref, isReplay>>

Received == Head(fromExchange)

Receives ==
  /\ fix = NoMessage
  /\ fromExchange # <<>>

(* onMessage(ExecutionReport) returns on the second report of a cancel     *)
(* (the mutant looks at ExecType after prepareMessage), ...                *)
NeverDropped(msg) == FALSE

IsDropped(msg) == msg.type = "report" /\ msg.second

DropPrepared ==
  /\ Receives /\ IsDropped(Received) /\ MutexFree
  /\ mutex' = "fix"
  /\ fromExchange' = Tail(fromExchange)
  /\ UNCHANGED <<runnerVars, running, session, toExchange, loggedOn, fix, told>>

DropReport ==
  /\ Receives /\ IsDropped(Received)
  /\ fromExchange' = Tail(fromExchange)
  /\ UNCHANGED <<runnerVars, running, session, toExchange, loggedOn, mutex, fix, told>>

(* ... and prepares a report of any other; OrderCancelReject alike.        *)
PrepareReport ==
  /\ Receives
  /\ Received.type \in {"report", "cancelReject", "unnamed"} /\ ~IsDropped(Received)
  /\ MutexFree
  /\ mutex' = "fix"
  /\ fix' = Received
  /\ fromExchange' = Tail(fromExchange)
  /\ UNCHANGED <<runnerVars, running, session, toExchange, loggedOn, told>>

(* convertExecutionReport and convertOrderCancelReject, and writeMessage   *)
WriteReport ==
  /\ fix.type \in {"report", "cancelReject"}
  /\ told' = IF fix.type = "report"
             THEN Reported(told, fix.order, fix.status, fix.re)
             ELSE [told EXCEPT !.answered = @ \cup {fix.re}]
  /\ mutex' = "free" /\ fix' = NoMessage
  /\ UNCHANGED <<runnerVars, running, linkVars, loggedOn>>

(* fromApp is noexcept: a message of another type, which crack throws on,  *)
(* and a report without OrigClOrdID, which the conversion throws on, end   *)
(* the process.                                                            *)
Terminate ==
  /\ \/ Receives /\ Received.type = "other"
     \/ fix.type = "unnamed"
  /\ Dies

-----------------------------------------------------------------------------
(* A loop of the main thread and one of QuickFIX's thread.                 *)
MainStep ==
  /\ running
  /\ \/ PollMarketData /\ UNCHANGED <<running, linkVars, loggedOn, mutex, fix, told>>
     \/ PollsNothing /\ UNCHANGED <<running, linkVars, loggedOn, mutex, fix, told>>
     \/ OnNewOrder
     \/ OnAmendOrder
     \/ OnCancelOrder
     \/ SendToTarget
     \/ PrepareReject
     \/ WriteReject

FixStep == DropReport \/ PrepareReport \/ WriteReport \/ Terminate \/ OnLogout
=============================================================================
