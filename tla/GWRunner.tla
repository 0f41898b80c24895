------------------------------ MODULE GWRunner ------------------------------
(***************************************************************************)
(* GWRunner: the main loop of a gateway.  It first replays both queues,    *)
(* market data and inbound orders, with m_isReplay set, and then polls     *)
(* them in turn, each until it is empty.  The orders handler is the        *)
(* listener of both: definitions go to its RefDataHolder, orders to the    *)
(* exchange.                                                               *)
(*                                                                         *)
(* A queue delivers what was written, in order (SBEQueue); it is the       *)
(* sequence of its messages and the number of those read.                  *)
(***************************************************************************)
EXTENDS RefDataHolder, Naturals, Sequences

CONSTANTS
  SecurityIds,  (* the securities that may be defined                       *)
  Requests,     (* the orders clients write, as [kind, order, security]     *)
  MaxMd         (* bound: messages on the market data queue                 *)

Kinds == {"NewOrder", "AmendOrder", "CancelOrder"}

Orders == {r.order : r \in Requests}

ASSUME GWRunnerAssumption ==
  /\ \A r \in Requests : r = [kind |-> r.kind, order |-> r.order, security |-> r.security]
  /\ \A r \in Requests : r.kind \in Kinds /\ r.security \in SecurityIds
  /\ \A r, s \in Requests :
       r.kind = "NewOrder" /\ s.kind = "NewOrder" /\ r.order = s.order => r = s
  /\ MaxMd \in Nat

Definitions == [action : {"ADD", "REMOVE"}, id : SecurityIds]

VARIABLES
  mdQueue, mdRead,  (* the market data queue, and how much of it was read   *)
  inQueue, inRead,  (* the inbound queue                                    *)
  ref,              (* RefDataHolder                                        *)
  isReplay,         (* m_isReplay                                           *)
  main              (* where the main thread is, and the request in hand    *)

NoRequest == [kind |-> "none"]

At(pos) == [at |-> pos, request |-> NoRequest]

Loop == {"replay md", "replay in", "poll md", "poll in"}

RunnerStarted ==
  /\ mdRead = 0 /\ inRead = 0
  /\ ref = NothingHeard
  /\ isReplay = TRUE
  /\ main = At("replay md")

RunnerRestarted ==
  /\ mdRead' = 0 /\ inRead' = 0
  /\ ref' = NothingHeard
  /\ isReplay' = TRUE
  /\ main' = At("replay md")

-----------------------------------------------------------------------------
(* RefDataHolder on one message of the market data queue; an id stands for *)
(* the symbols of its security as well.                                    *)
OnSecurityDefinition(h, msg) ==
  IF msg.action = "ADD"
  THEN HearAdds(h, [i \in {msg.id} |-> [symbol |-> i, marketSymbol |-> i]])
  ELSE HearRemove(h, {msg.id})

(* while (m_mdPoller->next()), in the replay and in the loop               *)
(* (the mutant ends the replay when this queue is empty).                  *)
PollMarketDataThenLive ==
  /\ main.at \in {"replay md", "poll md"}
  /\ IF mdRead < Len(mdQueue)
     THEN /\ mdRead' = mdRead + 1
          /\ ref' = OnSecurityDefinition(ref, mdQueue[mdRead + 1])
          /\ UNCHANGED <<main, isReplay>>
     ELSE /\ main' = At("poll in")
          /\ isReplay' = FALSE
          /\ UNCHANGED <<mdRead, ref>>
  /\ UNCHANGED <<mdQueue, inQueue, inRead>>

PollMarketData ==
  /\ main.at \in {"replay md", "poll md"}
  /\ IF mdRead < Len(mdQueue)
     THEN /\ mdRead' = mdRead + 1
          /\ ref' = OnSecurityDefinition(ref, mdQueue[mdRead + 1])
          /\ UNCHANGED main
     ELSE /\ main' = At(IF main.at = "replay md" THEN "replay in" ELSE "poll in")
          /\ UNCHANGED <<mdRead, ref>>
  /\ UNCHANGED <<mdQueue, inQueue, inRead, isReplay>>

(* while (m_gwInPoller->next()) finds the next order, ...                  *)
NextRequest == inQueue[inRead + 1]

PollsRequest ==
  /\ main.at \in {"replay in", "poll in"}
  /\ inRead < Len(inQueue)
  /\ inRead' = inRead + 1
  /\ UNCHANGED <<mdQueue, mdRead, inQueue, ref, isReplay>>

(* ... or none: the replay is over, or the loop starts again.              *)
PollsNothing ==
  /\ main.at \in {"replay in", "poll in"}
  /\ inRead = Len(inQueue)
  /\ isReplay' = FALSE
  /\ main' = At("poll md")
  /\ UNCHANGED <<mdQueue, mdRead, inQueue, inRead, ref>>

-----------------------------------------------------------------------------
(* The other ends of the queues.  The market data process defines and      *)
(* withdraws securities; a client orders what it has a definition of, and  *)
(* amends and cancels what it has ordered.                                 *)
Published(id) ==
  \E i \in 1 .. Len(mdQueue) :
    /\ mdQueue[i] = [action |-> "ADD", id |-> id]
    /\ \A j \in i + 1 .. Len(mdQueue) : mdQueue[j].id # id

Publish(id) ==
  /\ Len(mdQueue) < MaxMd
  /\ mdQueue' = Append(mdQueue, [action |-> IF Published(id) THEN "REMOVE" ELSE "ADD", id |-> id])
  /\ UNCHANGED <<mdRead, inQueue, inRead, ref, isReplay, main>>

Written(r) == \E i \in 1 .. Len(inQueue) : inQueue[i] = r

WriteRequest(r) ==
  /\ ~Written(r)
  /\ IF r.kind = "NewOrder"
     THEN Published(r.security)
     ELSE \E n \in Requests : n.kind = "NewOrder" /\ n.order = r.order /\ Written(n)
  /\ inQueue' = Append(inQueue, r)
  /\ UNCHANGED <<mdQueue, mdRead, inRead, ref, isReplay, main>>
=============================================================================
