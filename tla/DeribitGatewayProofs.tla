------------------------ MODULE DeribitGatewayProofs ------------------------
(***************************************************************************)
(* Proofs about DeribitGateway: the types, and the three safety            *)
(* properties, for any requests, losses and crashes.                       *)
(*                                                                         *)
(* That nothing is sent twice rests on the inbound queue alone: whatever   *)
(* was sent is written, and outside the replay lies behind the reader.     *)
(* That orders end once, and none is left behind, rests on three places an *)
(* end can be in, which exclude each other: with the gateway, which        *)
(* rejected an order it never sent; in a report under way; or told.        *)
(***************************************************************************)
EXTENDS DeribitGateway, SequenceTheorems, TLAPS

(* Read by this process, or by an earlier one while the replay lasts.      *)
Read(r) == \E i \in 1 .. Len(inQueue) : inQueue[i] = r /\ (isReplay \/ i <= inRead)

(* What was sent was read, and the request in hand is neither replayed nor *)
(* sent yet.                                                               *)
QueueInv ==
  /\ \A i, j \in 1 .. Len(inQueue) : inQueue[i] = inQueue[j] => i = j
  /\ \A r \in Requests : told.sent[r] <= 1
  /\ \A r \in Requests : told.sent[r] # 0 => Read(r)
  /\ main.request \in Requests =>
       ~isReplay /\ told.sent[main.request] = 0 /\ Read(main.request)

(* Requests under way were sent, and a new order was not answered yet.     *)
LinkOK(to, orders, sent) ==
  /\ \A i \in 1 .. Len(to) : sent[to[i]] # 0
  /\ \A i, j \in 1 .. Len(to) : to[i] = to[j] => i = j
  /\ \A i \in 1 .. Len(to) : to[i].kind = "NewOrder" => orders[to[i].order] = "none"
  /\ \A r \in Requests : r.kind = "NewOrder" /\ orders[r.order] # "none" => sent[r] # 0

LinkInv == LinkOK(toExchange, book, told.sent)

(* A report that an order is over; the second one of a cancel is none.     *)
IsEnd(m) == m.type \in {"report", "unnamed"} /\ m.status \in Final /\ ~m.second

(* The ends under way, and the one being written, are of orders that are   *)
(* over and not told so, each of another one.                              *)
EndsOK(from, writing, orders, ends) ==
  /\ \A i \in 1 .. Len(from) :
       IsEnd(from[i]) => orders[from[i].order] = "over" /\ ends[from[i].order] = 0
  /\ \A i, j \in 1 .. Len(from) :
       IsEnd(from[i]) /\ IsEnd(from[j]) /\ from[i].order = from[j].order => i = j
  /\ IsEnd(writing) => orders[writing.order] = "over" /\ ends[writing.order] = 0
  /\ \A i \in 1 .. Len(from) : IsEnd(writing) /\ IsEnd(from[i]) => writing.order # from[i].order

(* The gateway has rejected an order, and will not send it.                *)
Rejected(o) ==
  \E r \in Requests :
    /\ r.kind = "NewOrder" /\ r.order = o
    /\ told.sent[r] = 0 /\ Read(r) /\ main.request # r

ToldInv ==
  /\ fix.type = "report" => ~fix.second
  /\ \A o \in Orders : told.ends[o] <= 1
  /\ \A o \in Orders : told.ends[o] # 0 => book[o] = "over" \/ Rejected(o)

EndInv == EndsOK(fromExchange, fix, book, told.ends) /\ ToldInv

(* A process that is gone holds nothing.                                   *)
IdleInv == running \/ main.at # "writing"

IInv == TypeOK /\ QueueInv /\ LinkInv /\ EndInv /\ IdleInv

-----------------------------------------------------------------------------
(* Sequences, requests and messages.                                       *)
LEMMA TailFacts ==
  ASSUME NEW S, NEW s \in Seq(S), s # <<>>
  PROVE  /\ Head(s) = s[1] /\ Head(s) \in S
         /\ Len(s) \in Nat \ {0}
         /\ Tail(s) \in Seq(S) /\ Len(Tail(s)) = Len(s) - 1
         /\ \A i \in 1 .. Len(s) - 1 : Tail(s)[i] = s[i + 1]
BY HeadTailProperties, EmptySeq, LenProperties

LEMMA AppendFacts ==
  ASSUME NEW S, NEW s \in Seq(S), NEW e \in S
  PROVE  /\ Append(s, e) \in Seq(S)
         /\ Len(s) \in Nat /\ Len(Append(s, e)) = Len(s) + 1
         /\ \A i \in 1 .. Len(s) : Append(s, e)[i] = s[i]
         /\ Append(s, e)[Len(s) + 1] = e
BY AppendProperties, LenProperties

LEMMA RequestFacts ==
  /\ NoRequest \notin Requests
  /\ \A r \in Requests :
       /\ r.kind \in Kinds /\ r.security \in SecurityIds /\ r.order \in Orders
       /\ r # NoRequest
  /\ \A r, s \in Requests :
       r.kind = "NewOrder" /\ s.kind = "NewOrder" /\ r.order = s.order => r = s
BY GWRunnerAssumption DEF NoRequest, Kinds, Orders

LEMMA NoMessageFacts == NoMessage \notin Messages /\ ~IsEnd(NoMessage) /\ NoMessage.type = "none"
BY DEF NoMessage, Messages, IsEnd

LEMMA MessageFacts ==
  ASSUME NEW m \in Messages
  PROVE  /\ m.type \in {"report", "unnamed", "cancelReject", "other"}
         /\ m.re \in Requests \cup {NoRequest}
         /\ m.type \in {"cancelReject", "other"} => m.re \in Requests
         /\ m.type \in {"report", "unnamed"} =>
              m.order \in Orders /\ m.status \in Statuses /\ m.second \in BOOLEAN
BY DEF Messages

-----------------------------------------------------------------------------
(* What the steps do to the record of what was told.                       *)
LEMMA ToldReported ==
  ASSUME ToldTypeOK, NEW r \in Requests \cup {NoRequest}, NEW o \in Orders, NEW s,
         told' = Reported(told, o, s, r)
  PROVE  /\ ToldTypeOK'
         /\ told'.sent = told.sent
         /\ told'.ends = IF s \in Final THEN [told.ends EXCEPT ![o] = @ + 1] ELSE told.ends
<1>1. told'.ends = IF s \in Final THEN [told.ends EXCEPT ![o] = @ + 1] ELSE told.ends
  BY DEF ToldTypeOK, Reported
<1>2. told'.ends \in [Orders -> Nat]
  BY <1>1 DEF ToldTypeOK
<1>3. told'.answered \subseteq Requests
  BY DEF ToldTypeOK, Reported
<1>4. told'.sent = told.sent /\ told'.lost = told.lost
  BY DEF ToldTypeOK, Reported
<1>5. told' = [ends |-> told'.ends, answered |-> told'.answered, sent |-> told'.sent, lost |-> told'.lost]
  BY DEF ToldTypeOK, Reported
<1> QED
  BY <1>1, <1>2, <1>3, <1>4, <1>5 DEF ToldTypeOK

LEMMA ToldAnswered ==
  ASSUME ToldTypeOK, NEW r \in Requests, told' = [told EXCEPT !.answered = @ \cup {r}]
  PROVE  ToldTypeOK' /\ told'.sent = told.sent /\ told'.ends = told.ends
<1>1. told'.sent = told.sent /\ told'.ends = told.ends /\ told'.lost = told.lost
  BY DEF ToldTypeOK
<1>2. told'.answered \subseteq Requests
  BY DEF ToldTypeOK
<1>3. told' = [ends |-> told'.ends, answered |-> told'.answered, sent |-> told'.sent, lost |-> told'.lost]
  BY DEF ToldTypeOK
<1> QED
  BY <1>1, <1>2, <1>3 DEF ToldTypeOK

LEMMA ToldLost ==
  ASSUME ToldTypeOK, NEW X \in SUBSET Requests, told' = [told EXCEPT !.lost = @ \cup X]
  PROVE  ToldTypeOK' /\ told'.sent = told.sent /\ told'.ends = told.ends
<1>1. told'.sent = told.sent /\ told'.ends = told.ends /\ told'.answered = told.answered
  BY DEF ToldTypeOK
<1>2. told'.lost \subseteq Requests
  BY DEF ToldTypeOK
<1>3. told' = [ends |-> told'.ends, answered |-> told'.answered, sent |-> told'.sent, lost |-> told'.lost]
  BY DEF ToldTypeOK
<1> QED
  BY <1>1, <1>2, <1>3 DEF ToldTypeOK

(* Where the main thread is.                                               *)
LEMMA MainAt ==
  ASSUME NEW pos \in Loop, main' = At(pos)
  PROVE  MainTypeOK' /\ main'.at # "writing" /\ main'.request = NoRequest
BY DEF MainTypeOK, At, Loop

LEMMA MainWith ==
  ASSUME NEW pos \in {"sending", "rejecting", "writing"}, NEW r \in Requests,
         main' = [at |-> pos, request |-> r]
  PROVE  MainTypeOK' /\ main'.at = pos /\ main'.request = r
BY DEF MainTypeOK

-----------------------------------------------------------------------------
(* What each action does to the variables the invariant reads.             *)
LEMMA InitEffect ==
  ASSUME Init
  PROVE  /\ TypeOK
         /\ inQueue = <<>> /\ toExchange = <<>> /\ fromExchange = <<>> /\ fix = NoMessage
         /\ told.sent = [r \in Requests |-> 0] /\ told.ends = [o \in Orders |-> 0]
         /\ main.request = NoRequest /\ book = [o \in Orders |-> "none"]
<1>1. /\ mdQueue = <<>> /\ mdRead = 0 /\ inQueue = <<>> /\ inRead = 0 /\ isReplay = TRUE
      /\ running = TRUE /\ session = "down" /\ loggedOn = FALSE
      /\ toExchange = <<>> /\ fromExchange = <<>> /\ mutex = "free" /\ fix = NoMessage
      /\ told = NothingTold /\ main = At("replay md")
  BY DEF Init, ApplicationInit, RunnerStarted
<1>2. QueuesTypeOK
  <2>1. mdQueue \in Seq(Definitions) /\ inQueue \in Seq(Requests)
    BY <1>1, EmptySeq
  <2>2. mdRead \in 0 .. Len(mdQueue) /\ inRead \in 0 .. Len(inQueue)
    <3>1. Len(mdQueue) = 0 /\ Len(inQueue) = 0 /\ mdRead = 0 /\ inRead = 0
      BY <1>1, EmptySeq
    <3> QED
      BY <3>1
  <2> QED
    BY <1>1, <2>1, <2>2 DEF QueuesTypeOK
<1>3. LinkTypeOK
  BY <1>1, EmptySeq DEF LinkTypeOK
<1>4. MainTypeOK /\ main.at # "writing" /\ main.request = NoRequest
  BY <1>1 DEF MainTypeOK, At, Loop
<1>5. WriterTypeOK
  BY <1>1, <1>4 DEF WriterTypeOK
<1>6. told.sent = [r \in Requests |-> 0] /\ told.ends = [o \in Orders |-> 0]
  BY <1>1 DEF NothingTold
<1>7. ToldTypeOK
  BY <1>1 DEF ToldTypeOK, NothingTold
<1>8. book = [o \in Orders |-> "none"] /\ ExchangeTypeOK
  BY DeribitGatewayAssumption DEF Init, ExchangeTypeOK
<1> QED
  BY <1>1, <1>2, <1>3, <1>4, <1>5, <1>6, <1>7, <1>8 DEF TypeOK

exchangeVars == <<book, crashes, losses>>

threadVars == <<running, linkVars, loggedOn, mutex, fix, told>>

LEMMA PollEffect ==
  ASSUME TypeOK, UNCHANGED exchangeVars, UNCHANGED threadVars, PollMarketData \/ PollsNothing
  PROVE  /\ TypeOK'
         /\ UNCHANGED <<inQueue, inRead>>
         /\ main.request = NoRequest /\ main'.request = NoRequest
         /\ isReplay' = isReplay \/ inRead = Len(inQueue)
<1>1. UNCHANGED <<mdQueue, inQueue, inRead>>
  BY DEF PollMarketData, PollsNothing
<1>2. isReplay' = isReplay \/ (inRead = Len(inQueue) /\ isReplay' = FALSE)
  BY DEF PollMarketData, PollsNothing
<1>3. mdRead' = mdRead \/ (mdRead < Len(mdQueue) /\ mdRead' = mdRead + 1)
  BY DEF PollMarketData, PollsNothing
<1>4. mdQueue \in Seq(Definitions) /\ mdRead \in 0 .. Len(mdQueue) /\ Len(mdQueue) \in Nat
  BY LenProperties DEF TypeOK, QueuesTypeOK
<1>5. mdRead' \in 0 .. Len(mdQueue')
  BY <1>1, <1>3, <1>4
<1>6. QueuesTypeOK'
  BY <1>1, <1>2, <1>5 DEF TypeOK, QueuesTypeOK
<1>7. main.at \in Loop /\ main.at # "writing" /\ main.request = NoRequest
  BY DEF PollMarketData, PollsNothing, Loop, TypeOK, MainTypeOK
<1>8. main' = main \/ \E pos \in Loop : main' = At(pos)
  BY DEF PollMarketData, PollsNothing, Loop
<1>9. MainTypeOK' /\ main'.at # "writing" /\ main'.request = NoRequest
  <2>1. CASE main' = main
    BY <2>1, <1>7 DEF TypeOK, MainTypeOK
  <2>2. CASE \E pos \in Loop : main' = At(pos)
    BY <2>2, MainAt
  <2> QED
    BY <1>8, <2>1, <2>2
<1>10. WriterTypeOK'
  BY <1>7, <1>9 DEF TypeOK, WriterTypeOK, threadVars
<1>11. LinkTypeOK' /\ ToldTypeOK' /\ ExchangeTypeOK'
  BY DEF TypeOK, LinkTypeOK, ToldTypeOK, ExchangeTypeOK, threadVars, linkVars, exchangeVars
<1> QED
  BY <1>1, <1>2, <1>6, <1>7, <1>9, <1>10, <1>11 DEF TypeOK

LEMMA HandleEffect ==
  ASSUME TypeOK, UNCHANGED exchangeVars, OnNewOrder \/ OnAmendOrder \/ OnCancelOrder
  PROVE  /\ TypeOK'
         /\ UNCHANGED <<inQueue, isReplay, toExchange, fromExchange, fix, told>>
         /\ inRead' = inRead + 1 /\ inRead' \in 1 .. Len(inQueue)
         /\ main.request = NoRequest
         /\ \/ main'.request = NoRequest
            \/ ~isReplay /\ main'.request = inQueue[inRead']
<1>1. main.at \in {"replay in", "poll in"}
  BY DEF OnNewOrder, OnAmendOrder, OnCancelOrder, Handles, PollsRequest
<1>a. inRead < Len(inQueue) /\ inRead' = inRead + 1
  BY DEF OnNewOrder, OnAmendOrder, OnCancelOrder, Handles, PollsRequest
<1>2. UNCHANGED <<mdQueue, mdRead, inQueue, isReplay>>
  BY DEF OnNewOrder, OnAmendOrder, OnCancelOrder, Handles, PollsRequest
<1>3. UNCHANGED threadVars
  BY DEF OnNewOrder, OnAmendOrder, OnCancelOrder, Handles, threadVars
<1>4. inQueue \in Seq(Requests) /\ inRead \in 0 .. Len(inQueue) /\ Len(inQueue) \in Nat
  BY LenProperties DEF TypeOK, QueuesTypeOK
<1>5. inRead' \in 1 .. Len(inQueue)
  BY <1>a, <1>4
<1>6. QueuesTypeOK'
  BY <1>2, <1>4, <1>5 DEF TypeOK, QueuesTypeOK
<1>7. NextRequest = inQueue[inRead'] /\ NextRequest \in Requests
  BY <1>a, <1>4, <1>5, ElementOfSeq DEF NextRequest
<1>8. \/ main' = main
      \/ ~isReplay /\ \E pos \in {"sending", "rejecting"} : main' = [at |-> pos, request |-> NextRequest]
  BY DEF OnNewOrder, OnAmendOrder, OnCancelOrder, Takes, Rejecting
<1>9. main.request = NoRequest /\ main.at # "writing"
  BY <1>1 DEF TypeOK, MainTypeOK
<1>10. /\ MainTypeOK' /\ main'.at # "writing"
       /\ \/ main'.request = NoRequest
          \/ ~isReplay /\ main'.request = inQueue[inRead']
  <2>1. CASE main' = main
    BY <2>1, <1>9 DEF TypeOK, MainTypeOK
  <2>2. CASE ~isReplay /\ \E pos \in {"sending", "rejecting"} : main' = [at |-> pos, request |-> NextRequest]
    BY <2>2, <1>7, MainWith
  <2> QED
    BY <1>8, <2>1, <2>2
<1>11. WriterTypeOK'
  BY <1>3, <1>9, <1>10 DEF TypeOK, WriterTypeOK, threadVars
<1>12. LinkTypeOK' /\ ToldTypeOK' /\ ExchangeTypeOK'
  BY <1>3 DEF TypeOK, LinkTypeOK, ToldTypeOK, ExchangeTypeOK, threadVars, linkVars, exchangeVars
<1> QED
  BY <1>a, <1>2, <1>3, <1>5, <1>6, <1>9, <1>10, <1>11, <1>12 DEF TypeOK, threadVars, linkVars

LEMMA SendEffect ==
  ASSUME TypeOK, UNCHANGED exchangeVars, SendToTarget
  PROVE  /\ TypeOK'
         /\ UNCHANGED <<inQueue, inRead, isReplay, fromExchange, fix>>
         /\ main.request \in Requests /\ main'.request = NoRequest
         /\ toExchange' \in {toExchange, Append(toExchange, main.request)}
         /\ told'.sent = [told.sent EXCEPT ![main.request] = @ + 1]
         /\ told'.ends = told.ends
<1>1. UNCHANGED <<mdQueue, mdRead, inQueue, inRead, isReplay>>
  BY DEF SendToTarget
<1>2. UNCHANGED <<running, session, fromExchange, loggedOn, mutex, fix>>
  BY DEF SendToTarget
<1>3. main.request \in Requests /\ main.at # "writing"
  BY DEF SendToTarget, TypeOK, MainTypeOK, Loop
<1>4. MainTypeOK' /\ main'.at # "writing" /\ main'.request = NoRequest
  <2>1. main' = At("poll in") /\ "poll in" \in Loop
    BY DEF SendToTarget, Loop
  <2> QED
    BY <2>1, MainAt
<1>5. toExchange' \in {toExchange, Append(toExchange, main.request)}
  BY DEF SendToTarget
<1>6. toExchange' \in Seq(Requests)
  BY <1>3, <1>5, AppendFacts DEF TypeOK, LinkTypeOK
<1>7. ToldTypeOK
  BY DEF TypeOK
<1>8. told'.sent = [told.sent EXCEPT ![main.request] = @ + 1]
  BY <1>3, <1>7 DEF SendToTarget, ToldTypeOK
<1>9. told'.ends = told.ends /\ told'.answered = told.answered
  BY <1>3, <1>7 DEF SendToTarget, ToldTypeOK
<1>10. told' = [ends |-> told'.ends, answered |-> told'.answered, sent |-> told'.sent, lost |-> told'.lost]
  BY <1>3, <1>7 DEF SendToTarget, ToldTypeOK
<1>11. told'.lost \subseteq Requests
  BY <1>3, <1>7 DEF SendToTarget, ToldTypeOK
<1>12. told'.sent \in [Requests -> Nat]
  BY <1>3, <1>7, <1>8 DEF ToldTypeOK
<1>13. ToldTypeOK'
  BY <1>7, <1>9, <1>10, <1>11, <1>12 DEF ToldTypeOK
<1>14. LinkTypeOK'
  BY <1>2, <1>6 DEF TypeOK, LinkTypeOK
<1>15. WriterTypeOK'
  BY <1>2, <1>3, <1>4 DEF TypeOK, WriterTypeOK
<1>16. QueuesTypeOK' /\ ExchangeTypeOK'
  BY <1>1 DEF TypeOK, QueuesTypeOK, ExchangeTypeOK, exchangeVars
<1> QED
  BY <1>1, <1>2, <1>3, <1>4, <1>5, <1>8, <1>9, <1>13, <1>14, <1>15, <1>16 DEF TypeOK

LEMMA PrepareRejectEffect ==
  ASSUME TypeOK, UNCHANGED exchangeVars, PrepareReject
  PROVE  /\ TypeOK'
         /\ UNCHANGED <<inQueue, inRead, isReplay, toExchange, fromExchange, fix, told>>
         /\ main'.request = main.request
<1>1. UNCHANGED <<mdQueue, mdRead, inQueue, inRead, isReplay>>
  BY DEF PrepareReject
<1>2. UNCHANGED <<running, linkVars, loggedOn, fix, told>>
  BY DEF PrepareReject
<1>3. main.request \in Requests /\ main.at # "writing" /\ mutex = "free"
  BY DEF PrepareReject, TypeOK, MainTypeOK, Loop, MutexFree
<1>4. main' = [at |-> "writing", request |-> main.request] /\ mutex' = "main"
  BY DEF PrepareReject, TypeOK, MainTypeOK
<1>5. MainTypeOK' /\ main'.at = "writing" /\ main'.request = main.request
  BY <1>3, <1>4, MainWith
<1>6. WriterTypeOK'
  BY <1>2, <1>3, <1>4, <1>5 DEF TypeOK, WriterTypeOK
<1>7. QueuesTypeOK' /\ LinkTypeOK' /\ ToldTypeOK' /\ ExchangeTypeOK'
  BY <1>1, <1>2 DEF TypeOK, QueuesTypeOK, LinkTypeOK, ToldTypeOK, ExchangeTypeOK, linkVars, exchangeVars
<1> QED
  BY <1>1, <1>2, <1>5, <1>6, <1>7 DEF TypeOK, linkVars

LEMMA WriteRejectEffect ==
  ASSUME TypeOK, UNCHANGED exchangeVars, WriteReject
  PROVE  /\ TypeOK'
         /\ UNCHANGED <<inQueue, inRead, isReplay, toExchange, fromExchange, fix>>
         /\ main.request \in Requests /\ main'.request = NoRequest
         /\ told'.sent = told.sent
         /\ told'.ends = IF main.request.kind = "NewOrder"
                         THEN [told.ends EXCEPT ![main.request.order] = @ + 1]
                         ELSE told.ends
<1>1. UNCHANGED <<mdQueue, mdRead, inQueue, inRead, isReplay>>
  BY DEF WriteReject
<1>2. UNCHANGED <<running, linkVars, loggedOn, fix>> /\ mutex' = "free"
  BY DEF WriteReject
<1>3. main.request \in Requests /\ main.at = "writing"
  BY DEF WriteReject, TypeOK, MainTypeOK, Loop
<1>4. MainTypeOK' /\ main'.at # "writing" /\ main'.request = NoRequest
  <2>1. main' = At("poll in") /\ "poll in" \in Loop
    BY DEF WriteReject, Loop
  <2> QED
    BY <2>1, MainAt
<1>5. fix = NoMessage /\ WriterTypeOK'
  BY <1>2, <1>3, <1>4 DEF TypeOK, WriterTypeOK
<1>6. /\ ToldTypeOK' /\ told'.sent = told.sent
      /\ told'.ends = IF main.request.kind = "NewOrder"
                      THEN [told.ends EXCEPT ![main.request.order] = @ + 1]
                      ELSE told.ends
  <2>1. ToldTypeOK /\ told' = RejectOf(main.request) /\ main.request.order \in Orders
    BY <1>3, RequestFacts DEF WriteReject, TypeOK
  <2>2. CASE main.request.kind = "NewOrder"
    <3>1. told' = Reported(told, main.request.order, "REJECTED", main.request)
      BY <2>1, <2>2 DEF RejectOf
    <3>2. "REJECTED" \in Final
      BY DEF Final
    <3> QED
      BY <1>3, <2>1, <2>2, <3>1, <3>2, ToldReported
  <2>3. CASE main.request.kind # "NewOrder"
    <3>1. told' = [told EXCEPT !.answered = @ \cup {main.request}]
      BY <2>1, <2>3 DEF RejectOf
    <3> QED
      BY <1>3, <2>1, <2>3, <3>1, ToldAnswered
  <2> QED
    BY <2>2, <2>3
<1>7. QueuesTypeOK' /\ LinkTypeOK' /\ ExchangeTypeOK'
  BY <1>1, <1>2 DEF TypeOK, QueuesTypeOK, LinkTypeOK, ExchangeTypeOK, linkVars, exchangeVars
<1> QED
  BY <1>1, <1>2, <1>3, <1>4, <1>5, <1>6, <1>7 DEF TypeOK, linkVars

LEMMA LogonEffect ==
  ASSUME TypeOK, UNCHANGED exchangeVars, OnLogon \/ OnLogout
  PROVE  /\ TypeOK'
         /\ UNCHANGED <<inQueue, inRead, isReplay, main, toExchange, fromExchange, fix, told>>
<1>1. UNCHANGED <<runnerVars, running, toExchange, fromExchange, mutex, fix, told>>
  BY DEF OnLogon, OnLogout
<1>2. \/ session' = "up" /\ loggedOn' = TRUE
      \/ session' = "down" /\ loggedOn' = FALSE
  BY DEF OnLogon, OnLogout
<1>3. LinkTypeOK'
  BY <1>1, <1>2 DEF TypeOK, LinkTypeOK
<1>4. QueuesTypeOK' /\ MainTypeOK' /\ WriterTypeOK' /\ ToldTypeOK' /\ ExchangeTypeOK'
  BY <1>1 DEF TypeOK, QueuesTypeOK, MainTypeOK, WriterTypeOK, ToldTypeOK, ExchangeTypeOK,
              runnerVars, exchangeVars
<1> QED
  BY <1>1, <1>3, <1>4 DEF TypeOK, runnerVars

LEMMA DiesEffect ==
  ASSUME TypeOK, Dies, UNCHANGED <<book, losses>>, crashes' \in 0 .. MaxCrashes
  PROVE  /\ TypeOK'
         /\ UNCHANGED <<inQueue, inRead, isReplay, book>>
         /\ toExchange' = <<>> /\ fromExchange' = <<>> /\ fix' = NoMessage
         /\ told'.sent = told.sent /\ told'.ends = told.ends
         /\ main'.request = NoRequest
<1>1. UNCHANGED <<mdQueue, mdRead, inQueue, inRead, isReplay>>
  BY DEF Dies
<1>2. /\ running' = FALSE /\ session' = "down" /\ loggedOn' = FALSE
      /\ toExchange' = <<>> /\ fromExchange' = <<>>
      /\ mutex' = "free" /\ fix' = NoMessage
  BY DEF Dies
<1>3. MainTypeOK' /\ main'.at # "writing" /\ main'.request = NoRequest
  <2>1. main' = At("replay md") /\ "replay md" \in Loop
    BY DEF Dies, Loop
  <2> QED
    BY <2>1, MainAt
<1>4. ToldTypeOK' /\ told'.sent = told.sent /\ told'.ends = told.ends
  <2>1. ToldTypeOK
    BY DEF TypeOK
  <2>2. InHand \subseteq Requests
    BY DEF InHand, TypeOK, MainTypeOK
  <2> DEFINE X == (Pending \cup InHand) \ told.answered
  <2>3. X \in SUBSET Requests
    BY <2>2 DEF Pending
  <2>4. told' = [told EXCEPT !.lost = @ \cup X]
    BY DEF Dies
  <2> HIDE DEF X
  <2> QED
    BY <2>1, <2>3, <2>4, ToldLost
<1>5. LinkTypeOK'
  BY <1>2, EmptySeq DEF LinkTypeOK
<1>6. WriterTypeOK'
  BY <1>2, <1>3 DEF WriterTypeOK
<1>7. QueuesTypeOK' /\ ExchangeTypeOK'
  BY <1>1 DEF TypeOK, QueuesTypeOK, ExchangeTypeOK
<1> QED
  BY <1>1, <1>2, <1>3, <1>4, <1>5, <1>6, <1>7 DEF TypeOK

LEMMA DropEffect ==
  ASSUME TypeOK, UNCHANGED exchangeVars, DropReport
  PROVE  /\ TypeOK'
         /\ UNCHANGED <<inQueue, inRead, isReplay, main, toExchange, told>>
         /\ fromExchange # <<>> /\ fromExchange' = Tail(fromExchange)
         /\ fix = NoMessage /\ fix' = NoMessage
<1>1. UNCHANGED <<runnerVars, running, session, toExchange, loggedOn, mutex, fix, told>>
  BY DEF DropReport
<1>2. fromExchange # <<>> /\ fix = NoMessage /\ fromExchange' = Tail(fromExchange)
  BY DEF DropReport, Receives
<1>3. fromExchange' \in Seq(Messages)
  BY <1>2, TailFacts DEF TypeOK, LinkTypeOK
<1>4. LinkTypeOK'
  BY <1>1, <1>3 DEF TypeOK, LinkTypeOK
<1>5. QueuesTypeOK' /\ MainTypeOK' /\ WriterTypeOK' /\ ToldTypeOK' /\ ExchangeTypeOK'
  BY <1>1 DEF TypeOK, QueuesTypeOK, MainTypeOK, WriterTypeOK, ToldTypeOK, ExchangeTypeOK,
              runnerVars, exchangeVars
<1> QED
  BY <1>1, <1>2, <1>4, <1>5 DEF TypeOK, runnerVars

LEMMA PrepareReportEffect ==
  ASSUME TypeOK, UNCHANGED exchangeVars, PrepareReport
  PROVE  /\ TypeOK'
         /\ UNCHANGED <<inQueue, inRead, isReplay, main, toExchange, told>>
         /\ fromExchange # <<>> /\ fromExchange' = Tail(fromExchange)
         /\ fix = NoMessage /\ fix' = Head(fromExchange) /\ fix' \in Messages
         /\ fix'.type = "report" => ~fix'.second
<1>1. UNCHANGED <<runnerVars, running, session, toExchange, loggedOn, told>>
  BY DEF PrepareReport
<1>2. /\ fromExchange # <<>> /\ fix = NoMessage /\ fromExchange' = Tail(fromExchange)
      /\ fix' = Head(fromExchange) /\ mutex = "free" /\ mutex' = "fix"
  BY DEF PrepareReport, Receives, Received, MutexFree
<1>3. fromExchange' \in Seq(Messages) /\ fix' \in Messages
  BY <1>2, TailFacts DEF TypeOK, LinkTypeOK
<1>4. LinkTypeOK'
  BY <1>1, <1>3 DEF TypeOK, LinkTypeOK
<1>5. WriterTypeOK'
  BY <1>1, <1>2, <1>3, NoMessageFacts DEF TypeOK, WriterTypeOK, runnerVars
<1>6. QueuesTypeOK' /\ MainTypeOK' /\ ToldTypeOK' /\ ExchangeTypeOK'
  BY <1>1 DEF TypeOK, QueuesTypeOK, MainTypeOK, ToldTypeOK, ExchangeTypeOK,
              runnerVars, exchangeVars
<1>7. fix'.type = "report" => ~fix'.second
  BY <1>2 DEF PrepareReport, IsDropped, Received
<1> QED
  BY <1>1, <1>2, <1>3, <1>4, <1>5, <1>6, <1>7 DEF TypeOK, runnerVars

LEMMA WriteReportEffect ==
  ASSUME TypeOK, UNCHANGED exchangeVars, WriteReport
  PROVE  /\ TypeOK'
         /\ UNCHANGED <<inQueue, inRead, isReplay, main, toExchange, fromExchange>>
         /\ fix \in Messages /\ fix' = NoMessage
         /\ told'.sent = told.sent
         /\ told'.ends = IF fix.type = "report" /\ fix.status \in Final
                         THEN [told.ends EXCEPT ![fix.order] = @ + 1]
                         ELSE told.ends
<1>1. UNCHANGED <<runnerVars, running, linkVars, loggedOn>>
  BY DEF WriteReport
<1>2. mutex' = "free" /\ fix' = NoMessage /\ fix.type \in {"report", "cancelReject"}
  BY DEF WriteReport
<1>3. fix \in Messages /\ mutex = "fix" /\ main.at # "writing"
  BY <1>2, NoMessageFacts DEF TypeOK, WriterTypeOK
<1>4. WriterTypeOK'
  BY <1>1, <1>2, <1>3 DEF TypeOK, WriterTypeOK, runnerVars
<1>5. /\ ToldTypeOK' /\ told'.sent = told.sent
      /\ told'.ends = IF fix.type = "report" /\ fix.status \in Final
                      THEN [told.ends EXCEPT ![fix.order] = @ + 1]
                      ELSE told.ends
  <2>1. ToldTypeOK
    BY DEF TypeOK
  <2>2. CASE fix.type = "report"
    <3>1. told' = Reported(told, fix.order, fix.status, fix.re)
      BY <2>2 DEF WriteReport
    <3>2. fix.order \in Orders /\ fix.re \in Requests \cup {NoRequest}
      BY <1>3, <2>2, MessageFacts
    <3> QED
      BY <2>1, <2>2, <3>1, <3>2, ToldReported
  <2>3. CASE fix.type = "cancelReject"
    <3>1. told' = [told EXCEPT !.answered = @ \cup {fix.re}]
      BY <2>3 DEF WriteReport
    <3>2. fix.re \in Requests
      BY <1>3, <2>3, MessageFacts
    <3> QED
      BY <2>1, <2>3, <3>1, <3>2, ToldAnswered
  <2> QED
    BY <1>2, <2>2, <2>3
<1>6. QueuesTypeOK' /\ MainTypeOK' /\ LinkTypeOK' /\ ExchangeTypeOK'
  BY <1>1 DEF TypeOK, QueuesTypeOK, MainTypeOK, LinkTypeOK, ExchangeTypeOK,
              runnerVars, linkVars, exchangeVars
<1> QED
  BY <1>1, <1>2, <1>3, <1>4, <1>5, <1>6 DEF TypeOK, runnerVars, linkVars

-----------------------------------------------------------------------------
(* The answers of the exchange: a request that ends no order, an order     *)
(* that ends, and the messages they are made of.                           *)
Neutral(r) ==
  \E m \in Messages :
    /\ ~IsEnd(m)
    /\ fromExchange' = Append(fromExchange, m)
    /\ \/ book' = book
       \/ r.kind = "NewOrder" /\ book' = [book EXCEPT ![r.order] = "live"]

Ends(o) ==
  /\ book' = [book EXCEPT ![o] = "over"]
  /\ \/ UNCHANGED fromExchange
     \/ \E m \in Messages :
          /\ IsEnd(m) /\ m.order = o
          /\ \/ fromExchange' = Append(fromExchange, m)
             \/ \E n \in Messages : ~IsEnd(n) /\ fromExchange' = Append(Append(fromExchange, m), n)

LEMMA ReportFacts ==
  ASSUME NEW o \in Orders, NEW s \in Statuses, NEW re \in Requests \cup {NoRequest}
  PROVE  /\ Report(o, s, re) \in Messages
         /\ Report(o, s, re).order = o
         /\ IsEnd(Report(o, s, re)) <=> s \in Final
BY DEF Report, Messages, IsEnd

LEMMA SecondReportFacts ==
  ASSUME NEW o \in Orders, NEW re \in Requests \cup {NoRequest}
  PROVE  SecondReport(o, re) \in Messages /\ ~IsEnd(SecondReport(o, re))
BY DEF SecondReport, Report, Messages, IsEnd, Statuses

LEMMA OtherFacts ==
  ASSUME NEW re \in Requests
  PROVE  /\ CancelReject(re) \in Messages /\ ~IsEnd(CancelReject(re))
         /\ [type |-> "other", re |-> re] \in Messages /\ ~IsEnd([type |-> "other", re |-> re])
BY DEF CancelReject, Messages, IsEnd

LEMMA UnnamedFacts ==
  ASSUME NEW o \in Orders, NEW re \in Requests
  PROVE  LET m == [Report(o, "REJECTED", re) EXCEPT !.type = "unnamed"]
         IN  m \in Messages /\ m.order = o /\ IsEnd(m)
BY DEF Report, Messages, IsEnd, Statuses, Final

LEMMA AnswerTypes ==
  ASSUME TypeOK, Neutral(Head(toExchange)) \/ Ends(Head(toExchange).order),
         toExchange # <<>>, toExchange' = Tail(toExchange),
         UNCHANGED <<runnerVars, running, session, loggedOn, mutex, fix, told, losses>>,
         crashes' \in 0 .. MaxCrashes
  PROVE  TypeOK'
<1> DEFINE r == Head(toExchange)
<1>1. r \in Requests /\ toExchange' \in Seq(Requests) /\ r.order \in Orders
  BY TailFacts, RequestFacts DEF TypeOK, LinkTypeOK
<1>2. fromExchange \in Seq(Messages)
  BY DEF TypeOK, LinkTypeOK
<1>3. fromExchange' \in Seq(Messages)
  <2>1. \/ fromExchange' = fromExchange
        \/ \E m \in Messages : fromExchange' = Append(fromExchange, m)
        \/ \E m, n \in Messages : fromExchange' = Append(Append(fromExchange, m), n)
    BY DEF Neutral, Ends
  <2>2. \A m \in Messages : Append(fromExchange, m) \in Seq(Messages)
    BY <1>2, AppendFacts
  <2>3. \A m, n \in Messages : Append(Append(fromExchange, m), n) \in Seq(Messages)
    BY <2>2, AppendFacts
  <2> QED
    BY <1>2, <2>1, <2>2, <2>3
<1>4. book' \in [Orders -> {"none", "live", "over"}]
  BY <1>1 DEF Neutral, Ends, TypeOK, ExchangeTypeOK
<1>5. LinkTypeOK'
  BY <1>1, <1>3 DEF TypeOK, LinkTypeOK
<1>6. ExchangeTypeOK'
  BY <1>4 DEF TypeOK, ExchangeTypeOK
<1>7. QueuesTypeOK' /\ MainTypeOK' /\ WriterTypeOK' /\ ToldTypeOK'
  BY DEF TypeOK, QueuesTypeOK, MainTypeOK, WriterTypeOK, ToldTypeOK, runnerVars
<1> QED
  BY <1>5, <1>6, <1>7 DEF TypeOK

LEMMA AnswerEffect ==
  ASSUME TypeOK, ExchangeAnswers \/ ExchangeAnswersOddly
  PROVE  /\ TypeOK'
         /\ UNCHANGED <<inQueue, inRead, isReplay, main, fix, told>>
         /\ toExchange # <<>> /\ toExchange' = Tail(toExchange)
         /\ \/ Neutral(Head(toExchange))
            \/ /\ Head(toExchange).kind = "NewOrder" \/ book[Head(toExchange).order] = "live"
               /\ Ends(Head(toExchange).order)
<1> DEFINE r == Head(toExchange)
<1>1. /\ UNCHANGED <<runnerVars, running, session, loggedOn, mutex, fix, told, losses>>
      /\ toExchange # <<>> /\ toExchange' = Tail(toExchange)
  BY DEF ExchangeAnswers, ExchangeAnswersOddly, IsNext
<1>2. crashes' \in 0 .. MaxCrashes
  <2>1. crashes' = crashes \/ (crashes < MaxCrashes /\ crashes' = crashes + 1)
    BY DEF ExchangeAnswers, ExchangeAnswersOddly
  <2>2. crashes \in 0 .. MaxCrashes /\ MaxCrashes \in Nat
    BY DeribitGatewayAssumption DEF TypeOK, ExchangeTypeOK
  <2> QED
    BY <2>1, <2>2
<1>3. r \in Requests /\ r.order \in Orders /\ r.kind \in Kinds
  BY <1>1, TailFacts, RequestFacts DEF TypeOK, LinkTypeOK
<1>4. fromExchange \in Seq(Messages) /\ book \in [Orders -> {"none", "live", "over"}]
  BY DEF TypeOK, LinkTypeOK, ExchangeTypeOK
<1>5. /\ "NEW" \in Statuses \ Final /\ "REPLACED" \in Statuses \ Final
      /\ "REJECTED" \in Statuses \cap Final /\ "CANCELLED" \in Statuses \cap Final
  BY DEF Statuses, Final
<1>6. ASSUME NEW m \in Messages, NEW s, Answers(r, <<m>>, s)
      PROVE  fromExchange' = Append(fromExchange, m) /\ book' = [book EXCEPT ![r.order] = s]
  <2>1. fromExchange \o <<m>> = Append(fromExchange, m)
    BY <1>4, AppendIsConcat
  <2> QED
    BY <1>6, <2>1 DEF Answers
<1>7. Neutral(r) \/ ((r.kind = "NewOrder" \/ book[r.order] = "live") /\ Ends(r.order))
  <2>1. CASE r.kind = "NewOrder" /\ Answers(r, <<Report(r.order, "NEW", r)>>, "live")
    <3>1. Report(r.order, "NEW", r) \in Messages /\ ~IsEnd(Report(r.order, "NEW", r))
      BY <1>3, <1>5, ReportFacts
    <3> QED
      BY <2>1, <3>1, <1>6 DEF Neutral
  <2>2. CASE r.kind = "NewOrder" /\ Answers(r, <<Report(r.order, "REJECTED", r)>>, "over")
    <3> DEFINE m == Report(r.order, "REJECTED", r)
    <3>1. m \in Messages /\ m.order = r.order /\ IsEnd(m)
      BY <1>3, <1>5, ReportFacts
    <3> HIDE DEF m
    <3>2. Answers(r, <<m>>, "over")
      BY <2>2 DEF m
    <3> QED
      BY <2>2, <3>1, <3>2, <1>6 DEF Ends
  <2>3. CASE book[r.order] = "live" /\ Answers(r, <<Report(r.order, "REPLACED", r)>>, "live")
    <3>1. Report(r.order, "REPLACED", r) \in Messages /\ ~IsEnd(Report(r.order, "REPLACED", r))
      BY <1>3, <1>5, ReportFacts
    <3>2. [book EXCEPT ![r.order] = "live"] = book
      BY <2>3, <1>3, <1>4
    <3> QED
      BY <2>3, <3>1, <3>2, <1>6 DEF Neutral
  <2>4. CASE /\ book[r.order] = "live"
             /\ Answers(r, <<Report(r.order, "CANCELLED", r), SecondReport(r.order, r)>>, "over")
    <3> DEFINE m == Report(r.order, "CANCELLED", r)
               n == SecondReport(r.order, r)
    <3>1. m \in Messages /\ m.order = r.order /\ IsEnd(m)
      BY <1>3, <1>5, ReportFacts
    <3>2. n \in Messages /\ ~IsEnd(n)
      BY <1>3, SecondReportFacts
    <3>3. fromExchange' = fromExchange \o <<m, n>> /\ book' = [book EXCEPT ![r.order] = "over"]
      BY <2>4 DEF Answers
    <3> HIDE DEF m, n
    <3>4. fromExchange \o <<m, n>> = Append(Append(fromExchange, m), n)
      BY <1>4, <3>1, <3>2
    <3> QED
      BY <2>4, <3>1, <3>2, <3>3, <3>4 DEF Ends
  <2>5. CASE \E m \in {CancelReject(r), [type |-> "other", re |-> r]} : Answers(r, <<m>>, book[r.order])
    <3>1. PICK m \in {CancelReject(r), [type |-> "other", re |-> r]} : Answers(r, <<m>>, book[r.order])
      BY <2>5
    <3>2. m \in Messages /\ ~IsEnd(m)
      BY <1>3, OtherFacts
    <3>3. [book EXCEPT ![r.order] = book[r.order]] = book
      BY <1>3, <1>4
    <3> QED
      BY <3>1, <3>2, <3>3, <1>6 DEF Neutral
  <2>6. CASE /\ r.kind = "NewOrder"
             /\ Answers(r, <<[Report(r.order, "REJECTED", r) EXCEPT !.type = "unnamed"]>>, "over")
    <3> DEFINE m == [Report(r.order, "REJECTED", r) EXCEPT !.type = "unnamed"]
    <3>1. m \in Messages /\ m.order = r.order /\ IsEnd(m)
      BY <1>3, UnnamedFacts
    <3> HIDE DEF m
    <3>2. Answers(r, <<m>>, "over")
      BY <2>6 DEF m
    <3> QED
      BY <2>6, <3>1, <3>2, <1>6 DEF Ends
  <2>7. CASE ExchangeAnswers
    BY <2>1, <2>2, <2>3, <2>4, <2>5, <2>7 DEF ExchangeAnswers, IsNext
  <2>8. CASE ExchangeAnswersOddly
    BY <2>5, <2>6, <2>8 DEF ExchangeAnswersOddly, IsNext
  <2> QED
    BY <2>7, <2>8
<1> HIDE DEF r
<1>8. TypeOK'
  BY <1>1, <1>2, <1>7, AnswerTypes DEF r
<1> QED
  BY <1>1, <1>7, <1>8 DEF r, runnerVars

LEMMA FillEffect ==
  ASSUME TypeOK, NEW o \in Orders, Fill(o)
  PROVE  /\ TypeOK'
         /\ UNCHANGED <<inQueue, inRead, isReplay, main, fix, told, toExchange>>
         /\ book[o] = "live" /\ Ends(o)
<1>1. /\ UNCHANGED <<runnerVars, running, session, toExchange, loggedOn, mutex, fix, told>>
      /\ UNCHANGED <<crashes, losses>>
      /\ book[o] = "live" /\ book' = [book EXCEPT ![o] = "over"]
  BY DEF Fill
<1> DEFINE m == Report(o, "FILLED", NoRequest)
<1>2. m \in Messages /\ m.order = o /\ IsEnd(m)
  BY ReportFacts DEF Statuses, Final
<1>3. fromExchange' = fromExchange \/ fromExchange' = Append(fromExchange, m)
  BY DEF Fill
<1> HIDE DEF m
<1>4. Ends(o)
  BY <1>1, <1>2, <1>3 DEF Ends
<1>5. fromExchange' \in Seq(Messages)
  BY <1>2, <1>3, AppendFacts DEF TypeOK, LinkTypeOK
<1>6. LinkTypeOK'
  BY <1>1, <1>5 DEF TypeOK, LinkTypeOK
<1>7. ExchangeTypeOK'
  BY <1>1 DEF TypeOK, ExchangeTypeOK
<1>8. QueuesTypeOK' /\ MainTypeOK' /\ WriterTypeOK' /\ ToldTypeOK'
  BY <1>1 DEF TypeOK, QueuesTypeOK, MainTypeOK, WriterTypeOK, ToldTypeOK, runnerVars
<1> QED
  BY <1>1, <1>4, <1>6, <1>7, <1>8 DEF TypeOK, runnerVars

LEMMA BreakEffect ==
  ASSUME TypeOK, LinkBreaks
  PROVE  /\ TypeOK'
         /\ UNCHANGED <<inQueue, inRead, isReplay, main, fix, book>>
         /\ toExchange' = <<>> /\ fromExchange' = <<>>
         /\ told'.sent = told.sent /\ told'.ends = told.ends
<1>1. /\ UNCHANGED <<runnerVars, running, loggedOn, mutex, fix, book, crashes>>
      /\ session = "up" /\ session' = "broken" /\ toExchange' = <<>> /\ fromExchange' = <<>>
  BY DEF LinkBreaks
<1>2. losses' \in 0 .. MaxLosses
  <2>1. losses < MaxLosses /\ losses' = losses + 1
    BY DEF LinkBreaks
  <2>2. losses \in 0 .. MaxLosses /\ MaxLosses \in Nat
    BY DeribitGatewayAssumption DEF TypeOK, ExchangeTypeOK
  <2> QED
    BY <2>1, <2>2
<1>3. ToldTypeOK' /\ told'.sent = told.sent /\ told'.ends = told.ends
  <2>1. ToldTypeOK /\ told' = [told EXCEPT !.lost = @ \cup Pending]
    BY DEF TypeOK, LinkBreaks
  <2>2. Pending \in SUBSET Requests
    BY DEF Pending
  <2> QED
    BY <2>1, <2>2, ToldLost
<1>4. LinkTypeOK'
  BY <1>1, EmptySeq DEF TypeOK, LinkTypeOK
<1>5. QueuesTypeOK' /\ MainTypeOK' /\ WriterTypeOK' /\ ExchangeTypeOK'
  BY <1>1, <1>2 DEF TypeOK, QueuesTypeOK, MainTypeOK, WriterTypeOK, ExchangeTypeOK, runnerVars
<1> QED
  BY <1>1, <1>3, <1>4, <1>5 DEF TypeOK, runnerVars

LEMMA RestartEffect ==
  ASSUME TypeOK, Restart, main.at # "writing"
  PROVE  /\ TypeOK'
         /\ UNCHANGED <<inQueue, fix, book, told, toExchange, fromExchange>>
         /\ isReplay' = TRUE /\ main'.request = NoRequest
<1>1. /\ UNCHANGED <<mdQueue, inQueue, linkVars, loggedOn, mutex, fix, told>>
      /\ UNCHANGED <<book, crashes, losses>>
      /\ running' = TRUE /\ isReplay' = TRUE /\ mdRead' = 0 /\ inRead' = 0
  BY DEF Restart, RunnerRestarted
<1>2. MainTypeOK' /\ main'.at # "writing" /\ main'.request = NoRequest
  <2>1. main' = At("replay md") /\ "replay md" \in Loop
    BY DEF Restart, RunnerRestarted, Loop
  <2> QED
    BY <2>1, MainAt
<1>3. 0 \in 0 .. Len(mdQueue) /\ 0 \in 0 .. Len(inQueue)
  <2>1. Len(mdQueue) \in Nat /\ Len(inQueue) \in Nat
    BY LenProperties DEF TypeOK, QueuesTypeOK
  <2> QED
    BY <2>1
<1>4. QueuesTypeOK'
  BY <1>1, <1>3 DEF TypeOK, QueuesTypeOK
<1>5. WriterTypeOK'
  BY <1>1, <1>2 DEF TypeOK, WriterTypeOK
<1>6. LinkTypeOK' /\ ToldTypeOK' /\ ExchangeTypeOK'
  BY <1>1 DEF TypeOK, LinkTypeOK, ToldTypeOK, ExchangeTypeOK, linkVars
<1> QED
  BY <1>1, <1>2, <1>4, <1>5, <1>6 DEF TypeOK, linkVars

LEMMA EnvironmentEffect ==
  ASSUME TypeOK, Environment
  PROVE  /\ TypeOK'
         /\ UNCHANGED <<inRead, isReplay, main, fix, book, told, toExchange, fromExchange>>
         /\ \/ inQueue' = inQueue
            \/ \E r \in Requests : ~Written(r) /\ inQueue' = Append(inQueue, r)
<1>1. /\ UNCHANGED <<running, linkVars, loggedOn, mutex, fix, told, book, crashes, losses>>
      /\ UNCHANGED <<mdRead, inRead, isReplay, main>>
  BY DEF Environment, Publish, WriteRequest
<1>2. /\ mdQueue' = mdQueue \/ \E d \in Definitions : mdQueue' = Append(mdQueue, d)
      /\ inQueue' = inQueue \/ \E r \in Requests : ~Written(r) /\ inQueue' = Append(inQueue, r)
  <2>1. CASE \E r \in Requests : WriteRequest(r)
    BY <2>1 DEF WriteRequest
  <2>2. CASE \E id \in SecurityIds : Publish(id)
    <3>1. PICK id \in SecurityIds : Publish(id)
      BY <2>2
    <3> DEFINE d == [action |-> IF Published(id) THEN "REMOVE" ELSE "ADD", id |-> id]
    <3>2. d \in Definitions
      BY DEF Definitions
    <3>3. mdQueue' = Append(mdQueue, d) /\ inQueue' = inQueue
      BY <3>1 DEF Publish
    <3> HIDE DEF d
    <3> QED
      BY <3>2, <3>3
  <2> QED
    BY <2>1, <2>2 DEF Environment
<1>3. mdQueue' \in Seq(Definitions) /\ mdRead \in 0 .. Len(mdQueue')
  <2>1. mdQueue \in Seq(Definitions) /\ Len(mdQueue) \in Nat /\ mdRead \in 0 .. Len(mdQueue)
    BY LenProperties DEF TypeOK, QueuesTypeOK
  <2>2. mdQueue' \in Seq(Definitions) /\ Len(mdQueue') \in {Len(mdQueue), Len(mdQueue) + 1}
    BY <1>2, <2>1, AppendFacts
  <2> QED
    BY <2>1, <2>2
<1>4. inQueue' \in Seq(Requests) /\ inRead \in 0 .. Len(inQueue')
  <2>1. inQueue \in Seq(Requests) /\ Len(inQueue) \in Nat /\ inRead \in 0 .. Len(inQueue)
    BY LenProperties DEF TypeOK, QueuesTypeOK
  <2>2. inQueue' \in Seq(Requests) /\ Len(inQueue') \in {Len(inQueue), Len(inQueue) + 1}
    BY <1>2, <2>1, AppendFacts
  <2> QED
    BY <2>1, <2>2
<1>5. QueuesTypeOK'
  BY <1>1, <1>3, <1>4 DEF TypeOK, QueuesTypeOK
<1>6. MainTypeOK' /\ LinkTypeOK' /\ WriterTypeOK' /\ ToldTypeOK' /\ ExchangeTypeOK'
  BY <1>1 DEF TypeOK, MainTypeOK, LinkTypeOK, WriterTypeOK, ToldTypeOK, ExchangeTypeOK, linkVars
<1> QED
  BY <1>1, <1>2, <1>5, <1>6 DEF TypeOK, linkVars

-----------------------------------------------------------------------------
(* The ends under way, as messages are sent, taken and written.            *)
LEMMA EndsEmpty ==
  ASSUME NEW b, NEW e, NEW x, IsEnd(x) => b[x.order] = "over" /\ e[x.order] = 0
  PROVE  EndsOK(<<>>, x, b, e)
<1>1. Len(<<>>) = 0
  BY EmptySeq
<1> QED
  BY <1>1 DEF EndsOK

LEMMA EndsNeutral ==
  ASSUME NEW s \in Seq(Messages), NEW x, NEW b, NEW e, NEW m \in Messages,
         EndsOK(s, x, b, e), ~IsEnd(m)
  PROVE  EndsOK(Append(s, m), x, b, e)
<1>1. /\ Len(s) \in Nat /\ Len(Append(s, m)) = Len(s) + 1
      /\ \A i \in 1 .. Len(s) : Append(s, m)[i] = s[i]
      /\ Append(s, m)[Len(s) + 1] = m
  BY AppendFacts
<1>2. \A i \in 1 .. Len(Append(s, m)) :
        IsEnd(Append(s, m)[i]) => i \in 1 .. Len(s) /\ Append(s, m)[i] = s[i]
  BY <1>1
<1> HIDE DEF IsEnd
<1> QED
  BY <1>2 DEF EndsOK

LEMMA EndsAnother ==
  ASSUME NEW s \in Seq(Messages), NEW x, NEW b, NEW e, NEW m \in Messages,
         EndsOK(s, x, b, e), b[m.order] = "over", e[m.order] = 0,
         \A i \in 1 .. Len(s) : IsEnd(s[i]) => s[i].order # m.order,
         IsEnd(x) => x.order # m.order
  PROVE  EndsOK(Append(s, m), x, b, e)
<1> DEFINE t == Append(s, m)
<1>1. /\ Len(s) \in Nat /\ Len(t) = Len(s) + 1
      /\ \A i \in 1 .. Len(s) : t[i] = s[i]
      /\ t[Len(s) + 1] = m
  BY AppendFacts
<1> HIDE DEF t
<1>2. \A i \in 1 .. Len(t) : i \in 1 .. Len(s) \/ i = Len(s) + 1
  BY <1>1
<1>3. \A i \in 1 .. Len(t) : IsEnd(t[i]) => b[t[i].order] = "over" /\ e[t[i].order] = 0
  BY <1>1, <1>2 DEF EndsOK
<1>4. ASSUME NEW i \in 1 .. Len(t), NEW j \in 1 .. Len(t),
             IsEnd(t[i]), IsEnd(t[j]), t[i].order = t[j].order
      PROVE  i = j
  BY <1>1, <1>2, <1>4 DEF EndsOK
<1>5. \A i \in 1 .. Len(t) : IsEnd(x) /\ IsEnd(t[i]) => x.order # t[i].order
  BY <1>1, <1>2 DEF EndsOK
<1> QED
  BY <1>3, <1>4, <1>5 DEF EndsOK, t

(* An order that is not over has no end under way, and may change.         *)
LEMMA EndsOfOthers ==
  ASSUME NEW s \in Seq(Messages), NEW x \in Messages \cup {NoMessage},
         NEW b \in [Orders -> {"none", "live", "over"}], NEW e,
         EndsOK(s, x, b, e), NEW o \in Orders, b[o] # "over"
  PROVE  /\ \A i \in 1 .. Len(s) : IsEnd(s[i]) => s[i].order # o /\ s[i].order \in Orders
         /\ IsEnd(x) => x.order # o /\ x.order \in Orders
         /\ \A state : EndsOK(s, x, [b EXCEPT ![o] = state], e)
<1>1. \A m \in Messages \cup {NoMessage} : IsEnd(m) => m.order \in Orders
  BY NoMessageFacts, MessageFacts DEF IsEnd
<1>2. \A i \in 1 .. Len(s) : s[i] \in Messages
  BY ElementOfSeq
<1>3. \A i \in 1 .. Len(s) : IsEnd(s[i]) => s[i].order # o /\ s[i].order \in Orders
  BY <1>1, <1>2 DEF EndsOK
<1>4. IsEnd(x) => x.order # o /\ x.order \in Orders
  BY <1>1 DEF EndsOK
<1>5. ASSUME NEW state PROVE EndsOK(s, x, [b EXCEPT ![o] = state], e)
  <2> DEFINE c == [b EXCEPT ![o] = state]
  <2>1. \A p \in Orders : p # o => c[p] = b[p]
    OBVIOUS
  <2> HIDE DEF c
  <2> QED
    BY <1>3, <1>4, <2>1 DEF EndsOK, c
<1> QED
  BY <1>3, <1>4, <1>5

LEMMA EndsTaken ==
  ASSUME NEW s \in Seq(Messages), s # <<>>, NEW x, NEW b, NEW e, EndsOK(s, x, b, e)
  PROVE  EndsOK(Tail(s), x, b, e) /\ EndsOK(Tail(s), Head(s), b, e)
<1> DEFINE t == Tail(s)
<1>1. /\ Len(s) \in Nat \ {0} /\ Len(t) = Len(s) - 1 /\ Head(s) = s[1]
      /\ \A i \in 1 .. Len(s) - 1 : t[i] = s[i + 1]
  BY TailFacts
<1> HIDE DEF t
<1>2. \A i \in 1 .. Len(t) : t[i] = s[i + 1] /\ i + 1 \in 1 .. Len(s) /\ i + 1 # 1
  BY <1>1
<1>3. 1 \in 1 .. Len(s)
  BY <1>1
<1>4. \A i \in 1 .. Len(t) : IsEnd(t[i]) => b[t[i].order] = "over" /\ e[t[i].order] = 0
  BY <1>2 DEF EndsOK
<1>5. ASSUME NEW i \in 1 .. Len(t), NEW j \in 1 .. Len(t),
             IsEnd(t[i]), IsEnd(t[j]), t[i].order = t[j].order
      PROVE  i = j
  <2>1. i + 1 = j + 1
    BY <1>2, <1>5 DEF EndsOK
  <2> QED
    BY <2>1
<1>6. EndsOK(t, x, b, e)
  BY <1>2, <1>4, <1>5 DEF EndsOK
<1>7. \A i \in 1 .. Len(t) : IsEnd(Head(s)) /\ IsEnd(t[i]) => Head(s).order # t[i].order
  BY <1>1, <1>2, <1>3 DEF EndsOK
<1>8. IsEnd(Head(s)) => b[Head(s).order] = "over" /\ e[Head(s).order] = 0
  BY <1>1, <1>3 DEF EndsOK
<1>9. EndsOK(t, Head(s), b, e)
  BY <1>4, <1>5, <1>7, <1>8 DEF EndsOK
<1> QED
  BY <1>6, <1>9 DEF t

(* Telling an order over is counted.                                       *)
LEMMA EndsCounted ==
  ASSUME NEW s \in Seq(Messages), NEW x, NEW b, NEW e \in [Orders -> Nat], NEW o \in Orders,
         EndsOK(s, x, b, e), IsEnd(x) => x.order # o /\ x.order \in Orders,
         \A i \in 1 .. Len(s) : IsEnd(s[i]) => s[i].order # o
  PROVE  EndsOK(s, x, b, [e EXCEPT ![o] = @ + 1])
<1> DEFINE f == [e EXCEPT ![o] = @ + 1]
<1>1. \A i \in 1 .. Len(s) : IsEnd(s[i]) => s[i].order \in Orders
  BY ElementOfSeq, MessageFacts DEF IsEnd
<1>2. \A p \in Orders : p # o => f[p] = e[p]
  OBVIOUS
<1> HIDE DEF f
<1> QED
  BY <1>1, <1>2 DEF EndsOK, f

-----------------------------------------------------------------------------
(* The queue: nothing is sent twice.                                       *)
LEMMA QueueSame ==
  ASSUME TypeOK, QueueInv, UNCHANGED <<inQueue, inRead, isReplay>>, told'.sent = told.sent,
         main'.request \in {main.request, NoRequest}
  PROVE  QueueInv' /\ \A r : Read(r)' <=> Read(r)
<1>1. \A r : Read(r)' <=> Read(r)
  BY DEF Read
<1>2. main'.request \in Requests => main'.request = main.request
  BY RequestFacts
<1> QED
  BY <1>1, <1>2 DEF QueueInv

LEMMA QueuePolls ==
  ASSUME TypeOK, QueueInv, UNCHANGED <<inQueue, inRead>>, told' = told,
         isReplay' = isReplay \/ inRead = Len(inQueue), main'.request = NoRequest
  PROVE  QueueInv' /\ \A r : Read(r) => Read(r)'
<1>1. \A r : Read(r) => Read(r)'
  <2>1. inRead \in 0 .. Len(inQueue) /\ Len(inQueue) \in Nat
    BY LenProperties DEF TypeOK, QueuesTypeOK
  <2>2. isReplay' = isReplay \/ \A i \in 1 .. Len(inQueue) : i <= inRead
    BY <2>1
  <2> QED
    BY <2>2 DEF Read
<1>2. main'.request \notin Requests
  BY RequestFacts
<1> QED
  BY <1>1, <1>2 DEF QueueInv

LEMMA QueueHandles ==
  ASSUME TypeOK, QueueInv, UNCHANGED <<inQueue, isReplay, told>>,
         inRead' = inRead + 1, inRead' \in 1 .. Len(inQueue), main.request = NoRequest,
         \/ main'.request = NoRequest
         \/ ~isReplay /\ main'.request = inQueue[inRead']
  PROVE  /\ QueueInv'
         /\ \A r : Read(r) => Read(r)' /\ (main'.request \in Requests => main'.request # r)
<1>1. inRead \in Nat /\ inQueue \in Seq(Requests)
  BY DEF TypeOK, QueuesTypeOK
<1>2. \A i \in 1 .. Len(inQueue) : i <= inRead => i <= inRead' /\ i # inRead'
  BY <1>1
<1>3. \A r : Read(r) => Read(r)'
  BY <1>2 DEF Read
<1>4. ASSUME main'.request \in Requests
      PROVE  /\ ~isReplay /\ main'.request = inQueue[inRead']
             /\ Read(main.request)'
             /\ \A r : Read(r) => main'.request # r
  <2>1. ~isReplay /\ main'.request = inQueue[inRead']
    BY <1>4, RequestFacts
  <2>2. Read(main.request)'
    <3>1. inRead' <= inRead'
      BY <1>1
    <3> QED
      BY <2>1, <3>1 DEF Read
  <2>3. \A r : Read(r) => main'.request # r
    BY <1>2, <2>1 DEF Read, QueueInv
  <2> QED
    BY <2>1, <2>2, <2>3
<1>5. main'.request \in Requests => told.sent[main'.request] = 0
  BY <1>4 DEF QueueInv
<1> QED
  BY <1>3, <1>4, <1>5 DEF QueueInv

LEMMA QueueSends ==
  ASSUME TypeOK, QueueInv, UNCHANGED <<inQueue, inRead, isReplay>>,
         main.request \in Requests, main'.request = NoRequest,
         told'.sent = [told.sent EXCEPT ![main.request] = @ + 1]
  PROVE  /\ QueueInv'
         /\ told'.sent[main.request] = 1
         /\ \A r \in Requests : r # main.request => told'.sent[r] = told.sent[r]
         /\ \A r : Read(r)' <=> Read(r)
<1>1. told.sent \in [Requests -> Nat] /\ told.sent[main.request] = 0
  BY DEF TypeOK, ToldTypeOK, QueueInv
<1>2. told'.sent[main.request] = 1
  BY <1>1
<1>3. \A r \in Requests : r # main.request => told'.sent[r] = told.sent[r]
  BY <1>1
<1>4. \A r : Read(r)' <=> Read(r)
  BY DEF Read
<1>5. main'.request \notin Requests
  BY RequestFacts
<1>6. \A r \in Requests : told'.sent[r] <= 1
  BY <1>2, <1>3 DEF QueueInv
<1>7. \A r \in Requests : told'.sent[r] # 0 => Read(r)'
  BY <1>3, <1>4 DEF QueueInv
<1> QED
  BY <1>2, <1>3, <1>4, <1>5, <1>6, <1>7 DEF QueueInv

LEMMA QueueRestarts ==
  ASSUME TypeOK, QueueInv, UNCHANGED <<inQueue, told>>, isReplay' = TRUE, main'.request = NoRequest
  PROVE  QueueInv' /\ \A r : Read(r) => Read(r)'
<1>1. \A r : Read(r) => Read(r)'
  BY DEF Read
<1>2. main'.request \notin Requests
  BY RequestFacts
<1> QED
  BY <1>1, <1>2 DEF QueueInv

LEMMA QueueGrows ==
  ASSUME TypeOK, QueueInv, UNCHANGED <<inRead, isReplay, main, told>>,
         NEW r \in Requests, ~Written(r), inQueue' = Append(inQueue, r)
  PROVE  QueueInv' /\ \A s : Read(s) => Read(s)'
<1>1. /\ Len(inQueue) \in Nat /\ Len(inQueue') = Len(inQueue) + 1
      /\ \A i \in 1 .. Len(inQueue) : inQueue'[i] = inQueue[i]
      /\ inQueue'[Len(inQueue) + 1] = r
  BY AppendFacts DEF TypeOK, QueuesTypeOK
<1>2. \A i \in 1 .. Len(inQueue) : i \in 1 .. Len(inQueue')
  BY <1>1
<1>3. \A s : Read(s) => Read(s)'
  BY <1>1, <1>2 DEF Read
<1>4. \A i \in 1 .. Len(inQueue) : inQueue[i] # r
  BY DEF Written
<1>5. \A i \in 1 .. Len(inQueue') : i \in 1 .. Len(inQueue) \/ i = Len(inQueue) + 1
  BY <1>1
<1>6. ASSUME NEW i \in 1 .. Len(inQueue'), NEW j \in 1 .. Len(inQueue'), inQueue'[i] = inQueue'[j]
      PROVE  i = j
  BY <1>1, <1>4, <1>5, <1>6 DEF QueueInv
<1> QED
  BY <1>3, <1>6 DEF QueueInv

-----------------------------------------------------------------------------
(* The link: what is under way is answered once.                           *)
LEMMA LinkEmpty ==
  ASSUME LinkInv, toExchange' = <<>>, book' = book, told'.sent = told.sent
  PROVE  LinkInv'
<1>1. Len(<<>>) = 0
  BY EmptySeq
<1> QED
  BY <1>1 DEF LinkInv, LinkOK

LEMMA LinkSends ==
  ASSUME TypeOK, LinkInv, NEW r \in Requests, told.sent[r] = 0, told'.sent[r] = 1,
         \A s \in Requests : s # r => told'.sent[s] = told.sent[s],
         toExchange' \in {toExchange, Append(toExchange, r)}, book' = book
  PROVE  LinkInv'
<1>1. toExchange \in Seq(Requests) /\ \A i \in 1 .. Len(toExchange) : toExchange[i] \in Requests
  BY ElementOfSeq DEF TypeOK, LinkTypeOK
<1>2. \A i \in 1 .. Len(toExchange) : toExchange[i] # r
  BY DEF LinkInv, LinkOK
<1>3. \A s \in Requests : told.sent[s] # 0 => told'.sent[s] # 0
  OBVIOUS
<1>4. r.kind = "NewOrder" => book[r.order] = "none"
  BY DEF LinkInv, LinkOK
<1>5. CASE toExchange' = toExchange
  BY <1>1, <1>3, <1>5 DEF LinkInv, LinkOK
<1>6. CASE toExchange' = Append(toExchange, r)
  <2>1. /\ Len(toExchange) \in Nat /\ Len(toExchange') = Len(toExchange) + 1
        /\ \A i \in 1 .. Len(toExchange) : toExchange'[i] = toExchange[i]
        /\ toExchange'[Len(toExchange) + 1] = r
    BY <1>1, <1>6, AppendFacts
  <2>2. \A i \in 1 .. Len(toExchange') : i \in 1 .. Len(toExchange) \/ i = Len(toExchange) + 1
    BY <2>1
  <2>3. \A i \in 1 .. Len(toExchange') : told'.sent[toExchange'[i]] # 0
    BY <1>1, <1>3, <2>1, <2>2 DEF LinkInv, LinkOK
  <2>4. ASSUME NEW i \in 1 .. Len(toExchange'), NEW j \in 1 .. Len(toExchange'),
               toExchange'[i] = toExchange'[j]
        PROVE  i = j
    BY <1>2, <2>1, <2>2, <2>4 DEF LinkInv, LinkOK
  <2>5. \A i \in 1 .. Len(toExchange') :
          toExchange'[i].kind = "NewOrder" => book'[toExchange'[i].order] = "none"
    BY <1>4, <2>1, <2>2 DEF LinkInv, LinkOK
  <2>6. \A s \in Requests : s.kind = "NewOrder" /\ book'[s.order] # "none" => told'.sent[s] # 0
    BY <1>3 DEF LinkInv, LinkOK
  <2> QED
    BY <2>3, <2>4, <2>5, <2>6 DEF LinkInv, LinkOK
<1> QED
  BY <1>5, <1>6

(* A request is taken from the link, ...                                   *)
LEMMA LinkTaken ==
  ASSUME NEW to \in Seq(Requests), to # <<>>, NEW b, NEW sent, LinkOK(to, b, sent)
  PROVE  /\ LinkOK(Tail(to), b, sent)
         /\ sent[Head(to)] # 0
         /\ Head(to).kind = "NewOrder" => b[Head(to).order] = "none"
         /\ \A i \in 1 .. Len(Tail(to)) : Tail(to)[i] # Head(to) /\ Tail(to)[i] \in Requests
<1> DEFINE t == Tail(to)
<1>1. /\ Len(to) \in Nat \ {0} /\ Len(t) = Len(to) - 1 /\ Head(to) = to[1]
      /\ \A i \in 1 .. Len(to) - 1 : t[i] = to[i + 1]
      /\ t \in Seq(Requests)
  BY TailFacts
<1>2. \A i \in 1 .. Len(t) : t[i] \in Requests
  BY <1>1, ElementOfSeq
<1> HIDE DEF t
<1>3. \A i \in 1 .. Len(t) : t[i] = to[i + 1] /\ i + 1 \in 1 .. Len(to) /\ i + 1 # 1
  BY <1>1
<1>4. 1 \in 1 .. Len(to)
  BY <1>1
<1>5. ASSUME NEW i \in 1 .. Len(t), NEW j \in 1 .. Len(t), t[i] = t[j]
      PROVE  i = j
  <2>1. i + 1 = j + 1
    BY <1>3, <1>5 DEF LinkOK
  <2> QED
    BY <2>1
<1>6. LinkOK(t, b, sent)
  BY <1>3, <1>5 DEF LinkOK
<1>7. \A i \in 1 .. Len(t) : t[i] # Head(to)
  BY <1>1, <1>3, <1>4 DEF LinkOK
<1>8. sent[Head(to)] # 0 /\ (Head(to).kind = "NewOrder" => b[Head(to).order] = "none")
  BY <1>1, <1>4 DEF LinkOK
<1> QED
  BY <1>2, <1>6, <1>7, <1>8 DEF t

(* ... and its order changes: no new order of that name is under way.      *)
LEMMA LinkChanges ==
  ASSUME NEW to, NEW b \in [Orders -> {"none", "live", "over"}], NEW sent, LinkOK(to, b, sent),
         \A i \in 1 .. Len(to) : to[i] \in Requests,
         NEW o \in Orders, NEW state,
         \A i \in 1 .. Len(to) : to[i].kind = "NewOrder" => to[i].order # o,
         \A r \in Requests : r.kind = "NewOrder" /\ r.order = o => sent[r] # 0
  PROVE  LinkOK(to, [b EXCEPT ![o] = state], sent)
<1> DEFINE c == [b EXCEPT ![o] = state]
<1>1. \A p \in Orders : p # o => c[p] = b[p]
  OBVIOUS
<1>2. \A r \in Requests : r.order \in Orders
  BY RequestFacts
<1> HIDE DEF c
<1> QED
  BY <1>1, <1>2 DEF LinkOK, c

-----------------------------------------------------------------------------
(* The ends: what was told, and by whom.                                   *)
LEMMA RejectedStays ==
  ASSUME \A r : Read(r) => Read(r)', told'.sent = told.sent,
         main'.request \in {main.request, NoRequest}
  PROVE  \A o : Rejected(o) => Rejected(o)'
<1>1. \A r \in Requests : main.request # r => main'.request # r
  BY RequestFacts
<1> QED
  BY <1>1 DEF Rejected

LEMMA ToldStays ==
  ASSUME ToldInv, told'.ends = told.ends, \A o : Rejected(o) => Rejected(o)',
         \A o \in Orders : book[o] = "over" => book'[o] = "over",
         fix'.type = "report" => ~fix'.second
  PROVE  ToldInv'
BY DEF ToldInv

LEMMA EndSame ==
  ASSUME EndInv, UNCHANGED <<fromExchange, fix, book>>, told'.ends = told.ends,
         \A o : Rejected(o) => Rejected(o)'
  PROVE  EndInv'
<1>1. EndsOK(fromExchange, fix, book, told.ends)'
  BY DEF EndInv
<1>2. ToldInv'
  BY ToldStays DEF EndInv, ToldInv
<1> QED
  BY <1>1, <1>2 DEF EndInv

LEMMA NotTold ==
  ASSUME TypeOK, ToldInv, NEW o \in Orders, book[o] # "over",
         \A r \in Requests : r.kind = "NewOrder" /\ r.order = o => told.sent[r] # 0
  PROVE  told.ends[o] = 0
BY DEF ToldInv, Rejected

LEMMA EndTaken ==
  ASSUME TypeOK, EndInv, fromExchange # <<>>, fromExchange' = Tail(fromExchange),
         fix' \in {fix, Head(fromExchange)}, UNCHANGED <<book, told>>,
         fix'.type = "report" => ~fix'.second, \A o : Rejected(o) => Rejected(o)'
  PROVE  EndInv'
<1>1. fromExchange \in Seq(Messages)
  BY DEF TypeOK, LinkTypeOK
<1>2. EndsOK(Tail(fromExchange), fix', book, told.ends)
  BY <1>1, EndsTaken DEF EndInv
<1>3. EndsOK(fromExchange, fix, book, told.ends)'
  BY <1>2
<1>4. ToldInv'
  BY ToldStays DEF EndInv
<1> QED
  BY <1>3, <1>4 DEF EndInv

LEMMA EndLost ==
  ASSUME EndInv, fromExchange' = <<>>, fix' \in {fix, NoMessage}, book' = book,
         told'.ends = told.ends, \A o : Rejected(o) => Rejected(o)'
  PROVE  EndInv'
<1>1. IsEnd(fix') => book[fix'.order] = "over" /\ told.ends[fix'.order] = 0
  BY NoMessageFacts DEF EndInv, EndsOK
<1>2. EndsOK(<<>>, fix', book, told.ends)
  BY <1>1, EndsEmpty
<1>3. fix'.type = "report" => ~fix'.second
  BY NoMessageFacts DEF EndInv, ToldInv
<1>4. ToldInv'
  BY <1>3, ToldStays DEF EndInv
<1>5. EndsOK(fromExchange, fix, book, told.ends)'
  BY <1>2
<1> QED
  BY <1>4, <1>5 DEF EndInv

(* The gateway tells a client what it has from the exchange.               *)
LEMMA EndWritten ==
  ASSUME TypeOK, EndInv, fix \in Messages, fix' = NoMessage, UNCHANGED <<fromExchange, book>>,
         told'.ends = IF fix.type = "report" /\ fix.status \in Final
                      THEN [told.ends EXCEPT ![fix.order] = @ + 1]
                      ELSE told.ends,
         \A o : Rejected(o) => Rejected(o)'
  PROVE  EndInv'
<1>1. fromExchange \in Seq(Messages) /\ told.ends \in [Orders -> Nat]
  BY DEF TypeOK, LinkTypeOK, ToldTypeOK
<1>2. EndsOK(fromExchange, NoMessage, book, told.ends)
  BY NoMessageFacts DEF EndInv, EndsOK
<1>3. CASE fix.type = "report" /\ fix.status \in Final
  <2>1. IsEnd(fix) /\ fix.order \in Orders
    BY <1>3, MessageFacts DEF EndInv, ToldInv, IsEnd
  <2>2. book[fix.order] = "over" /\ told.ends[fix.order] = 0
    BY <2>1 DEF EndInv, EndsOK
  <2>3. \A i \in 1 .. Len(fromExchange) : IsEnd(fromExchange[i]) => fromExchange[i].order # fix.order
    BY <2>1 DEF EndInv, EndsOK
  <2>4. told'.ends = [told.ends EXCEPT ![fix.order] = @ + 1]
    BY <1>3
  <2>5. EndsOK(fromExchange, NoMessage, book, told'.ends)
    <3>1. ~IsEnd(NoMessage)
      BY NoMessageFacts
    <3>2. EndsOK(fromExchange, NoMessage, book, [told.ends EXCEPT ![fix.order] = @ + 1])
      BY <1>1, <1>2, <2>1, <2>3, <3>1, EndsCounted
    <3> QED
      BY <2>4, <3>2
  <2>6. /\ told'.ends[fix.order] = 1
        /\ \A o \in Orders : o # fix.order => told'.ends[o] = told.ends[o]
    BY <1>1, <2>1, <2>2, <2>4
  <2>7. ToldInv'
    BY <2>1, <2>2, <2>6, NoMessageFacts DEF EndInv, ToldInv
  <2> QED
    BY <2>5, <2>7 DEF EndInv
<1>4. CASE ~(fix.type = "report" /\ fix.status \in Final)
  <2>1. told'.ends = told.ends
    BY <1>4
  <2>2. ToldInv'
    BY <2>1, NoMessageFacts, ToldStays DEF EndInv
  <2> QED
    BY <1>2, <2>1, <2>2 DEF EndInv
<1> QED
  BY <1>3, <1>4

(* The gateway rejects an order, which it has not sent.                    *)
LEMMA EndRejects ==
  ASSUME TypeOK, QueueInv, LinkInv, EndInv, UNCHANGED <<fromExchange, fix, book>>,
         NEW r \in Requests, main.request = r, main'.request = NoRequest,
         told'.sent = told.sent, \A s : Read(s)' <=> Read(s),
         told'.ends = IF r.kind = "NewOrder"
                      THEN [told.ends EXCEPT ![r.order] = @ + 1]
                      ELSE told.ends
  PROVE  EndInv'
<1>1. \A o : Rejected(o) => Rejected(o)'
  BY RejectedStays
<1>2. CASE r.kind # "NewOrder"
  BY <1>1, <1>2, EndSame
<1>3. CASE r.kind = "NewOrder"
  <2>1. told.sent[r] = 0 /\ Read(r) /\ r.order \in Orders
    BY RequestFacts DEF QueueInv
  <2>2. book[r.order] = "none"
    BY <1>3, <2>1 DEF LinkInv, LinkOK
  <2>3. told.ends[r.order] = 0
    <3>1. ~Rejected(r.order)
      BY <1>3, RequestFacts DEF Rejected
    <3> QED
      BY <2>1, <2>2, <3>1 DEF EndInv, ToldInv
  <2>4. Rejected(r.order)'
    <3>1. Read(r) /\ told'.sent[r] = 0 /\ main'.request # r
      BY <2>1, RequestFacts
    <3>2. \E s \in Requests : /\ s.kind = "NewOrder" /\ s.order = r.order
                              /\ told'.sent[s] = 0 /\ Read(s)' /\ main'.request # s
      BY <1>3, <3>1
    <3> QED
      BY <3>2 DEF Rejected
  <2>5. /\ fromExchange \in Seq(Messages) /\ told.ends \in [Orders -> Nat]
        /\ fix \in Messages \cup {NoMessage} /\ book \in [Orders -> {"none", "live", "over"}]
    BY DEF TypeOK, LinkTypeOK, ToldTypeOK, WriterTypeOK, ExchangeTypeOK
  <2>6. EndsOK(fromExchange, fix, book, told'.ends)
    <3>1. EndsOK(fromExchange, fix, book, told.ends)
      BY DEF EndInv
    <3>2. /\ \A i \in 1 .. Len(fromExchange) : IsEnd(fromExchange[i]) => fromExchange[i].order # r.order
          /\ IsEnd(fix) => fix.order # r.order
      BY <2>1, <2>2, <3>1 DEF EndsOK
    <3>a. IsEnd(fix) => fix.order \in Orders
      BY <2>5, NoMessageFacts, MessageFacts DEF IsEnd
    <3>3. told'.ends = [told.ends EXCEPT ![r.order] = @ + 1]
      BY <1>3
    <3>4. EndsOK(fromExchange, fix, book, [told.ends EXCEPT ![r.order] = @ + 1])
      BY <2>1, <2>5, <3>1, <3>2, <3>a, EndsCounted
    <3> QED
      BY <3>3, <3>4
  <2>7. /\ told'.ends[r.order] = 1
        /\ \A o \in Orders : o # r.order => told'.ends[o] = told.ends[o]
    BY <1>3, <2>1, <2>3, <2>5
  <2>8. ToldInv'
    BY <1>1, <2>4, <2>7 DEF EndInv, ToldInv
  <2> QED
    BY <2>6, <2>8 DEF EndInv
<1> QED
  BY <1>2, <1>3

(* The exchange answers a request, or an order is filled.                  *)
LEMMA EndAnswers ==
  ASSUME TypeOK, EndInv, UNCHANGED <<fix, told>>, \A o : Rejected(o) => Rejected(o)',
         NEW r \in Requests, Neutral(r), r.kind = "NewOrder" => book[r.order] = "none"
  PROVE  EndInv'
<1>1. /\ fromExchange \in Seq(Messages) /\ book \in [Orders -> {"none", "live", "over"}]
      /\ fix \in Messages \cup {NoMessage}
  BY DEF TypeOK, LinkTypeOK, WriterTypeOK, ExchangeTypeOK
<1>2. PICK m \in Messages :
        /\ ~IsEnd(m)
        /\ fromExchange' = Append(fromExchange, m)
        /\ \/ book' = book
           \/ r.kind = "NewOrder" /\ book' = [book EXCEPT ![r.order] = "live"]
  BY DEF Neutral
<1>3. r.order \in Orders
  BY RequestFacts
<1>4. EndsOK(Append(fromExchange, m), fix, book, told.ends)
  BY <1>1, <1>2, EndsNeutral DEF EndInv
<1>5. EndsOK(Append(fromExchange, m), fix, book', told.ends)
  <2>1. CASE book' = book
    BY <1>4, <2>1
  <2>2. CASE r.kind = "NewOrder" /\ book' = [book EXCEPT ![r.order] = "live"]
    <3>1. Append(fromExchange, m) \in Seq(Messages)
      BY <1>1, AppendFacts
    <3>2. EndsOK(Append(fromExchange, m), fix, [book EXCEPT ![r.order] = "live"], told.ends)
      BY <1>1, <1>3, <1>4, <2>2, <3>1, EndsOfOthers
    <3> QED
      BY <2>2, <3>2
  <2> QED
    BY <1>2, <2>1, <2>2
<1>6. \A o \in Orders : book[o] = "over" => book'[o] = "over"
  BY <1>1, <1>2, <1>3
<1>7. ToldInv'
  BY <1>6, ToldStays DEF EndInv, ToldInv
<1> QED
  BY <1>2, <1>5, <1>7 DEF EndInv

LEMMA EndEnds ==
  ASSUME TypeOK, EndInv, UNCHANGED <<fix, told>>, \A o : Rejected(o) => Rejected(o)',
         NEW o \in Orders, book[o] # "over", Ends(o),
         \A r \in Requests : r.kind = "NewOrder" /\ r.order = o => told.sent[r] # 0
  PROVE  EndInv'
<1>1. /\ fromExchange \in Seq(Messages) /\ book \in [Orders -> {"none", "live", "over"}]
      /\ fix \in Messages \cup {NoMessage} /\ told.ends \in [Orders -> Nat]
  BY DEF TypeOK, LinkTypeOK, WriterTypeOK, ExchangeTypeOK, ToldTypeOK
<1>2. told.ends[o] = 0
  BY NotTold DEF EndInv
<1>3. book' = [book EXCEPT ![o] = "over"]
  BY DEF Ends
<1>4. book'[o] = "over" /\ \A p \in Orders : book[p] = "over" => book'[p] = "over"
  BY <1>1, <1>3
<1>5. EndsOK(fromExchange, fix, book, told.ends)
  BY DEF EndInv
<1>6. /\ \A i \in 1 .. Len(fromExchange) : IsEnd(fromExchange[i]) => fromExchange[i].order # o
      /\ IsEnd(fix) => fix.order # o
      /\ EndsOK(fromExchange, fix, [book EXCEPT ![o] = "over"], told.ends)
  BY <1>1, <1>5, EndsOfOthers
<1>7. EndsOK(fromExchange, fix, book', told.ends)
  BY <1>3, <1>6
<1>8. EndsOK(fromExchange', fix, book', told.ends)
  <2>1. CASE fromExchange' = fromExchange
    BY <1>7, <2>1
  <2>2. CASE \E m \in Messages :
               /\ IsEnd(m) /\ m.order = o
               /\ \/ fromExchange' = Append(fromExchange, m)
                  \/ \E n \in Messages :
                       ~IsEnd(n) /\ fromExchange' = Append(Append(fromExchange, m), n)
    <3>1. PICK m \in Messages :
               /\ IsEnd(m) /\ m.order = o
               /\ \/ fromExchange' = Append(fromExchange, m)
                  \/ \E n \in Messages :
                       ~IsEnd(n) /\ fromExchange' = Append(Append(fromExchange, m), n)
      BY <2>2
    <3>2. EndsOK(Append(fromExchange, m), fix, book', told.ends)
      BY <1>1, <1>2, <1>4, <1>6, <1>7, <3>1, EndsAnother
    <3>3. Append(fromExchange, m) \in Seq(Messages)
      BY <1>1, AppendFacts
    <3>4. \A n \in Messages :
            ~IsEnd(n) => EndsOK(Append(Append(fromExchange, m), n), fix, book', told.ends)
      BY <3>2, <3>3, EndsNeutral
    <3> QED
      BY <3>1, <3>2, <3>4
  <2> QED
    BY <2>1, <2>2 DEF Ends
<1>9. ToldInv'
  BY <1>4, ToldStays DEF EndInv, ToldInv
<1> QED
  BY <1>8, <1>9 DEF EndInv

-----------------------------------------------------------------------------
(* The invariant, action by action.                                        *)
AllInv == QueueInv /\ LinkInv /\ EndInv

LEMMA InitInv == Init => IInv
<1> SUFFICES ASSUME Init PROVE IInv
  OBVIOUS
<1>1. /\ TypeOK
      /\ inQueue = <<>> /\ toExchange = <<>> /\ fromExchange = <<>> /\ fix = NoMessage
      /\ told.sent = [r \in Requests |-> 0] /\ told.ends = [o \in Orders |-> 0]
      /\ main.request = NoRequest /\ book = [o \in Orders |-> "none"]
  BY InitEffect
<1>2. Len(<<>>) = 0
  BY EmptySeq
<1>3. QueueInv
  <2>1. \A r \in Requests : told.sent[r] = 0
    BY <1>1
  <2> QED
    BY <1>1, <1>2, <2>1, RequestFacts DEF QueueInv
<1>4. LinkInv
  <2>1. \A r \in Requests : book[r.order] = "none"
    BY <1>1, RequestFacts
  <2> QED
    BY <1>1, <1>2, <2>1 DEF LinkInv, LinkOK
<1>5. EndInv
  <2>1. \A o \in Orders : told.ends[o] = 0
    BY <1>1
  <2>2. EndsOK(<<>>, fix, book, told.ends)
    BY <1>1, NoMessageFacts, EndsEmpty
  <2> QED
    BY <1>1, <2>1, <2>2, NoMessageFacts DEF EndInv, ToldInv
<1>6. IdleInv
  BY DEF Init, ApplicationInit, IdleInv
<1> QED
  BY <1>1, <1>3, <1>4, <1>5, <1>6 DEF IInv

(* Steps that leave the exchange and what was told alone.                  *)
LEMMA SameInv ==
  ASSUME TypeOK, AllInv, QueueInv', \A r : Read(r) => Read(r)',
         told'.sent = told.sent, told'.ends = told.ends,
         UNCHANGED <<toExchange, fromExchange, fix, book>>,
         main'.request \in {main.request, NoRequest}
  PROVE  AllInv'
<1>1. LinkInv'
  BY DEF AllInv, LinkInv
<1>2. \A o : Rejected(o) => Rejected(o)'
  BY RejectedStays
<1>3. EndInv'
  BY <1>2, EndSame DEF AllInv
<1> QED
  BY <1>1, <1>3 DEF AllInv

LEMMA MainInv ==
  ASSUME TypeOK, AllInv, MainThread
  PROVE  TypeOK' /\ AllInv'
<1>1. UNCHANGED exchangeVars /\ book' = book
  BY DEF MainThread, exchangeVars
<1>2. CASE (PollMarketData \/ PollsNothing) /\ UNCHANGED threadVars
  <2>1. /\ TypeOK' /\ UNCHANGED <<inQueue, inRead>>
        /\ main.request = NoRequest /\ main'.request = NoRequest
        /\ isReplay' = isReplay \/ inRead = Len(inQueue)
    BY <1>1, <1>2, PollEffect
  <2>2. UNCHANGED <<told, fix, toExchange, fromExchange>>
    BY <1>2 DEF threadVars, linkVars
  <2>3. QueueInv' /\ \A r : Read(r) => Read(r)'
    BY <2>1, <2>2, QueuePolls DEF AllInv
  <2> QED
    BY <1>1, <2>1, <2>2, <2>3, SameInv
<1>3. CASE OnNewOrder \/ OnAmendOrder \/ OnCancelOrder
  <2>1. /\ TypeOK'
        /\ UNCHANGED <<inQueue, isReplay, toExchange, fromExchange, fix, told>>
        /\ inRead' = inRead + 1 /\ inRead' \in 1 .. Len(inQueue)
        /\ main.request = NoRequest
        /\ \/ main'.request = NoRequest
           \/ ~isReplay /\ main'.request = inQueue[inRead']
    BY <1>1, <1>3, HandleEffect
  <2>2. /\ QueueInv'
        /\ \A r : Read(r) => Read(r)' /\ (main'.request \in Requests => main'.request # r)
    BY <2>1, QueueHandles DEF AllInv
  <2>3. LinkInv'
    BY <1>1, <2>1 DEF AllInv, LinkInv
  <2>4. \A o : Rejected(o) => Rejected(o)'
    <3>1. \A r \in Requests : Read(r) => main'.request # r
      BY <2>2
    <3> QED
      BY <2>1, <2>2, <3>1 DEF Rejected
  <2>5. EndInv'
    BY <1>1, <2>1, <2>4, EndSame DEF AllInv
  <2> QED
    BY <2>1, <2>2, <2>3, <2>5 DEF AllInv
<1>4. CASE SendToTarget
  <2>1. /\ TypeOK'
        /\ UNCHANGED <<inQueue, inRead, isReplay, fromExchange, fix>>
        /\ main.request \in Requests /\ main'.request = NoRequest
        /\ toExchange' \in {toExchange, Append(toExchange, main.request)}
        /\ told'.sent = [told.sent EXCEPT ![main.request] = @ + 1]
        /\ told'.ends = told.ends
    BY <1>1, <1>4, SendEffect
  <2>2. /\ QueueInv'
        /\ told'.sent[main.request] = 1
        /\ \A r \in Requests : r # main.request => told'.sent[r] = told.sent[r]
        /\ \A r : Read(r)' <=> Read(r)
    BY <2>1, QueueSends DEF AllInv
  <2>3. LinkInv'
    <3>1. told.sent[main.request] = 0
      BY <2>1 DEF AllInv, QueueInv
    <3> QED
      BY <1>1, <2>1, <2>2, <3>1, LinkSends DEF AllInv
  <2>4. \A o : Rejected(o) => Rejected(o)'
    <3>1. \A r \in Requests : main'.request # r
      BY <2>1, RequestFacts
    <3> QED
      BY <2>2, <3>1 DEF Rejected
  <2>5. EndInv'
    BY <1>1, <2>1, <2>4, EndSame DEF AllInv
  <2> QED
    BY <2>1, <2>2, <2>3, <2>5 DEF AllInv
<1>5. CASE PrepareReject
  <2>1. /\ TypeOK' /\ main'.request = main.request
        /\ UNCHANGED <<inQueue, inRead, isReplay, toExchange, fromExchange, fix, told>>
    BY <1>1, <1>5, PrepareRejectEffect
  <2>2. QueueInv' /\ \A r : Read(r)' <=> Read(r)
    BY <2>1, QueueSame DEF AllInv
  <2> QED
    BY <1>1, <2>1, <2>2, SameInv
<1>6. CASE WriteReject
  <2>1. /\ TypeOK'
        /\ UNCHANGED <<inQueue, inRead, isReplay, toExchange, fromExchange, fix>>
        /\ main.request \in Requests /\ main'.request = NoRequest
        /\ told'.sent = told.sent
        /\ told'.ends = IF main.request.kind = "NewOrder"
                        THEN [told.ends EXCEPT ![main.request.order] = @ + 1]
                        ELSE told.ends
    BY <1>1, <1>6, WriteRejectEffect
  <2>2. QueueInv' /\ \A r : Read(r)' <=> Read(r)
    BY <2>1, QueueSame DEF AllInv
  <2>3. LinkInv'
    BY <1>1, <2>1 DEF AllInv, LinkInv
  <2>4. EndInv'
    BY <1>1, <2>1, <2>2, EndRejects DEF AllInv
  <2> QED
    BY <2>1, <2>2, <2>3, <2>4 DEF AllInv
<1> QED
  BY <1>2, <1>3, <1>4, <1>5, <1>6 DEF MainThread, MainStep, threadVars

LEMMA DeathInv ==
  ASSUME TypeOK, AllInv, Dies, UNCHANGED <<book, losses>>, crashes' \in 0 .. MaxCrashes
  PROVE  TypeOK' /\ AllInv'
<1>1. /\ TypeOK'
      /\ UNCHANGED <<inQueue, inRead, isReplay, book>>
      /\ toExchange' = <<>> /\ fromExchange' = <<>> /\ fix' = NoMessage
      /\ told'.sent = told.sent /\ told'.ends = told.ends
      /\ main'.request = NoRequest
  BY DiesEffect
<1>2. QueueInv' /\ \A r : Read(r)' <=> Read(r)
  BY <1>1, QueueSame DEF AllInv
<1>3. LinkInv'
  BY <1>1, LinkEmpty DEF AllInv
<1>4. \A o : Rejected(o) => Rejected(o)'
  BY <1>1, <1>2, RejectedStays
<1>5. EndInv'
  BY <1>1, <1>4, EndLost DEF AllInv
<1> QED
  BY <1>1, <1>2, <1>3, <1>5 DEF AllInv

LEMMA FixInv ==
  ASSUME TypeOK, AllInv, FixThread
  PROVE  TypeOK' /\ AllInv'
<1>1. UNCHANGED exchangeVars /\ book' = book
  BY DEF FixThread, exchangeVars
<1>2. CASE OnLogout
  <2>1. /\ TypeOK'
        /\ UNCHANGED <<inQueue, inRead, isReplay, main, toExchange, fromExchange, fix, told>>
    BY <1>1, <1>2, LogonEffect
  <2>2. QueueInv' /\ \A r : Read(r)' <=> Read(r)
    BY <2>1, QueueSame DEF AllInv
  <2> QED
    BY <1>1, <2>1, <2>2, SameInv
<1>3. CASE DropReport
  <2>1. /\ TypeOK'
        /\ UNCHANGED <<inQueue, inRead, isReplay, main, toExchange, told>>
        /\ fromExchange # <<>> /\ fromExchange' = Tail(fromExchange)
        /\ fix = NoMessage /\ fix' = NoMessage
    BY <1>1, <1>3, DropEffect
  <2>2. QueueInv' /\ \A r : Read(r)' <=> Read(r)
    BY <2>1, QueueSame DEF AllInv
  <2>3. LinkInv'
    BY <1>1, <2>1 DEF AllInv, LinkInv
  <2>4. EndInv'
    <3>1. \A o : Rejected(o) => Rejected(o)'
      BY <2>1, <2>2, RejectedStays
    <3>2. fix'.type = "report" => ~fix'.second
      BY <2>1, NoMessageFacts
    <3> QED
      BY <1>1, <2>1, <3>1, <3>2, EndTaken DEF AllInv
  <2> QED
    BY <2>1, <2>2, <2>3, <2>4 DEF AllInv
<1>4. CASE PrepareReport
  <2>1. /\ TypeOK'
        /\ UNCHANGED <<inQueue, inRead, isReplay, main, toExchange, told>>
        /\ fromExchange # <<>> /\ fromExchange' = Tail(fromExchange)
        /\ fix' = Head(fromExchange)
        /\ fix'.type = "report" => ~fix'.second
    BY <1>1, <1>4, PrepareReportEffect
  <2>2. QueueInv' /\ \A r : Read(r)' <=> Read(r)
    BY <2>1, QueueSame DEF AllInv
  <2>3. LinkInv'
    BY <1>1, <2>1 DEF AllInv, LinkInv
  <2>4. EndInv'
    <3>1. \A o : Rejected(o) => Rejected(o)'
      BY <2>1, <2>2, RejectedStays
    <3> QED
      BY <1>1, <2>1, <3>1, EndTaken DEF AllInv
  <2> QED
    BY <2>1, <2>2, <2>3, <2>4 DEF AllInv
<1>5. CASE WriteReport
  <2>1. /\ TypeOK'
        /\ UNCHANGED <<inQueue, inRead, isReplay, main, toExchange, fromExchange>>
        /\ fix \in Messages /\ fix' = NoMessage
        /\ told'.sent = told.sent
        /\ told'.ends = IF fix.type = "report" /\ fix.status \in Final
                        THEN [told.ends EXCEPT ![fix.order] = @ + 1]
                        ELSE told.ends
    BY <1>1, <1>5, WriteReportEffect
  <2>2. QueueInv' /\ \A r : Read(r)' <=> Read(r)
    BY <2>1, QueueSame DEF AllInv
  <2>3. LinkInv'
    BY <1>1, <2>1 DEF AllInv, LinkInv
  <2>4. EndInv'
    <3>1. \A o : Rejected(o) => Rejected(o)'
      BY <2>1, <2>2, RejectedStays
    <3> QED
      BY <1>1, <2>1, <3>1, EndWritten DEF AllInv
  <2> QED
    BY <2>1, <2>2, <2>3, <2>4 DEF AllInv
<1>6. CASE Terminate
  <2>1. crashes' \in 0 .. MaxCrashes /\ losses' = losses
    BY <1>1 DEF exchangeVars, TypeOK, ExchangeTypeOK
  <2>2. Dies
    BY <1>6 DEF Terminate
  <2> QED
    BY <1>1, <2>1, <2>2, DeathInv
<1> QED
  BY <1>2, <1>3, <1>4, <1>5, <1>6 DEF FixThread, FixStep

LEMMA AnswerInv ==
  ASSUME TypeOK, AllInv, ExchangeAnswers \/ ExchangeAnswersOddly
  PROVE  TypeOK' /\ AllInv'
<1>1. PICK h : h = Head(toExchange)
  OBVIOUS
<1>2. /\ TypeOK'
      /\ UNCHANGED <<inQueue, inRead, isReplay, main, fix, told>>
      /\ toExchange # <<>> /\ toExchange' = Tail(toExchange)
      /\ \/ Neutral(h)
         \/ (h.kind = "NewOrder" \/ book[h.order] = "live") /\ Ends(h.order)
  BY <1>1, AnswerEffect
<1>3. QueueInv' /\ \A o : Rejected(o) => Rejected(o)'
  BY <1>2, QueueSame, RejectedStays DEF AllInv
<1>4. toExchange \in Seq(Requests) /\ book \in [Orders -> {"none", "live", "over"}]
  BY DEF TypeOK, LinkTypeOK, ExchangeTypeOK
<1>5. h \in Requests /\ h.order \in Orders
  BY <1>1, <1>2, <1>4, TailFacts, RequestFacts
<1>6. LinkOK(toExchange, book, told.sent)
  BY DEF AllInv, LinkInv
<1>7. /\ LinkOK(toExchange', book, told.sent)
      /\ told.sent[h] # 0
      /\ h.kind = "NewOrder" => book[h.order] = "none"
      /\ \A i \in 1 .. Len(toExchange') : toExchange'[i] # h /\ toExchange'[i] \in Requests
  BY <1>1, <1>2, <1>4, <1>6, LinkTaken
<1>8. ASSUME NEW state, h.kind = "NewOrder" \/ book[h.order] = "live",
             book' = [book EXCEPT ![h.order] = state]
      PROVE  /\ LinkInv'
             /\ \A r \in Requests : r.kind = "NewOrder" /\ r.order = h.order => told.sent[r] # 0
  <2>1. \A r \in Requests : r.kind = "NewOrder" /\ r.order = h.order => told.sent[r] # 0
    <3>1. CASE h.kind = "NewOrder"
      BY <1>5, <1>7, <3>1, RequestFacts
    <3>2. CASE book[h.order] = "live"
      BY <1>6, <3>2 DEF LinkOK
    <3> QED
      BY <1>8, <3>1, <3>2
  <2>2. \A i \in 1 .. Len(toExchange') :
          toExchange'[i].kind = "NewOrder" => toExchange'[i].order # h.order
    <3>1. CASE h.kind = "NewOrder"
      BY <1>5, <1>7, <3>1, RequestFacts
    <3>2. CASE book[h.order] = "live"
      BY <1>7, <3>2 DEF LinkOK
    <3> QED
      BY <1>8, <3>1, <3>2
  <2>3. \A i \in 1 .. Len(toExchange') : toExchange'[i] \in Requests
    BY <1>7
  <2>4. LinkOK(toExchange', [book EXCEPT ![h.order] = state], told.sent)
    BY <1>4, <1>5, <1>7, <2>1, <2>2, <2>3, LinkChanges
  <2> QED
    BY <1>2, <1>8, <2>1, <2>4 DEF LinkInv
<1>9. CASE Neutral(h)
  <2>1. LinkInv'
    <3>1. CASE book' = book
      BY <1>2, <1>7, <3>1 DEF LinkInv
    <3>2. CASE h.kind = "NewOrder" /\ book' = [book EXCEPT ![h.order] = "live"]
      BY <1>8, <3>2
    <3> QED
      BY <1>9, <3>1, <3>2 DEF Neutral
  <2>2. EndInv'
    BY <1>2, <1>3, <1>5, <1>7, <1>9, EndAnswers DEF AllInv
  <2> QED
    BY <1>2, <1>3, <2>1, <2>2 DEF AllInv
<1>10. CASE (h.kind = "NewOrder" \/ book[h.order] = "live") /\ Ends(h.order)
  <2>1. book' = [book EXCEPT ![h.order] = "over"]
    BY <1>10 DEF Ends
  <2>2. /\ LinkInv'
        /\ \A r \in Requests : r.kind = "NewOrder" /\ r.order = h.order => told.sent[r] # 0
    BY <1>8, <1>10, <2>1
  <2>3. book[h.order] # "over"
    BY <1>7, <1>10
  <2>4. EndInv'
    BY <1>2, <1>3, <1>5, <1>10, <2>2, <2>3, EndEnds DEF AllInv
  <2> QED
    BY <1>2, <1>3, <2>2, <2>4 DEF AllInv
<1> QED
  BY <1>2, <1>9, <1>10

LEMMA FillInv ==
  ASSUME TypeOK, AllInv, NEW o \in Orders, Fill(o)
  PROVE  TypeOK' /\ AllInv'
<1>1. /\ TypeOK'
      /\ UNCHANGED <<inQueue, inRead, isReplay, main, fix, told, toExchange>>
      /\ book[o] = "live" /\ Ends(o)
  BY FillEffect
<1>2. QueueInv' /\ \A p : Rejected(p) => Rejected(p)'
  BY <1>1, QueueSame, RejectedStays DEF AllInv
<1>3. /\ toExchange \in Seq(Requests) /\ book \in [Orders -> {"none", "live", "over"}]
      /\ \A i \in 1 .. Len(toExchange) : toExchange[i] \in Requests
  BY ElementOfSeq DEF TypeOK, LinkTypeOK, ExchangeTypeOK
<1>4. LinkOK(toExchange, book, told.sent)
  BY DEF AllInv, LinkInv
<1>5. \A r \in Requests : r.kind = "NewOrder" /\ r.order = o => told.sent[r] # 0
  BY <1>1, <1>4 DEF LinkOK
<1>6. \A i \in 1 .. Len(toExchange) : toExchange[i].kind = "NewOrder" => toExchange[i].order # o
  BY <1>1, <1>4 DEF LinkOK
<1>7. LinkOK(toExchange, [book EXCEPT ![o] = "over"], told.sent)
  BY <1>3, <1>4, <1>5, <1>6, LinkChanges
<1>8. LinkInv'
  BY <1>1, <1>7 DEF Ends, LinkInv
<1>9. EndInv'
  BY <1>1, <1>2, <1>5, EndEnds DEF AllInv
<1> QED
  BY <1>1, <1>2, <1>8, <1>9 DEF AllInv

LEMMA BreakInv ==
  ASSUME TypeOK, AllInv, LinkBreaks
  PROVE  TypeOK' /\ AllInv'
<1>1. /\ TypeOK'
      /\ UNCHANGED <<inQueue, inRead, isReplay, main, fix, book>>
      /\ toExchange' = <<>> /\ fromExchange' = <<>>
      /\ told'.sent = told.sent /\ told'.ends = told.ends
  BY BreakEffect
<1>2. QueueInv' /\ \A o : Rejected(o) => Rejected(o)'
  BY <1>1, QueueSame, RejectedStays DEF AllInv
<1>3. LinkInv'
  BY <1>1, LinkEmpty DEF AllInv
<1>4. EndInv'
  BY <1>1, <1>2, EndLost DEF AllInv
<1> QED
  BY <1>1, <1>2, <1>3, <1>4 DEF AllInv

LEMMA RestartInv ==
  ASSUME TypeOK, AllInv, IdleInv, Restart
  PROVE  TypeOK' /\ AllInv'
<1>1. main.at # "writing"
  BY DEF IdleInv, Restart
<1>2. /\ TypeOK'
      /\ UNCHANGED <<inQueue, fix, book, told, toExchange, fromExchange>>
      /\ isReplay' = TRUE /\ main'.request = NoRequest
  BY <1>1, RestartEffect
<1>3. QueueInv' /\ \A r : Read(r) => Read(r)'
  BY <1>2, QueueRestarts DEF AllInv
<1> QED
  BY <1>2, <1>3, SameInv

LEMMA EnvironmentInv ==
  ASSUME TypeOK, AllInv, Environment
  PROVE  TypeOK' /\ AllInv'
<1>1. /\ TypeOK'
      /\ UNCHANGED <<inRead, isReplay, main, fix, book, told, toExchange, fromExchange>>
      /\ \/ inQueue' = inQueue
         \/ \E r \in Requests : ~Written(r) /\ inQueue' = Append(inQueue, r)
  BY EnvironmentEffect
<1>2. QueueInv' /\ \A r : Read(r) => Read(r)'
  <2>1. CASE inQueue' = inQueue
    BY <1>1, <2>1, QueueSame DEF AllInv
  <2>2. CASE \E r \in Requests : ~Written(r) /\ inQueue' = Append(inQueue, r)
    BY <1>1, <2>2, QueueGrows DEF AllInv
  <2> QED
    BY <1>1, <2>1, <2>2
<1> QED
  BY <1>1, <1>2, SameInv

LEMMA IdleStep == TypeOK /\ IdleInv /\ [Next]_vars => IdleInv'
<1> SUFFICES ASSUME TypeOK, IdleInv, [Next]_vars PROVE IdleInv'
  OBVIOUS
<1>1. CASE MainThread
  <2>1. running
    BY <1>1 DEF MainThread, MainStep
  <2>2. running' = running
    BY <1>1 DEF MainThread, MainStep, OnNewOrder, OnAmendOrder, OnCancelOrder, Handles,
                SendToTarget, PrepareReject, WriteReject
  <2> QED
    BY <2>1, <2>2 DEF IdleInv
<1>2. ASSUME Dies PROVE IdleInv'
  BY <1>2 DEF Dies, At, IdleInv
<1>3. ASSUME UNCHANGED <<runnerVars, running>> PROVE IdleInv'
  BY <1>3 DEF runnerVars, IdleInv
<1>4. CASE FixThread
  <2>1. Dies \/ UNCHANGED <<runnerVars, running>>
    BY <1>4 DEF FixThread, FixStep, DropReport, PrepareReport, WriteReport, Terminate, OnLogout
  <2> QED
    BY <1>2, <1>3, <2>1
<1>5. CASE OnLogon \/ ExchangeAnswers \/ ExchangeAnswersOddly \/ LinkBreaks \/ \E o \in Orders : Fill(o)
  <2>1. UNCHANGED <<runnerVars, running>>
    BY <1>5 DEF OnLogon, ExchangeAnswers, ExchangeAnswersOddly, LinkBreaks, Fill
  <2> QED
    BY <1>3, <2>1
<1>6. CASE Crash
  BY <1>2, <1>6 DEF Crash
<1>7. CASE Restart
  BY <1>7 DEF Restart, IdleInv
<1>8. CASE Environment
  BY <1>8 DEF Environment, Publish, WriteRequest, IdleInv
<1>9. CASE UNCHANGED vars
  BY <1>9 DEF vars, gatewayVars, runnerVars, IdleInv
<1> QED
  BY <1>1, <1>4, <1>5, <1>6, <1>7, <1>8, <1>9 DEF Next

LEMMA NextInv == IInv /\ [Next]_vars => IInv'
<1> SUFFICES ASSUME IInv, [Next]_vars PROVE IInv'
  OBVIOUS
<1>1. TypeOK /\ AllInv /\ IdleInv
  BY DEF IInv, AllInv
<1>2. IdleInv'
  BY <1>1, IdleStep
<1>3. TypeOK' /\ AllInv'
  <2>1. CASE MainThread
    BY <1>1, <2>1, MainInv
  <2>2. CASE FixThread
    BY <1>1, <2>2, FixInv
  <2>3. CASE OnLogon /\ UNCHANGED <<book, crashes, losses>>
    <3>1. /\ TypeOK' /\ book' = book
          /\ UNCHANGED <<inQueue, inRead, isReplay, main, toExchange, fromExchange, fix, told>>
      BY <1>1, <2>3, LogonEffect DEF exchangeVars
    <3>2. QueueInv' /\ \A r : Read(r)' <=> Read(r)
      BY <1>1, <3>1, QueueSame DEF AllInv
    <3> QED
      BY <1>1, <3>1, <3>2, SameInv
  <2>4. CASE ExchangeAnswers \/ ExchangeAnswersOddly
    BY <1>1, <2>4, AnswerInv
  <2>5. CASE \E o \in Orders : Fill(o)
    BY <1>1, <2>5, FillInv
  <2>6. CASE LinkBreaks
    BY <1>1, <2>6, BreakInv
  <2>7. CASE Crash
    <3>1. crashes < MaxCrashes /\ crashes' = crashes + 1
      BY <2>7 DEF Crash
    <3>2. crashes \in 0 .. MaxCrashes /\ MaxCrashes \in Nat
      BY <1>1, DeribitGatewayAssumption DEF TypeOK, ExchangeTypeOK
    <3>3. crashes' \in 0 .. MaxCrashes
      BY <3>1, <3>2
    <3>4. Dies /\ UNCHANGED <<book, losses>>
      BY <2>7 DEF Crash
    <3> QED
      BY <1>1, <3>3, <3>4, DeathInv
  <2>8. CASE Restart
    BY <1>1, <2>8, RestartInv
  <2>9. CASE Environment
    BY <1>1, <2>9, EnvironmentInv
  <2>10. CASE UNCHANGED vars
    <3>1. UNCHANGED <<runnerVars, running, linkVars, loggedOn, mutex, fix, told, exchangeVars>>
      BY <2>10 DEF vars, gatewayVars, exchangeVars
    <3>2. TypeOK'
      BY <1>1, <3>1 DEF TypeOK, QueuesTypeOK, MainTypeOK, LinkTypeOK, WriterTypeOK, ToldTypeOK,
                        ExchangeTypeOK, runnerVars, linkVars, exchangeVars
    <3>3. /\ UNCHANGED <<inQueue, inRead, isReplay, main, toExchange, fromExchange, fix, told>>
          /\ book' = book
      BY <3>1 DEF runnerVars, linkVars, exchangeVars
    <3>4. QueueInv' /\ \A r : Read(r)' <=> Read(r)
      BY <1>1, <3>3, QueueSame DEF AllInv
    <3> QED
      BY <1>1, <3>2, <3>3, <3>4, SameInv
  <2> QED
    BY <2>1, <2>2, <2>3, <2>4, <2>5, <2>6, <2>7, <2>8, <2>9, <2>10 DEF Next
<1> QED
  BY <1>2, <1>3 DEF IInv, AllInv

LEMMA Invariant == Spec => []IInv
<1>1. Init => IInv
  BY InitInv
<1>2. IInv /\ [Next]_vars => IInv'
  BY NextInv
<1> QED
  BY <1>1, <1>2, PTL DEF Spec

-----------------------------------------------------------------------------
(* Every variable has its type, and the writer's mutex is held by the      *)
(* thread that is between prepareMessage and writeMessage, and by no other.*)
THEOREM TypeCorrect == Spec => []TypeOK
<1>1. IInv => TypeOK
  BY DEF IInv
<1> QED
  BY <1>1, Invariant, PTL

(* No request is handed to the session twice, however often the process    *)
(* starts again and replays the inbound queue.                             *)
THEOREM NothingSentTwice == Spec => []SentOnce
<1>1. IInv => SentOnce
  BY DEF IInv, QueueInv, SentOnce
<1> QED
  BY <1>1, Invariant, PTL

(* No order is reported over twice, rejected by the gateway, or rejected,  *)
(* filled or cancelled by the exchange, with two reports of each cancel.   *)
THEOREM EndsOnce == Spec => []SingleEnd
<1>1. IInv => SingleEnd
  BY DEF IInv, EndInv, ToldInv, SingleEnd
<1> QED
  BY <1>1, Invariant, PTL

(* An order that a client was told is over does not live at the exchange   *)
(* and is not on its way there, whatever was lost in between.              *)
THEOREM NoOrphansLeft == Spec => []NoOrphans
<1>1. ASSUME IInv PROVE NoOrphans
  <2> SUFFICES ASSUME NEW o \in Orders, told.ends[o] > 0
               PROVE  book[o] # "live" /\ ~OnItsWay(o)
    BY DEF NoOrphans
  <2>1. told.ends[o] # 0
    OBVIOUS
  <2>2. book[o] = "over" \/ Rejected(o)
    BY <1>1, <2>1 DEF IInv, EndInv, ToldInv
  <2>3. \A i \in 1 .. Len(toExchange) : toExchange[i] \in Requests
    BY <1>1, ElementOfSeq DEF IInv, TypeOK, LinkTypeOK
  <2>4. CASE book[o] = "over"
    BY <1>1, <2>4 DEF IInv, LinkInv, LinkOK, OnItsWay
  <2>5. CASE Rejected(o)
    <3>1. PICK r \in Requests : r.kind = "NewOrder" /\ r.order = o /\ told.sent[r] = 0
      BY <2>5 DEF Rejected
    <3>2. book[o] # "live"
      BY <1>1, <3>1 DEF IInv, LinkInv, LinkOK
    <3>3. ASSUME OnItsWay(o) PROVE FALSE
      <4>1. PICK i \in 1 .. Len(toExchange) :
              toExchange[i].kind = "NewOrder" /\ toExchange[i].order = o
        BY <3>3 DEF OnItsWay
      <4>2. toExchange[i] = r
        BY <2>3, <3>1, <4>1, RequestFacts
      <4> QED
        BY <1>1, <3>1, <4>2 DEF IInv, LinkInv, LinkOK
    <3> QED
      BY <3>2, <3>3
  <2> QED
    BY <2>2, <2>4, <2>5
<1> QED
  BY <1>1, Invariant, PTL
=============================================================================
