----------------------- MODULE HyperliquidMarketData -----------------------
(***************************************************************************)
(* The Hyperliquid market data process: HyperliquidMDApplication on its    *)
(* base, around one HyperliquidMessageProcessor.  The websocket's thread   *)
(* calls back with connections, books, best prices and trades; metadata    *)
(* are answered on the REST client's thread, and retry threads ask again.  *)
(*                                                                         *)
(* Both threads use the processor's maps without a lock.  So a callback is *)
(* one step only where nothing that the other thread does in the midst of  *)
(* it has an effect of its own, which is the case of a trade and of the    *)
(* treatment of expired outcomes.  The registration of a coin, a reset, a  *)
(* best price and a book are several steps, with those of the other thread *)
(* in between.  What becomes of a container that both threads change at    *)
(* the same instant is left out.                                           *)
(*                                                                         *)
(* The exchange and the two client libraries are not in the repository.    *)
(***************************************************************************)
EXTENDS HyperliquidMessageProcessor, FiniteSets

CONSTANTS
  MetaRequests,    (* the metadata requests about perpetuals: metaAsync()   *)
                   (* and metaAsync("xyz")                                  *)
  Dex,             (* the one of them that lists each perpetual             *)
  ListedFrom,      (* from when on each outcome is listed                   *)
  LossesNoticed,   (* does onDisconnected always come before the next       *)
                   (* onConnected?                                          *)
  MaxTime,         (* bound of the clock                                    *)
  MaxTroubles,     (* bound: losses of the websocket, and requests that     *)
                   (* fail                                                  *)
  MaxLate          (* bound: the kinds of request under way when the        *)
                   (* websocket is lost                                     *)

(* and outcomeMetaAsync()                                                  *)
Requests == MetaRequests \cup {"outcomeMeta"}

ASSUME HyperliquidMarketDataAssumption ==
  /\ "meta" \in MetaRequests /\ "outcomeMeta" \notin MetaRequests
  /\ Dex \in [Perps -> MetaRequests]
  /\ ListedFrom \in [Outcomes -> Nat]
  /\ LossesNoticed \in BOOLEAN
  /\ MaxTime \in Nat /\ MaxTroubles \in Nat /\ MaxLate \in Nat

VARIABLES
  md,                   (* the processor, and what its consumers heard      *)
  metaReceived,         (* m_metaReceived                                   *)
  outcomeMetaReceived,  (* m_outcomeMetaReceived                            *)
  rest,                 (* the callback the REST thread is in, and the      *)
                        (* coins it has still to register                   *)
  reg,                  (* the coin it registers, its id, and what it does  *)
                        (* with them next                                   *)
  cb,                   (* the callback the websocket's thread is in        *)
  asked,                (* how many of each request are under way           *)
  retries,              (* how many retry threads sleep, for each request   *)
  ws,                   (* the websocket: "down", "up", or "broken" without *)
                        (* onDisconnected having been called                *)
  subscribed,           (* the coins the exchange sends books of            *)
  now,                  (* the clock, in steps of some minutes              *)
  troubles,             (* history: for the bound                           *)
  lost,                 (* history: requests that failed and were not sent  *)
                        (* again                                            *)
  torn,                 (* history: did a registration get into a reset,    *)
                        (* "never", before the last reset ("mended"), or    *)
                        (* since ("torn")?                                  *)
  raced                 (* history: ids whose prices the REST thread got in *)
                        (* the way of, since their last full book           *)

applicationVars == <<metaReceived, outcomeMetaReceived, asked, retries>>

exchangeVars == <<ws, subscribed, now, troubles, lost>>

overlaps == <<torn, raced>>

vars == <<md, applicationVars, rest, reg, cb, exchangeVars, overlaps>>

NoCallback == [of |-> "none", todo |-> {}]

NoRegistration == [at |-> "none"]

Idle == [of |-> "none"]

Registrations ==
  [at : {"link", "hold", "setStatus", "sendStatus"}, coin : Symbols, id : Ids]

Resets == [of : {"connect", "disconnect"}, at : {"withdraw", "clearSecurities", "clearSymbols"}]

Callbacks == [of : {"bbo", "book"}, id : Ids] \cup Resets

None == [r \in Requests |-> 0]

Init ==
  /\ md = HyperliquidInit
  /\ metaReceived = FALSE /\ outcomeMetaReceived = FALSE
  /\ rest = NoCallback /\ reg = NoRegistration /\ cb = Idle
  /\ asked = None /\ retries = None
  /\ ws = "down" /\ subscribed = {}
  /\ now = 0
  /\ troubles = 0 /\ lost = {}
  /\ torn = "never" /\ raced = {}

TypeOK ==
  /\ HyperliquidTypeOK(md)
  /\ metaReceived \in BOOLEAN /\ outcomeMetaReceived \in BOOLEAN
  /\ rest \in [of : Requests \cup {"none"}, todo : SUBSET Symbols]
  /\ reg \in Registrations \cup {NoRegistration}
  /\ cb \in Callbacks \cup {Idle}
  /\ asked \in [Requests -> Nat] /\ retries \in [Requests -> Nat]
  /\ ws \in {"down", "up", "broken"}
  /\ subscribed \subseteq Symbols
  /\ now \in 0 .. MaxTime
  /\ troubles \in 0 .. MaxTroubles
  /\ lost \subseteq Requests
  /\ torn \in {"never", "torn", "mended"}
  /\ raced \subseteq Ids

-----------------------------------------------------------------------------
(* Where the threads meet: the id that is being registered, a reset, and   *)
(* a registration that a reset catches before the definition is held, or   *)
(* that begins in the midst of one.                                        *)
IsRegistering(id) == reg # NoRegistration /\ reg.id = id

Resetting == cb.of \in {"connect", "disconnect"}

Tears == torn' = "torn" /\ raced' = Ids

(* A full book sets right what a race has left.                            *)
Prices(id) ==
  raced' = CASE IsRegistering(id) -> raced \cup {id}
             [] torn = "torn" -> raced
             [] OTHER -> raced \ {id}

-----------------------------------------------------------------------------
(* The websocket's thread: onConnected, which resets everything if the     *)
(* loss was not reported, and the requests that the application sends; ... *)
AskAll(n) == [r \in Requests |-> n[r] + 1]

Starts(s) ==
  /\ md' = [UpdateConnectionStatus(s, "STARTING") EXCEPT !.dropped = {}]
  /\ lost' = {}
  /\ metaReceived' = FALSE /\ outcomeMetaReceived' = FALSE
  /\ asked' = AskAll(asked)
  /\ UNCHANGED retries

ResetBegins(of) ==
  /\ cb' = [of |-> of, at |-> "withdraw"]
  /\ IF reg # NoRegistration /\ reg.at \in {"link", "hold"} THEN Tears
     ELSE UNCHANGED raced /\ torn' = IF torn = "never" THEN "never" ELSE "mended"

Connected ==
  /\ cb = Idle
  /\ ws = "down" \/ (ws = "broken" /\ ~LossesNoticed)
  /\ ws' = "up"
  /\ IF md.conn = "ONLINE" THEN ResetBegins("connect") /\ UNCHANGED <<md, applicationVars, lost>>
                           ELSE Starts(md) /\ UNCHANGED <<cb, overlaps>>
  /\ UNCHANGED <<rest, reg, subscribed, now, troubles>>

LinkBreaks ==
  /\ ws = "up"
  /\ troubles < MaxTroubles /\ Cardinality({r \in Requests : asked[r] > 0}) <= MaxLate
  /\ ws' = "broken"
  /\ troubles' = troubles + 1
  /\ subscribed' = {}
  /\ UNCHANGED <<md, applicationVars, rest, reg, cb, now, lost, overlaps>>

(* ... onDisconnected; ...                                                 *)
Disconnected ==
  /\ cb = Idle
  /\ ws = "broken"
  /\ ws' = "down"
  /\ md' = ForgetPending(md)
  /\ ResetBegins("disconnect")
  /\ UNCHANGED <<applicationVars, rest, reg, subscribed, now, troubles, lost>>

(* ... and invalidateState of both.                                        *)
Withdraw ==
  /\ Resetting /\ cb.at = "withdraw"
  /\ md' = WithdrawAll(md)
  /\ cb' = [cb EXCEPT !.at = "clearSecurities"]
  /\ UNCHANGED <<applicationVars, rest, reg, exchangeVars, overlaps>>

ClearSecurities ==
  /\ Resetting /\ cb.at = "clearSecurities"
  /\ md' = [md EXCEPT !.securities = NoEntries]
  /\ cb' = [cb EXCEPT !.at = "clearSymbols"]
  /\ UNCHANGED <<applicationVars, rest, reg, exchangeVars, overlaps>>

ClearSymbols ==
  /\ Resetting /\ cb.at = "clearSymbols"
  /\ \E s \in {[md EXCEPT !.symbolToId = NoEntries]} :
       IF cb.of = "connect" THEN Starts(s) ELSE md' = s /\ UNCHANGED <<applicationVars, lost>>
  /\ cb' = Idle
  /\ UNCHANGED <<rest, reg, ws, subscribed, now, troubles, overlaps>>

(* onL2Book of the application begins with the expired outcomes and the    *)
(* refetch that follows them, and then passes the book to the processor,   *)
(* which ignores a stale one, that is, one from before the connection.     *)
(* Where the beginning has something to do, it is a step of its own, as if *)
(* of a stale book, and the next book goes on from there.                  *)
NothingExpired == ~HasExpiredOutcomes(md, now) /\ ~ShouldRefetch(md, now)

(* The mutant never asks again.                                            *)
NeverRefetch(s) == FALSE

Refetches(s) == ShouldRefetch(s, now)

ExpireOutcomes(coin) ==
  /\ cb = Idle
  /\ ws = "up" /\ coin \in subscribed
  /\ HasExpiredOutcomes(md, now) \/ ShouldRefetch(md, now)
  /\ \E s \in {RemoveExpiredOutcomes(md, now)} :
       IF Refetches(s)
       THEN /\ md' = [s EXCEPT !.pendingRefetch = FALSE]
            /\ asked' = [asked EXCEPT !["outcomeMeta"] = @ + 1]
       ELSE md' = s /\ UNCHANGED asked
  /\ UNCHANGED <<metaReceived, outcomeMetaReceived, rest, reg, cb, retries, exchangeVars, overlaps>>

(* A book arrives, with a price in it or empty.                            *)
Arrives(coin) ==
  /\ cb = Idle
  /\ ws = "up" /\ coin \in subscribed
  /\ IsRegistered(md, coin)

L2Book(coin, priced) ==
  /\ Arrives(coin) /\ NothingExpired
  /\ \E s \in {BookStarts(md, IdOf(md, coin), priced, FALSE)} :
       md' = BookEnds(s, IdOf(md, coin), FALSE)
  /\ Prices(IdOf(md, coin))
  /\ UNCHANGED <<applicationVars, rest, reg, cb, exchangeVars, torn>>

(* Ten seconds after the metadata the definitions of all other perpetuals  *)
(* are sent; what the other thread holds after that is cleared unsent.     *)
LateBook(coin, priced) ==
  /\ Arrives(coin) /\ NothingExpired
  /\ DOMAIN md.pendingSecDefs \ {IdOf(md, coin)} # {}
  /\ md' = BookStarts(md, IdOf(md, coin), priced, TRUE)
  /\ cb' = [of |-> "book", id |-> IdOf(md, coin)]
  /\ raced' = IF IsRegistering(IdOf(md, coin)) THEN raced \cup {IdOf(md, coin)} ELSE raced
  /\ UNCHANGED <<applicationVars, rest, reg, exchangeVars, torn>>

PassBook ==
  /\ cb.of = "book"
  /\ md' = BookEnds(md, cb.id, TRUE)
  /\ cb' = Idle
  /\ Prices(cb.id)
  /\ UNCHANGED <<applicationVars, rest, reg, exchangeVars, torn>>

(* A best price is passed on where the status was ONLINE when it came.     *)
Bbo(coin) ==
  /\ Arrives(coin)
  /\ TakesUpdates(md, coin)
  /\ cb' = [of |-> "bbo", id |-> IdOf(md, coin)]
  /\ UNCHANGED <<md, applicationVars, rest, reg, exchangeVars, overlaps>>

PassBbo ==
  /\ cb.of = "bbo"
  /\ md' = WriteUpdate(md, cb.id)
  /\ cb' = Idle
  /\ UNCHANGED <<applicationVars, rest, reg, exchangeVars, overlaps>>

TradeArrives(coin) ==
  /\ Arrives(coin)
  /\ md' = OnTrade(md, coin)
  /\ raced' = IF IsRegistering(IdOf(md, coin)) THEN raced \cup {IdOf(md, coin)} ELSE raced
  /\ UNCHANGED <<applicationVars, rest, reg, cb, exchangeVars, torn>>

-----------------------------------------------------------------------------
(* The REST client's thread: what a request is answered with, ...          *)
Listed == {coin \in Outcomes : ListedFrom[coin] <= now /\ now < Expiry[coin]}

Answer(r) == IF r = "outcomeMeta" THEN Listed ELSE {coin \in Perps : Dex[coin] = r}

ResponseArrives(r) ==
  /\ rest = NoCallback
  /\ asked[r] > 0
  /\ asked' = [asked EXCEPT ![r] = @ - 1]
  /\ rest' = [of |-> r, todo |-> Answer(r)]
  /\ md' = IF r = "outcomeMeta" THEN [md EXCEPT !.pendingRefetch = FALSE] ELSE md
  /\ UNCHANGED <<metaReceived, outcomeMetaReceived, retries, reg, cb, exchangeVars, overlaps>>

(* ... the processor's onMeta or onOutcomeMeta, coin by coin: the security *)
(* and its symbol, unless they are there, the definition that waits for a  *)
(* book, the status, and the message that tells of it; ...                 *)
RegistrationUnchanged ==
  UNCHANGED <<applicationVars, rest, cb, exchangeVars, torn>>

CreateNext(coin) ==
  /\ reg = NoRegistration
  /\ coin \in rest.todo
  /\ CanCreate(md, coin)
  /\ rest' = [rest EXCEPT !.todo = @ \ {coin}]
  /\ \/ /\ IsRegistered(md, coin)
        /\ reg' = [at |-> "hold", coin |-> coin, id |-> IdOf(md, coin)]
        /\ UNCHANGED md
     \/ /\ ~IsRegistered(md, coin)
        /\ \E id \in {FirstFree(md, Hash[coin])} :
             /\ md' = AddSecurity(md, id, coin)
             /\ reg' = [at |-> "link", coin |-> coin, id |-> id]
  /\ IF Resetting THEN Tears ELSE UNCHANGED overlaps
  /\ UNCHANGED <<applicationVars, cb, exchangeVars>>

Link ==
  /\ reg.at = "link"
  /\ md' = LinkSymbol(md, reg.id, reg.coin)
  /\ reg' = [reg EXCEPT !.at = "hold"]
  /\ RegistrationUnchanged /\ UNCHANGED raced

HoldDefinition ==
  /\ reg.at = "hold"
  /\ md' = Hold(md, reg.coin, reg.id)
  /\ reg' = [reg EXCEPT !.at = "setStatus"]
  /\ RegistrationUnchanged /\ UNCHANGED raced

SetPending ==
  /\ reg.at = "setStatus"
  /\ md' = SetStatus(md, {reg.id}, "PENDING_SNAPSHOT")
  /\ reg' = IF Changed(md, {reg.id}, "PENDING_SNAPSHOT") = {} THEN NoRegistration
            ELSE [reg EXCEPT !.at = "sendStatus"]
  /\ RegistrationUnchanged /\ UNCHANGED raced

SendPending ==
  /\ reg.at = "sendStatus"
  /\ md' = [md EXCEPT !.heard = HearStatus(@, {reg.id}, "PENDING_SNAPSHOT")]
  /\ reg' = NoRegistration
  /\ raced' = IF cb.of = "bbo" /\ cb.id = reg.id THEN raced \cup {reg.id} ELSE raced
  /\ RegistrationUnchanged

(* ... and the base's, which subscribes to all of them; what it sends      *)
(* while the websocket is down is lost.                                    *)
SubscribeToMarkets(coins) ==
  subscribed' = IF ws = "up" THEN subscribed \cup coins ELSE subscribed

ResponseDone ==
  /\ rest # NoCallback /\ reg = NoRegistration
  /\ rest.todo = {}
  /\ IF rest.of = "outcomeMeta"
     THEN outcomeMetaReceived' = TRUE /\ UNCHANGED metaReceived
     ELSE metaReceived' = TRUE /\ UNCHANGED outcomeMetaReceived
  /\ SubscribeToMarkets(Answer(rest.of))
  /\ rest' = NoCallback
  /\ UNCHANGED <<md, asked, retries, reg, cb, ws, now, troubles, lost, overlaps>>

(* onError: ask again in five seconds, unless an answer of that type has   *)
(* come.  The two metadata requests are of one type, ...                   *)
Received(r) == IF r = "outcomeMeta" THEN outcomeMetaReceived ELSE metaReceived

RequestFails(r) ==
  /\ asked[r] > 0
  /\ troubles < MaxTroubles
  /\ troubles' = troubles + 1
  /\ asked' = [asked EXCEPT ![r] = @ - 1]
  /\ retries' = IF Received(r) THEN retries ELSE [retries EXCEPT ![r] = @ + 1]
  /\ lost' = IF Received(r) THEN lost \cup {r} ELSE lost
  /\ UNCHANGED <<md, metaReceived, outcomeMetaReceived, rest, reg, cb, ws, subscribed, now, overlaps>>

(* ... and the retry thread, which looks again, asks for the first.  The   *)
(* mutant forgets to ask.                                                  *)
NotRetried(r) == asked

Retried(r) ==
  [asked EXCEPT ![IF r = "outcomeMeta" THEN "outcomeMeta" ELSE "meta"] = @ + 1]

Retry(r) ==
  /\ retries[r] > 0
  /\ retries' = [retries EXCEPT ![r] = @ - 1]
  /\ asked' = IF Received(r) THEN asked ELSE Retried(r)
  /\ lost' = IF Received(r) \/ r \notin {"meta", "outcomeMeta"} THEN lost \cup {r} ELSE lost
  /\ UNCHANGED <<md, metaReceived, outcomeMetaReceived, rest, reg, cb, ws, subscribed, now, troubles,
                 overlaps>>

-----------------------------------------------------------------------------
(* The clock.  Its steps are minutes long: in the meantime every request   *)
(* is answered and every subscription has brought its first book.          *)
Settled ==
  /\ asked = None /\ retries = None /\ rest = NoCallback /\ cb = Idle
  /\ \A id \in DOMAIN md.pendingOutcomes : md.pendingOutcomes[id] \notin subscribed

Tick ==
  /\ now < MaxTime
  /\ Settled
  /\ now' = now + 1
  /\ UNCHANGED <<md, applicationVars, rest, reg, cb, ws, subscribed, troubles, lost, overlaps>>

-----------------------------------------------------------------------------
(* What the websocket's thread does next in its callback, and the          *)
(* callbacks that it is free to begin.                                     *)
Continues == Withdraw \/ ClearSecurities \/ ClearSymbols \/ PassBook \/ PassBbo

WebsocketThread ==
  \/ Connected \/ Disconnected \/ Continues
  \/ \E coin \in Symbols :
       \/ ExpireOutcomes(coin)
       \/ \E priced \in BOOLEAN : L2Book(coin, priced) \/ LateBook(coin, priced)
       \/ Bbo(coin) \/ TradeArrives(coin)

Registers ==
  (\E coin \in Symbols : CreateNext(coin)) \/ Link \/ HoldDefinition \/ SetPending \/ SendPending

RestThread ==
  \/ \E r \in Requests : ResponseArrives(r) \/ Retry(r)
  \/ Registers
  \/ ResponseDone

Trouble == LinkBreaks \/ \E r \in Requests : RequestFails(r)

Next == WebsocketThread \/ RestThread \/ Trouble \/ Tick

Spec == Init /\ [][Next]_vars

(* The websocket library connects again, threads run, requests are         *)
(* answered or fail, and the exchange keeps sending books with prices of   *)
(* every coin that is subscribed, each of which gets its turn among the    *)
(* messages of the websocket.                                              *)
Fairness ==
  /\ WF_vars(Connected \/ Disconnected \/ Continues)
  /\ WF_vars(RestThread)
  /\ \A coin \in Symbols : SF_vars(ExpireOutcomes(coin) \/ L2Book(coin, TRUE) \/ LateBook(coin, TRUE))

FairSpec == Spec /\ Fairness

-----------------------------------------------------------------------------
(* Symbols and ids name each other, whenever no thread is in the midst of  *)
(* changing the two maps; but where a registration got into a reset, not   *)
(* before the next reset.                                                  *)
MapsAtRest == ~Resetting /\ reg.at # "link"

IdsInverse == torn # "torn" /\ MapsAtRest => Inverse(md)

Defined(coin) ==
  \E id \in DOMAIN md.heard.defs : md.heard.defs[id].marketSymbol = coin

(* A consumer has no definition of a security that the process does not    *)
(* know, or knows as another one: whatever is lost, answered late or       *)
(* expired, what was withdrawn here is withdrawn there.  A registration    *)
(* that gets into a reset before its definition is held ends that: what it *)
(* leaves behind may be defined, and no reset will withdraw it.            *)
NoStaleDefinitions ==
  torn = "never" =>
    \A id \in DOMAIN md.heard.defs :
      id \in DOMAIN md.securities /\ md.securities[id].symbol = md.heard.defs[id].marketSymbol

(* The last price that consumers got of a security was in place: no full   *)
(* book and no trade of a security that was taken away, and no book update *)
(* before the full book it applies to.  The exceptions are securities that *)
(* the REST thread registers again in the midst of their prices, and no    *)
(* longer than until their next full book.                                 *)
PricesInPlace == md.heard.stray \subseteq raced

(* A consumer finds every security it has under both its names, although   *)
(* outcomes that follow each other share a symbol, and finds no other, as  *)
(* long as no registration gets into a reset.                              *)
NamesFindDefinitions ==
  torn = "never" =>
    /\ \A id \in DOMAIN md.heard.defs : \A n \in NamesOf(md.heard.defs[id]) :
         n \in DOMAIN md.heard.names /\ md.heard.names[n] = id
    /\ \A n \in DOMAIN md.heard.names :
         md.heard.names[n] \in DOMAIN md.heard.defs /\ n \in NamesOf(md.heard.defs[md.heard.names[n]])

(* On a connection that holds, every perpetual is defined in the end,      *)
(* unless its request failed and was not repeated, its first book was      *)
(* empty, or it was registered just as the definitions of the others were  *)
(* sent without a book.  After a registration that got into a reset a      *)
(* perpetual may be left with another one's id, and nothing is claimed.    *)
PerpsDefined ==
  \A coin \in Perps :
    ws = "up" ~>
      Defined(coin) \/ ws # "up" \/ Dex[coin] \in lost \/ coin \in md.dropped \/ torn # "never"

(* And so is the outcome of the day, also when it follows one that has     *)
(* expired.                                                                *)
Due(coin) == now >= ListedFrom[coin] + RefetchDelay /\ ~IsOver(coin, now)

OutcomesDefined ==
  \A coin \in Outcomes :
    ws = "up" /\ Due(coin) ~>
      Defined(coin) \/ ws # "up" \/ ~Due(coin) \/ "outcomeMeta" \in lost \/ torn # "never"
=============================================================================
