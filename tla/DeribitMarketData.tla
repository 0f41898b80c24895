-------------------------- MODULE DeribitMarketData --------------------------
(***************************************************************************)
(* The Deribit market data process: DeribitApplication on its base, around *)
(* one DeribitMessageProcessor.  All callbacks are called on the thread of *)
(* the FIX session, so that each is one step; a SecurityList is several,   *)
(* one for each entry, because consumers read what it has written so far.  *)
(*                                                                         *)
(* The exchange and QuickFIX are not in the repository.  FIX keeps the     *)
(* messages of a session in order and loses none of them, and sequence     *)
(* numbers start anew with each session.                                   *)
(***************************************************************************)
EXTENDS DeribitMessageProcessor

CONSTANTS
  AnswerOf,    (* the symbols in the answer to each request                 *)
  Expiring,    (* the symbols that may cease to be listed                   *)
  MaxLosses    (* bound: sessions that end                                  *)

ASSUME DeribitMarketDataAssumption ==
  /\ AnswerOf \in [Requests -> SUBSET Symbols]
  /\ Expiring \subseteq Symbols
  /\ MaxLosses \in Nat

VARIABLES
  md,           (* the processor, and what its consumers heard              *)
  list,         (* the SecurityList in hand, and what is left of it         *)
  session,      (* is the FIX session "up" or "down"?                       *)
  unanswered,   (* the requests the exchange has still to answer            *)
  due,          (* the symbols it has still to send a snapshot of           *)
  streaming,    (* the symbols it has sent one of, in this session          *)
  listed,       (* the symbols it lists                                     *)
  losses,       (* history: for the bound                                   *)
  announced,    (* history: what the lists of this session asked for        *)
  hollow        (* history: symbols that had a snapshot without a book      *)

exchangeVars == <<session, unanswered, due, streaming, listed>>

historyVars == <<losses, announced, hollow>>

vars == <<md, list, exchangeVars, historyVars>>

NoList == [of |-> "none", todo |-> {}]

Init ==
  /\ md = DeribitInit
  /\ list = NoList
  /\ session = "down"
  /\ unanswered = {} /\ due = {} /\ streaming = {}
  /\ listed = Symbols
  /\ losses = 0 /\ announced = {} /\ hollow = {}

TypeOK ==
  /\ DeribitTypeOK(md)
  /\ list \in [of : Requests \cup {"none"}, todo : SUBSET Symbols]
  /\ session \in {"up", "down"}
  /\ unanswered \subseteq Requests
  /\ due \subseteq Symbols /\ streaming \subseteq Symbols /\ listed \subseteq Symbols
  /\ losses \in 0 .. MaxLosses
  /\ announced \subseteq Symbols /\ hollow \subseteq Symbols

-----------------------------------------------------------------------------
(* The session.  fromAdmin passes Logon to the processor, and then onLogon *)
(* sends the requests.                                                     *)
Logon ==
  /\ session = "down"
  /\ session' = "up"
  /\ md' = AddPendingLists(OnLogon(md), Requests)
  /\ unanswered' = Requests
  /\ announced' = {}
  /\ UNCHANGED <<list, due, streaming, listed, losses, hollow>>

SessionEnds ==
  /\ session = "up"
  /\ list = NoList
  /\ losses < MaxLosses
  /\ losses' = losses + 1
  /\ session' = "down"
  /\ unanswered' = {} /\ due' = {} /\ streaming' = {}
  /\ UNCHANGED <<list, listed, announced, hollow>>

(* It ends with a Logout, ...                                              *)
Logout == SessionEnds /\ md' = OnLogout(md)

(* ... or because the connection breaks: QuickFIX calls onLogout of the    *)
(* base, which only sets m_loggedOn, and the processor hears nothing.      *)
ConnectionBreaks == SessionEnds /\ UNCHANGED md

-----------------------------------------------------------------------------
(* The base subscribes to what a SecurityList names, by a filter that does *)
(* not leave anything to the perp-only request, before the processor reads *)
(* it.  The mutant forgets the perp-only list.                             *)
SubscribedToMost(request, symbol) == request # PerpOnly /\ ~OtherSpot(symbol)

Subscribed(request, symbol) == ~NotForPerpOnly(request, symbol) /\ ~OtherSpot(symbol)

SecurityListArrives(request) ==
  /\ list = NoList
  /\ request \in unanswered
  /\ unanswered' = unanswered \ {request}
  /\ \E answer \in {AnswerOf[request] \cap listed} :
       /\ due' = due \cup {symbol \in answer : Subscribed(request, symbol)}
       /\ list' = [of |-> request, todo |-> {symbol \in answer : Wanted(request, symbol)}]
  /\ announced' = announced \cup list'.todo
  /\ UNCHANGED <<md, session, streaming, listed, losses, hollow>>

Instrument(symbol) ==
  /\ symbol \in list.todo
  /\ CanCreate(md, symbol)
  /\ md' = OnInstrument(md, list.of, symbol)
  /\ list' = [list EXCEPT !.todo = @ \ {symbol}]
  /\ UNCHANGED <<exchangeVars, historyVars>>

SecurityListDone ==
  /\ list # NoList
  /\ list.todo = {}
  /\ md' = OnListDone(md, list.of)
  /\ list' = NoList
  /\ UNCHANGED <<exchangeVars, historyVars>>

-----------------------------------------------------------------------------
(* Every subscription, the second to a symbol too, is answered with a      *)
(* snapshot; increments follow the first.                                  *)
SnapshotArrives(symbol, entries) ==
  /\ list = NoList
  /\ symbol \in due
  /\ due' = due \ {symbol}
  /\ streaming' = streaming \cup {symbol}
  /\ md' = OnSnapshot(md, symbol, entries)
  /\ hollow' = IF entries \in {"empty", "trades"} THEN hollow \cup {symbol} ELSE hollow
  /\ UNCHANGED <<list, session, unanswered, listed, losses, announced>>

IncrementArrives(symbol, entry) ==
  /\ list = NoList
  /\ symbol \in streaming
  /\ md' = OnIncrement(md, symbol, entry)
  /\ UNCHANGED <<list, exchangeVars, historyVars>>

(* A future expires; nothing tells the process.                            *)
Expires(symbol) ==
  /\ symbol \in Expiring \cap listed
  /\ listed' = listed \ {symbol}
  /\ due' = due \ {symbol} /\ streaming' = streaming \ {symbol}
  /\ UNCHANGED <<md, list, session, unanswered, historyVars>>

-----------------------------------------------------------------------------
Next ==
  \/ Logon \/ Logout \/ ConnectionBreaks
  \/ \E request \in Requests : SecurityListArrives(request)
  \/ SecurityListDone
  \/ \E symbol \in Symbols :
       \/ Instrument(symbol)
       \/ \E entries \in Snapshots : SnapshotArrives(symbol, entries)
       \/ \E entry \in {"quote", "trade"} : IncrementArrives(symbol, entry)
       \/ Expires(symbol)

Spec == Init /\ [][Next]_vars

(* QuickFIX logs on again, the thread works through a list, and the        *)
(* exchange answers requests and subscriptions.                            *)
Fairness ==
  /\ WF_vars(Logon)
  /\ WF_vars(SecurityListDone \/ \E symbol \in Symbols : Instrument(symbol))
  /\ \A request \in Requests : WF_vars(SecurityListArrives(request))
  /\ \A symbol \in Symbols : WF_vars(\E entries \in Snapshots : SnapshotArrives(symbol, entries))

FairSpec == Spec /\ Fairness

-----------------------------------------------------------------------------
(* Symbols and ids name each other at every moment, collisions of hashes   *)
(* and sessions that end in the middle of anything included.               *)
IdsInverse == Inverse(md)

(* Consumers have a definition of every security of the process, under its *)
(* id and symbol, and of no other, however the sessions before this one    *)
(* ended.                                                                  *)
DefinitionsMatch ==
  /\ DOMAIN md.heard.defs = DOMAIN md.securities
  /\ \A id \in DOMAIN md.securities : md.heard.defs[id].symbol = md.securities[id].symbol

(* Consumers get no price out of place: no full book and no trade of a     *)
(* security that was taken away, and no book update before the full book   *)
(* it applies to, the updates of an earlier subscription included.         *)
PricesInPlace == md.heard.stray = {}

(* While a session is up, ONLINE means that the exchange has answered all  *)
(* requests of this session and that all they were to define is defined.   *)
OnlineIsComplete ==
  session = "up" /\ md.conn = "ONLINE" =>
    /\ unanswered = {}
    /\ \A symbol \in announced : IsRegistered(md, symbol) /\ IdOf(md, symbol) \in DOMAIN md.heard.defs

(* In a session that lasts, every security that some request is to define  *)
(* goes ONLINE, unless it expires or a snapshot without a book came.       *)
Online(symbol) == IsRegistered(md, symbol) /\ StatusOf(md, IdOf(md, symbol)) = "ONLINE"

WantedByOne(symbol) ==
  \E request \in Requests : symbol \in AnswerOf[request] /\ Wanted(request, symbol)

EverySecurityOnline ==
  \A symbol \in {s \in Symbols : WantedByOne(s)} :
    session = "up" ~>
      Online(symbol) \/ session # "up" \/ symbol \notin listed \/ symbol \in hollow

(* DeribitMessageProcessor.cpp:344 says of the definitions with margining  *)
(* LINEAR "Linear (USDC-settled) perpetual".                               *)
LinearIsUsdc ==
  \A id \in DOMAIN md.heard.defs :
    md.heard.defs[id].terms = "LINEAR" => md.heard.defs[id].symbol \in Usdc
=============================================================================
