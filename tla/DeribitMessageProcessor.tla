----------------------- MODULE DeribitMessageProcessor -----------------------
(***************************************************************************)
(* DeribitMessageProcessor: what each FIX message does to the processor's  *)
(* state s.  A security is defined to consumers as soon as a SecurityList  *)
(* names it, and is ONLINE from its first snapshot on.  The one field of s *)
(* of this class that has an effect:                                       *)
(*                                                                         *)
(*   pendingLists   m_pendingSecurityLists                                 *)
(*                                                                         *)
(* m_offlineWarned only decides what is logged, and m_perpOnlyReqIds and   *)
(* m_perpCurrencies are the same whenever a SecurityList arrives.          *)
(***************************************************************************)
EXTENDS MessageProcessor

CONSTANTS
  Requests,     (* the SecurityListRequests of getSymbols                   *)
  PerpOnly,     (* "SYMBOLS_004", which is sent if m_perpCurrencies is not  *)
                (* empty                                                    *)
  Spot,         (* the symbols of type FXSPOT, ...                          *)
  BtcSpot,      (* ... and those of them that contain "BTC_USDC"            *)
  Perpetual,    (* the symbols with SettlType "0"                           *)
  Usdc,         (* the symbols that contain "_USDC"                         *)
  Whitelisted   (* the symbols whose underlying is in m_perpCurrencies      *)

ASSUME DeribitProcessorAssumption ==
  /\ Spot \subseteq Symbols /\ BtcSpot \subseteq Spot
  /\ Perpetual \subseteq Symbols /\ Usdc \subseteq Symbols
  /\ Whitelisted \subseteq Symbols

DeribitInit ==
  [securities |-> NoEntries, symbolToId |-> NoEntries, conn |-> "NULL", heard |-> NothingHeard,
   pendingLists |-> {}]

DeribitTypeOK(s) == ProcessorTypeOK(s) /\ s.pendingLists \subseteq Requests

-----------------------------------------------------------------------------
(* The Logon after a Logout finds the connection OFFLINE.  The one after a *)
(* loss that brought no Logout finds it as it was: ONLINE is noticed,      *)
(* STARTING is not.                                                        *)
OnLogon(s) ==
  UpdateConnectionStatus(
    [(IF s.conn = "ONLINE" THEN InvalidateState(s) ELSE s) EXCEPT !.pendingLists = {}], "STARTING")

OnLogout(s) == InvalidateState(s)

(* addPendingSecurityList and addPerpOnlySecurityList                      *)
AddPendingLists(s, requests) == [s EXCEPT !.pendingLists = @ \cup requests]

-----------------------------------------------------------------------------
(* Which entries of a SecurityList are passed over: in an answer to the    *)
(* perp-only request all but perpetuals of the whitelist, in the others    *)
(* the perpetuals that are left to it, in all of them spot other than      *)
(* BTC_USDC.                                                               *)
NotForPerpOnly(list, symbol) == list = PerpOnly /\ symbol \notin Perpetual \cap Whitelisted

OtherSpot(symbol) == symbol \in Spot \ BtcSpot

LeftToPerpOnly(list, symbol) ==
  list # PerpOnly /\ PerpOnly \in Requests /\ symbol \in Usdc \cap Perpetual

Wanted(list, symbol) ==
  ~NotForPerpOnly(list, symbol) /\ ~OtherSpot(symbol) /\ ~LeftToPerpOnly(list, symbol)

(* The currencies and the margining of a definition                        *)
Terms(list, symbol) ==
  CASE symbol \in Spot -> "SPOT"
    [] symbol \notin Spot /\ list = PerpOnly -> "LINEAR"
    [] OTHER -> "INVERSE"

(* One round of the loop over a SecurityList.                              *)
OnInstrument(s, list, symbol) ==
  LET t == CreateSecurity(s, symbol)
      id == IdOf(t, symbol)
      def == [symbol |-> symbol, marketSymbol |-> symbol, terms |-> Terms(list, symbol)]
  IN  UpdateSecurityStatus([t EXCEPT !.heard = HearAdds(@, [i \in {id} |-> def])],
                           {id}, "PENDING_SNAPSHOT")

(* What follows the loop: the connection is ONLINE when all lists have     *)
(* come.  The mutant does not wait for the others.                         *)
FirstListDone(s, list) ==
  UpdateConnectionStatus([s EXCEPT !.pendingLists = @ \ {list}], "ONLINE")

OnListDone(s, list) ==
  IF s.pendingLists \ {list} = {} THEN FirstListDone(s, list)
                                  ELSE [s EXCEPT !.pendingLists = @ \ {list}]

-----------------------------------------------------------------------------
(* MarketDataSnapshotFullRefresh: "empty", "trades" only, a "book", or one *)
(* that is too "deep" for a message, whose rest follows as updates.  A     *)
(* book takes the security ONLINE, after it.                               *)
Snapshots == {"empty", "trades", "book", "deep"}

OnSnapshot(s, symbol, entries) ==
  LET id == IdOf(s, symbol)
      book == [s EXCEPT !.heard = HearBook(@, id)]
      rest == IF entries = "deep" THEN [book EXCEPT !.heard = HearUpdate(@, id)] ELSE book
  IN  IF IsRegistered(s, symbol) /\ entries \in {"book", "deep"}
      THEN UpdateSecurityStatus(rest, {id}, "ONLINE")
      ELSE s

(* MarketDataIncrementalRefresh, for a security that is ONLINE (the        *)
(* mutant: that is known), with an entry that is a "quote" or a "trade".   *)
KnownOnly(s, symbol) == IsRegistered(s, symbol)

TakesUpdates(s, symbol) == IsRegistered(s, symbol) /\ StatusOf(s, IdOf(s, symbol)) = "ONLINE"

OnIncrement(s, symbol, entry) ==
  IF ~TakesUpdates(s, symbol) THEN s
  ELSE [s EXCEPT !.heard = IF entry = "quote" THEN HearUpdate(@, IdOf(s, symbol))
                                              ELSE HearTrade(@, IdOf(s, symbol))]
=============================================================================
