--------------------- MODULE HyperliquidMessageProcessor ---------------------
(***************************************************************************)
(* HyperliquidMessageProcessor: what each callback does to the processor's *)
(* state s.  A perpetual or an outcome is registered when the metadata     *)
(* name it, and defined to consumers when its first book comes; an outcome *)
(* is removed shortly before it expires.  Fields of s of this class:       *)
(*                                                                         *)
(*   pendingSecDefs         m_pendingSecDefs: id -> coin                   *)
(*   pendingOutcomes        m_pendingOutcomeSecDefs: id -> coin            *)
(*   activeOutcomes         m_activeOutcomes: a set of [id, coin]          *)
(*   lastExpiry             m_lastOutcomeExpiry                            *)
(*   pendingRefetch         m_pendingRefetch                               *)
(*   dropped                history: coins whose pending definition was    *)
(*                          given up since they were registered, their     *)
(*                          first book being empty, or cleared unsent      *)
(*                                                                         *)
(* m_activeOutcomes is a vector and may name an outcome twice; the second  *)
(* entry has no effect but a second REMOVE.  m_observedCoins only decides  *)
(* what is logged.                                                         *)
(***************************************************************************)
EXTENDS MessageProcessor

CONSTANTS
  Perps,          (* m_desiredCoins                                         *)
  Outcomes,       (* the coins of the outcomes that m_desiredOutcomes match *)
  OutcomeSymbol,  (* buildOutcomeSymbol: the same for outcomes that follow  *)
                  (* each other                                             *)
  Expiry,         (* when each outcome expires                              *)
  ExpiryBuffer,   (* EXPIRY_BUFFER                                          *)
  RefetchDelay    (* REFETCH_DELAY                                          *)

ASSUME HyperliquidProcessorAssumption ==
  /\ Symbols = Perps \cup Outcomes
  /\ Perps \cap Outcomes = {}
  /\ Expiry \in [Outcomes -> Nat]
  /\ ExpiryBuffer \in Nat /\ RefetchDelay \in Nat

Active == [id : Ids, coin : Outcomes]

HyperliquidInit ==
  [securities |-> NoEntries, symbolToId |-> NoEntries, conn |-> "NULL", heard |-> NothingHeard,
   pendingSecDefs |-> NoEntries, pendingOutcomes |-> NoEntries, activeOutcomes |-> {},
   lastExpiry |-> 0, pendingRefetch |-> FALSE, dropped |-> {}]

HyperliquidTypeOK(s) ==
  /\ ProcessorTypeOK(s)
  /\ IsMap(s.pendingSecDefs, Ids, Perps)
  /\ IsMap(s.pendingOutcomes, Ids, Outcomes)
  /\ s.activeOutcomes \subseteq Active
  /\ s.lastExpiry \in Nat
  /\ s.pendingRefetch \in BOOLEAN
  /\ s.dropped \subseteq Perps

-----------------------------------------------------------------------------
(* onConnected: a connection that was never reported lost is noticed only  *)
(* if it was ONLINE.                                                       *)
OnConnected(s) ==
  UpdateConnectionStatus(IF s.conn = "ONLINE" THEN InvalidateState(s) ELSE s, "STARTING")

ForgetPending(s) ==
  [s EXCEPT !.pendingSecDefs = NoEntries, !.pendingOutcomes = NoEntries, !.activeOutcomes = {}]

OnDisconnected(s) == InvalidateState(ForgetPending(s))

(* One round of the loops of onMeta and of onOutcomeMeta.  The definition  *)
(* waits for a book; the mutant takes every coin for a perpetual.          *)
HoldAsset(s, coin, id) == [s EXCEPT !.pendingSecDefs = Put(@, id, coin), !.dropped = @ \ {coin}]

Hold(s, coin, id) ==
  IF coin \in Perps THEN HoldAsset(s, coin, id)
                    ELSE [s EXCEPT !.pendingOutcomes = Put(@, id, coin)]

Register(s, coin) ==
  LET t == CreateSecurity(s, coin)
      id == IdOf(t, coin)
  IN  UpdateSecurityStatus(Hold(t, coin, id), {id}, "PENDING_SNAPSHOT")

-----------------------------------------------------------------------------
(* emitSecurityDefinition and emitOutcomeSecurityDefinition, for the ids   *)
(* and coins of `pending'.                                                 *)
AssetDefs(pending) ==
  [id \in DOMAIN pending |-> [symbol |-> pending[id], marketSymbol |-> pending[id]]]

OutcomeDefs(pending) ==
  [id \in DOMAIN pending |-> [symbol |-> OutcomeSymbol[pending[id]], marketSymbol |-> pending[id]]]

Only(f, K) == [x \in DOMAIN f \cap K |-> f[x]]

(* onL2Book, for the id of a coin that is registered.  It takes the        *)
(* security ONLINE, sends the pending definition of its perpetual, which   *)
(* it gives up if the book is empty, and that of its outcome; `late', ten  *)
(* seconds after the metadata, it sends those of all other perpetuals, ... *)
BookStarts(s, id, priced, late) ==
  LET first == {id} \cap {i \in DOMAIN s.securities : s.securities[i].status = "PENDING_SNAPSHOT"}
      asset == Only(s.pendingSecDefs, {id})
      outcome == Only(s.pendingOutcomes, {id})
      others == Erase(s.pendingSecDefs, {id})
      emitted == Only(s.pendingSecDefs, (IF priced THEN {id} ELSE {}) \cup
                                        (IF late THEN DOMAIN others ELSE {}))
  IN  [UpdateSecurityStatus(s, first, "ONLINE") EXCEPT
         !.pendingSecDefs = others,
         !.pendingOutcomes = Erase(@, {id}),
         !.activeOutcomes = @ \cup {[id |-> i, coin |-> outcome[i]] : i \in DOMAIN outcome},
         !.dropped = IF priced THEN @ ELSE @ \cup {asset[i] : i \in DOMAIN asset \ DOMAIN s.heard.defs},
         !.heard = HearAdds(HearAdds(@, AssetDefs(emitted)), OutcomeDefs(outcome))]

(* ... after which it clears whatever is pending of perpetuals.  When      *)
(* nothing is pending the connection is ONLINE.  At last it passes on the  *)
(* book.                                                                   *)
BookEnds(s, id, late) ==
  LET pendingSecDefs == IF late THEN NoEntries ELSE s.pendingSecDefs
      unsent == DOMAIN s.pendingSecDefs \ DOMAIN s.heard.defs
      conn == IF pendingSecDefs = NoEntries /\ s.pendingOutcomes = NoEntries THEN "ONLINE" ELSE s.conn
  IN  [s EXCEPT
         !.pendingSecDefs = pendingSecDefs,
         !.dropped = IF late THEN @ \cup {s.pendingSecDefs[i] : i \in unsent} ELSE @,
         !.conn = conn,
         !.heard = HearBook(HearConnection(@, conn), id)]

OnL2Book(s, coin, priced, late) ==
  BookEnds(BookStarts(s, IdOf(s, coin), priced, late), IdOf(s, coin), late)

(* onBbo, for a security that is ONLINE (the mutant: that is known).       *)
KnownOnly(s, coin) == IsRegistered(s, coin)

TakesUpdates(s, coin) == IsRegistered(s, coin) /\ StatusOf(s, IdOf(s, coin)) = "ONLINE"

WriteUpdate(s, id) == [s EXCEPT !.heard = HearUpdate(@, id)]

OnBbo(s, coin) == IF TakesUpdates(s, coin) THEN WriteUpdate(s, IdOf(s, coin)) ELSE s

OnTrade(s, coin) ==
  IF IsRegistered(s, coin) THEN [s EXCEPT !.heard = HearTrade(@, IdOf(s, coin))] ELSE s

-----------------------------------------------------------------------------
(* removeExpiredOutcomes: REMOVE, OFFLINE, and removeSecurity, which sends *)
(* REMOVE again.                                                           *)
IsOver(coin, now) == now >= Expiry[coin] - ExpiryBuffer

HasExpiredOutcomes(s, now) == \E a \in s.activeOutcomes : IsOver(a.coin, now)

RemoveExpiredOutcomes(s, now) ==
  LET over == {a \in s.activeOutcomes : IsOver(a.coin, now)}
      ids == {a.id : a \in over}
      expiries == {Expiry[a.coin] : a \in over} \cup {s.lastExpiry}
  IN  [RemoveSecurity(UpdateSecurityStatus(s, ids, "OFFLINE"), ids) EXCEPT
         !.activeOutcomes = @ \ over,
         !.lastExpiry = CHOOSE e \in expiries : \A d \in expiries : d <= e,
         !.pendingRefetch = @ \/ over # {}]

ShouldRefetch(s, now) == s.pendingRefetch /\ now >= s.lastExpiry + RefetchDelay
=============================================================================
