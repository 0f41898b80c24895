---------------------------- MODULE RefDataHolder ----------------------------
(***************************************************************************)
(* What a consumer of a market data queue has heard.  Its reference data   *)
(* is RefDataHolder's: m_securities by id, and m_symbolToSecurityId, which *)
(* knows every security under its symbol and under its market symbol.      *)
(*                                                                         *)
(* The messages are delivered in the order they were written (SBEQueue),   *)
(* so the consumer's state is kept with the producer's, as the field       *)
(* `heard' of its record.  `books' and `stray' are no state of a consumer  *)
(* in this repository: they record which prices it could make sense of.    *)
(***************************************************************************)
EXTENDS Maps

NothingHeard ==
  [defs   |-> NoEntries,   (* m_securities                                  *)
   names  |-> NoEntries,   (* m_symbolToSecurityId                          *)
   status |-> NoEntries,   (* the last SecurityStatus of each id            *)
   conn   |-> "NULL",      (* the last ConnectionStatus                     *)
   books  |-> {},          (* ids with a full book since they last waited   *)
   stray  |-> {}]          (* the id of the last price, if out of place     *)

NamesOf(def) == {def.symbol, def.marketSymbol}

(* onSecurityDefinition, ADD, for several definitions that share no name.  *)
HearAdds(h, defs) ==
  LET new == UNION {NamesOf(defs[id]) : id \in DOMAIN defs}
      IdNamed(n) == CHOOSE id \in DOMAIN defs : n \in NamesOf(defs[id])
  IN  [h EXCEPT !.defs = [id \in DOMAIN @ \cup DOMAIN defs |->
                            IF id \in DOMAIN defs THEN defs[id] ELSE @[id]],
                !.names = [n \in DOMAIN @ \cup new |-> IF n \in new THEN IdNamed(n) ELSE @[n]]]

(* onSecurityDefinition, REMOVE, for a set of ids: the names go as well,   *)
(* whatever id they stand for by now.  The mutant keeps the market symbol. *)
HearRemoveSymbol(h, ids) ==
  [h EXCEPT !.names = Erase(@, {h.defs[id].symbol : id \in ids \cap DOMAIN h.defs}),
            !.defs = Erase(@, ids)]

HearRemove(h, ids) ==
  [h EXCEPT !.names = Erase(@, UNION {NamesOf(h.defs[id]) : id \in ids \cap DOMAIN h.defs}),
            !.defs = Erase(@, ids)]

-----------------------------------------------------------------------------
HearStatus(h, ids, status) ==
  [h EXCEPT !.status = [id \in DOMAIN @ \cup ids |-> IF id \in ids THEN status ELSE @[id]],
            !.books = IF status = "ONLINE" THEN @ ELSE @ \ ids]

HearConnection(h, conn) == [h EXCEPT !.conn = conn]

LastStatus(h, id) == IF id \in DOMAIN h.status THEN h.status[id] ELSE "NULL"

(* A full book and a trade belong to a security that is ONLINE or at least *)
(* waiting for its book, a book update to one whose full book was sent     *)
(* since it was last told to wait.                                         *)
Placed(h, id, inPlace) == [h EXCEPT !.stray = IF inPlace THEN {} ELSE {id}]

HearPrice(h, id) == Placed(h, id, LastStatus(h, id) \in {"PENDING_SNAPSHOT", "ONLINE"})

HearBook(h, id) == [HearPrice(h, id) EXCEPT !.books = @ \cup {id}]

HearTrade(h, id) == HearPrice(h, id)

HearUpdate(h, id) == Placed(h, id, id \in h.books)
=============================================================================
