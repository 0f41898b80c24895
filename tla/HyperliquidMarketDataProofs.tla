-------------------- MODULE HyperliquidMarketDataProofs --------------------
(***************************************************************************)
(* Proofs about HyperliquidMarketData, with every step of its two threads. *)
(*                                                                         *)
(* First the effect of each operator on the fields of its record, then of  *)
(* each action on the variables (the Step lemmas), so that an invariant    *)
(* has one case for each action. The invariants rest on each other in this *)
(* order: TypeInv; ConnectionInv (a reset is one of onDisconnected);       *)
(* LinkedInv (maps, pending definitions and active outcomes agree by hash, *)
(* but for what the two threads are in the midst of); DefinitionsInv       *)
(* (definitions told are of securities there); TornInv and PricesInv (what *)
(* is ONLINE or about to be passed on had its full book).                  *)
(***************************************************************************)
EXTENDS HyperliquidMarketData, MessageProcessorProofs

-----------------------------------------------------------------------------
(* What each operation does to the fields of its record.                   *)
MdFields == {"securities", "symbolToId", "conn", "heard", "pendingSecDefs", "pendingOutcomes",
             "activeOutcomes", "lastExpiry", "pendingRefetch", "dropped"}

HeardFields == {"defs", "names", "status", "conn", "books", "stray"}

Keeps(s, t, changed) == \A f \in MdFields \ changed : t[f] = s[f]

KeepsHeard(g, h, changed) == \A f \in HeardFields \ changed : h[f] = g[f]

ShapedHeard(h) == DOMAIN h = HeardFields

Well(s) == DOMAIN s = MdFields /\ ShapedHeard(s.heard) /\ HyperliquidTypeOK(s)

LEMMA HearStatusEffect ==
  ASSUME NEW h, ShapedHeard(h), NEW ids, NEW status \in Statuses,
         NEW g, g = HearStatus(h, ids, status)
  PROVE  /\ ShapedHeard(g) /\ KeepsHeard(h, g, {"status", "books"})
         /\ status = "ONLINE" => g.books = h.books
         /\ status # "ONLINE" => g.books = h.books \ ids
         /\ \A id \in ids : LastStatus(g, id) = status
         /\ \A id : id \notin ids => LastStatus(g, id) = LastStatus(h, id)
<1>1. PICK said : said = [id \in DOMAIN h.status \cup ids |->
                            IF id \in ids THEN status ELSE h.status[id]]
  OBVIOUS
<1>2. PICK books : books = IF status = "ONLINE" THEN h.books ELSE h.books \ ids
  OBVIOUS
<1>3. g = [h EXCEPT !.status = said, !.books = books]
  BY <1>1, <1>2 DEF HearStatus
<1>4. ShapedHeard(g) /\ KeepsHeard(h, g, {"status", "books"}) /\ g.status = said /\ g.books = books
  BY <1>3 DEF ShapedHeard, HeardFields, KeepsHeard
<1> QED
  BY <1>1, <1>2, <1>4 DEF LastStatus

LEMMA HearRemoveEffect ==
  ASSUME NEW h, ShapedHeard(h), NEW ids, NEW g, g = HearRemove(h, ids)
  PROVE  /\ ShapedHeard(g) /\ KeepsHeard(h, g, {"defs", "names"})
         /\ g.defs = Erase(h.defs, ids)
         /\ g.names = Erase(h.names, UNION {NamesOf(h.defs[id]) : id \in ids \cap DOMAIN h.defs})
BY DEF ShapedHeard, HeardFields, KeepsHeard, HearRemove

LEMMA HearAddsEffect ==
  ASSUME NEW h, ShapedHeard(h), NEW A, NEW g, g = HearAdds(h, A)
  PROVE  /\ ShapedHeard(g) /\ KeepsHeard(h, g, {"defs", "names"})
         /\ g.defs = [id \in DOMAIN h.defs \cup DOMAIN A |-> IF id \in DOMAIN A THEN A[id] ELSE h.defs[id]]
BY DEF ShapedHeard, HeardFields, KeepsHeard, HearAdds

LEMMA HearConnectionEffect ==
  ASSUME NEW h, ShapedHeard(h), NEW conn, NEW g, g = HearConnection(h, conn)
  PROVE  ShapedHeard(g) /\ KeepsHeard(h, g, {"conn"})
BY DEF ShapedHeard, HeardFields, KeepsHeard, HearConnection

LEMMA HearPriceEffect ==
  ASSUME NEW h, ShapedHeard(h), NEW id
  PROVE  /\ ShapedHeard(HearTrade(h, id)) /\ KeepsHeard(h, HearTrade(h, id), {"stray"})
         /\ HearTrade(h, id).stray =
              IF LastStatus(h, id) \in {"PENDING_SNAPSHOT", "ONLINE"} THEN {} ELSE {id}
         /\ ShapedHeard(HearUpdate(h, id)) /\ KeepsHeard(h, HearUpdate(h, id), {"stray"})
         /\ HearUpdate(h, id).stray = IF id \in h.books THEN {} ELSE {id}
BY DEF ShapedHeard, HeardFields, KeepsHeard, HearTrade, HearPrice, HearUpdate, Placed

LEMMA HearBookEffect ==
  ASSUME NEW h, ShapedHeard(h), NEW id, NEW g, g = HearBook(h, id)
  PROVE  /\ ShapedHeard(g) /\ KeepsHeard(h, g, {"books", "stray"})
         /\ g.books = h.books \cup {id}
         /\ g.stray = IF LastStatus(h, id) \in {"PENDING_SNAPSHOT", "ONLINE"} THEN {} ELSE {id}
<1>1. PICK k : k = HearTrade(h, id)
  OBVIOUS
<1>2. g = [k EXCEPT !.books = k.books \cup {id}]
  BY <1>1 DEF HearBook, HearTrade
<1>3. /\ ShapedHeard(k) /\ KeepsHeard(h, k, {"stray"})
      /\ k.stray = IF LastStatus(h, id) \in {"PENDING_SNAPSHOT", "ONLINE"} THEN {} ELSE {id}
  BY <1>1, HearPriceEffect
<1> QED
  BY <1>2, <1>3 DEF ShapedHeard, HeardFields, KeepsHeard

-----------------------------------------------------------------------------
LEMMA StatusEffect ==
  ASSUME NEW s, Well(s), NEW ids, NEW status \in Statuses, NEW t, t = SetStatus(s, ids, status)
  PROVE  /\ Well(t) /\ Keeps(s, t, {"securities"})
         /\ DOMAIN t.securities = DOMAIN s.securities
         /\ \A id \in DOMAIN s.securities :
              /\ t.securities[id].symbol = s.securities[id].symbol
              /\ id \in ids => t.securities[id].status = status
              /\ id \notin ids => t.securities[id].status = s.securities[id].status
<1>1. PICK new : new = [id \in DOMAIN s.securities |->
                          IF id \in Changed(s, ids, status)
                          THEN [s.securities[id] EXCEPT !.status = status] ELSE s.securities[id]]
  OBVIOUS
<1>2. t = [s EXCEPT !.securities = new]
  BY <1>1 DEF SetStatus
<1>3. DOMAIN t = MdFields /\ t.securities = new /\ Keeps(s, t, {"securities"})
  BY <1>2 DEF Well, MdFields, Keeps
<1>4. ASSUME NEW id \in DOMAIN s.securities
      PROVE  /\ new[id] \in [symbol : Symbols, status : Statuses]
             /\ new[id].symbol = s.securities[id].symbol
             /\ id \in ids => new[id].status = status
             /\ id \notin ids => new[id].status = s.securities[id].status
  <2>1. s.securities[id] \in [symbol : Symbols, status : Statuses]
    BY DEF Well, HyperliquidTypeOK, ProcessorTypeOK, IsMap
  <2> QED
    BY <1>1, <2>1 DEF Changed
<1>5. DOMAIN new = DOMAIN s.securities
  BY <1>1
<1>6. Well(t)
  BY <1>3, <1>4, <1>5 DEF Well, HyperliquidTypeOK, ProcessorTypeOK, IsMap, Keeps, MdFields
<1> QED
  BY <1>3, <1>4, <1>5, <1>6

LEMMA HeardEffect ==
  ASSUME NEW s, Well(s), NEW h, ShapedHeard(h), NEW t, t = [s EXCEPT !.heard = h]
  PROVE  Well(t) /\ Keeps(s, t, {"heard"}) /\ t.heard = h
<1>1. DOMAIN t = MdFields /\ Keeps(s, t, {"heard"}) /\ t.heard = h
  BY DEF Well, Keeps, MdFields
<1> QED
  BY <1>1 DEF Well, HyperliquidTypeOK, ProcessorTypeOK, Keeps, MdFields

LEMMA UpdateEffect ==
  ASSUME NEW s, Well(s), NEW ids, NEW status \in Statuses,
         NEW t, t = UpdateSecurityStatus(s, ids, status)
  PROVE  /\ Well(t) /\ Keeps(s, t, {"securities", "heard"})
         /\ DOMAIN t.securities = DOMAIN s.securities
         /\ \A id \in DOMAIN s.securities :
              /\ t.securities[id].symbol = s.securities[id].symbol
              /\ t.securities[id].status = IF id \in ids THEN status ELSE s.securities[id].status
         /\ KeepsHeard(s.heard, t.heard, {"status", "books"})
         /\ status = "ONLINE" => t.heard.books = s.heard.books
         /\ status # "ONLINE" => t.heard.books = s.heard.books \ Changed(s, ids, status)
         /\ \A id \in Changed(s, ids, status) : LastStatus(t.heard, id) = status
         /\ \A id : id \notin Changed(s, ids, status) =>
                      LastStatus(t.heard, id) = LastStatus(s.heard, id)
<1>1. PICK u : u = SetStatus(s, ids, status)
  OBVIOUS
<1>2. PICK changed : changed = Changed(s, ids, status)
  OBVIOUS
<1>h. PICK h : h = HearStatus(s.heard, changed, status)
  OBVIOUS
<1>3. /\ Well(u) /\ Keeps(s, u, {"securities"})
      /\ DOMAIN u.securities = DOMAIN s.securities
      /\ \A id \in DOMAIN s.securities :
           /\ u.securities[id].symbol = s.securities[id].symbol
           /\ id \in ids => u.securities[id].status = status
           /\ id \notin ids => u.securities[id].status = s.securities[id].status
  BY <1>1, StatusEffect
<1>4. u.heard = s.heard /\ t = [u EXCEPT !.heard = h]
  BY <1>1, <1>2, <1>h, <1>3 DEF UpdateSecurityStatus, Keeps, MdFields
<1>5. /\ ShapedHeard(h) /\ KeepsHeard(s.heard, h, {"status", "books"})
      /\ status = "ONLINE" => h.books = s.heard.books
      /\ status # "ONLINE" => h.books = s.heard.books \ changed
      /\ \A id \in changed : LastStatus(h, id) = status
      /\ \A id : id \notin changed => LastStatus(h, id) = LastStatus(s.heard, id)
  BY <1>h, HearStatusEffect DEF Well
<1>6. Well(t) /\ Keeps(u, t, {"heard"}) /\ t.heard = h
  BY <1>3, <1>4, <1>5, HeardEffect
<1>7. t.securities = u.securities /\ Keeps(s, t, {"securities", "heard"})
  BY <1>3, <1>6 DEF Keeps, MdFields
<1> QED
  BY <1>2, <1>3, <1>5, <1>6, <1>7

LEMMA ConnectionEffect ==
  ASSUME NEW s, Well(s), NEW conn \in Connections, NEW t, t = UpdateConnectionStatus(s, conn)
  PROVE  /\ Well(t) /\ Keeps(s, t, {"conn", "heard"}) /\ t.conn = conn
         /\ KeepsHeard(s.heard, t.heard, {"conn"})
<1>1. PICK h : h = HearConnection(s.heard, conn)
  OBVIOUS
<1>2. ShapedHeard(h) /\ KeepsHeard(s.heard, h, {"conn"})
  BY <1>1, HearConnectionEffect DEF Well
<1>3. t = [s EXCEPT !.conn = conn, !.heard = h]
  BY <1>1 DEF UpdateConnectionStatus
<1>4. DOMAIN t = MdFields /\ Keeps(s, t, {"conn", "heard"}) /\ t.conn = conn /\ t.heard = h
  BY <1>3 DEF Well, Keeps, MdFields
<1> QED
  BY <1>2, <1>4 DEF Well, HyperliquidTypeOK, ProcessorTypeOK, Keeps, MdFields

(* removeSecurity and the REMOVE before it                                 *)
NamesGone(h, ids) == UNION {NamesOf(h.defs[id]) : id \in ids \cap DOMAIN h.defs}

LEMMA RemoveEffect ==
  ASSUME NEW s, Well(s), NEW ids, NEW t, t = RemoveDefinitions(s, ids)
  PROVE  /\ Well(t) /\ Keeps(s, t, {"heard"})
         /\ KeepsHeard(s.heard, t.heard, {"defs", "names"})
         /\ t.heard.defs = Erase(s.heard.defs, ids)
         /\ t.heard.names = Erase(s.heard.names, NamesGone(s.heard, ids))
<1>1. PICK h : h = HearRemove(s.heard, ids)
  OBVIOUS
<1>2. /\ ShapedHeard(h) /\ KeepsHeard(s.heard, h, {"defs", "names"})
      /\ h.defs = Erase(s.heard.defs, ids)
      /\ h.names = Erase(s.heard.names, NamesGone(s.heard, ids))
  BY <1>1, HearRemoveEffect DEF Well, NamesGone
<1>3. t = [s EXCEPT !.heard = h]
  BY <1>1 DEF RemoveDefinitions
<1> QED
  BY <1>2, <1>3, HeardEffect

LEMMA WithdrawEffect ==
  ASSUME NEW s, Well(s), NEW t, t = WithdrawAll(s)
  PROVE  /\ Well(t) /\ Keeps(s, t, {"securities", "heard", "conn"}) /\ t.conn = "OFFLINE"
         /\ DOMAIN t.securities = DOMAIN s.securities
         /\ \A id \in DOMAIN s.securities : t.securities[id].status = "OFFLINE"
         /\ t.heard.stray = s.heard.stray
         /\ t.heard.defs = Erase(s.heard.defs, DOMAIN s.securities)
         /\ t.heard.names = Erase(s.heard.names, NamesGone(s.heard, DOMAIN s.securities))
<1>1. PICK u : u = RemoveDefinitions(s, DOMAIN s.securities)
  OBVIOUS
<1>2. /\ Well(u) /\ Keeps(s, u, {"heard"})
      /\ KeepsHeard(s.heard, u.heard, {"defs", "names"})
      /\ u.heard.defs = Erase(s.heard.defs, DOMAIN s.securities)
      /\ u.heard.names = Erase(s.heard.names, NamesGone(s.heard, DOMAIN s.securities))
  BY <1>1, RemoveEffect
<1>3. PICK v : v = UpdateSecurityStatus(u, DOMAIN u.securities, "OFFLINE")
  OBVIOUS
<1>4. /\ Well(v) /\ Keeps(u, v, {"securities", "heard"})
      /\ DOMAIN v.securities = DOMAIN u.securities
      /\ \A id \in DOMAIN u.securities : v.securities[id].status = "OFFLINE"
      /\ KeepsHeard(u.heard, v.heard, {"status", "books"})
  BY <1>2, <1>3, UpdateEffect DEF Statuses
<1>5. t = UpdateConnectionStatus(v, "OFFLINE")
  BY <1>1, <1>3 DEF WithdrawAll, OfflineOnly
<1>6. /\ Well(t) /\ Keeps(v, t, {"conn", "heard"}) /\ t.conn = "OFFLINE"
      /\ KeepsHeard(v.heard, t.heard, {"conn"})
  BY <1>4, <1>5, ConnectionEffect DEF Connections
<1>7. u.securities = s.securities /\ t.securities = v.securities
  BY <1>2, <1>6 DEF Keeps, MdFields
<1>8. Keeps(s, t, {"securities", "heard", "conn"})
  BY <1>2, <1>4, <1>6 DEF Keeps, MdFields
<1>9. t.heard.stray = s.heard.stray /\ t.heard.defs = u.heard.defs /\ t.heard.names = u.heard.names
  BY <1>2, <1>4, <1>6 DEF KeepsHeard, HeardFields
<1> QED
  BY <1>2, <1>4, <1>6, <1>7, <1>8, <1>9

LEMMA AddEffect ==
  ASSUME NEW s, Well(s), NEW id \in Ids, NEW coin \in Symbols, NEW t, t = AddSecurity(s, id, coin)
  PROVE  /\ Well(t) /\ Keeps(s, t, {"securities"})
         /\ DOMAIN t.securities = DOMAIN s.securities \cup {id}
         /\ t.securities[id] = [symbol |-> coin, status |-> "NULL"]
         /\ \A i \in DOMAIN s.securities \ {id} : t.securities[i] = s.securities[i]
<1>1. PICK new : new = Put(s.securities, id, [symbol |-> coin, status |-> "NULL"])
  OBVIOUS
<1>2. DOMAIN t = MdFields /\ t.securities = new /\ Keeps(s, t, {"securities"})
  BY <1>1 DEF AddSecurity, Well, MdFields, Keeps
<1>3. /\ DOMAIN new = DOMAIN s.securities \cup {id}
      /\ new[id] = [symbol |-> coin, status |-> "NULL"]
      /\ \A i \in DOMAIN s.securities \ {id} : new[i] = s.securities[i]
  BY <1>1 DEF Put
<1>4. IsMap(new, Ids, [symbol : Symbols, status : Statuses])
  BY <1>3 DEF IsMap, Well, HyperliquidTypeOK, ProcessorTypeOK, Statuses
<1>5. Well(t)
  BY <1>2, <1>4 DEF Well, HyperliquidTypeOK, ProcessorTypeOK, Keeps, MdFields
<1> QED
  BY <1>2, <1>3, <1>5

LEMMA LinkEffect ==
  ASSUME NEW s, Well(s), NEW id \in Ids, NEW coin \in Symbols, NEW t, t = LinkSymbol(s, id, coin)
  PROVE  /\ Well(t) /\ Keeps(s, t, {"symbolToId"})
         /\ t.symbolToId = Put(s.symbolToId, coin, id)
<1>1. PICK new : new = Put(s.symbolToId, coin, id)
  OBVIOUS
<1>2. DOMAIN t = MdFields /\ t.symbolToId = new /\ Keeps(s, t, {"symbolToId"})
  BY <1>1 DEF LinkSymbol, Well, MdFields, Keeps
<1>3. IsMap(new, Symbols, Ids)
  BY <1>1 DEF IsMap, Put, Well, HyperliquidTypeOK, ProcessorTypeOK
<1> QED
  BY <1>1, <1>2, <1>3 DEF Well, HyperliquidTypeOK, ProcessorTypeOK, Keeps, MdFields

LEMMA HoldEffect ==
  ASSUME NEW s, Well(s), NEW id \in Ids, NEW coin \in Symbols, NEW t, t = Hold(s, coin, id)
  PROVE  /\ Well(t) /\ Keeps(s, t, {"pendingSecDefs", "pendingOutcomes", "dropped"})
         /\ coin \in Perps => /\ t.pendingSecDefs = Put(s.pendingSecDefs, id, coin)
                              /\ t.pendingOutcomes = s.pendingOutcomes
         /\ coin \notin Perps => /\ t.pendingSecDefs = s.pendingSecDefs
                                 /\ t.pendingOutcomes = Put(s.pendingOutcomes, id, coin)
<1>1. CASE coin \in Perps
  <2>1. PICK new, dropped : new = Put(s.pendingSecDefs, id, coin) /\ dropped = s.dropped \ {coin}
    OBVIOUS
  <2>2. t = [s EXCEPT !.pendingSecDefs = new, !.dropped = dropped]
    BY <1>1, <2>1 DEF Hold, HoldAsset
  <2>3. /\ DOMAIN t = MdFields /\ t.pendingSecDefs = new /\ t.dropped = dropped
        /\ Keeps(s, t, {"pendingSecDefs", "dropped"})
    BY <2>2 DEF Well, MdFields, Keeps
  <2>4. IsMap(new, Ids, Perps) /\ dropped \subseteq Perps
    BY <1>1, <2>1 DEF IsMap, Put, Well, HyperliquidTypeOK
  <2> QED
    BY <1>1, <2>1, <2>3, <2>4 DEF Well, HyperliquidTypeOK, ProcessorTypeOK, Keeps, MdFields
<1>2. CASE coin \notin Perps
  <2>1. PICK new : new = Put(s.pendingOutcomes, id, coin)
    OBVIOUS
  <2>2. DOMAIN t = MdFields /\ t.pendingOutcomes = new /\ Keeps(s, t, {"pendingOutcomes"})
    BY <1>2, <2>1 DEF Hold, Well, MdFields, Keeps
  <2>3. IsMap(new, Ids, Outcomes)
    BY <1>2, <2>1, HyperliquidProcessorAssumption DEF IsMap, Put, Well, HyperliquidTypeOK
  <2> QED
    BY <1>2, <2>1, <2>2, <2>3 DEF Well, HyperliquidTypeOK, ProcessorTypeOK, Keeps, MdFields
<1> QED
  BY <1>1, <1>2

LEMMA ForgetEffect ==
  ASSUME NEW s, Well(s), NEW t, t = ForgetPending(s)
  PROVE  /\ Well(t) /\ Keeps(s, t, {"pendingSecDefs", "pendingOutcomes", "activeOutcomes"})
         /\ DOMAIN t.pendingSecDefs = {} /\ DOMAIN t.pendingOutcomes = {} /\ t.activeOutcomes = {}
<1>1. PICK none : none = NoEntries
  OBVIOUS
<1>2. DOMAIN none = {}
  BY <1>1 DEF NoEntries
<1>3. t = [s EXCEPT !.pendingSecDefs = none, !.pendingOutcomes = none, !.activeOutcomes = {}]
  BY <1>1 DEF ForgetPending
<1>4. /\ DOMAIN t = MdFields /\ Keeps(s, t, {"pendingSecDefs", "pendingOutcomes", "activeOutcomes"})
      /\ t.pendingSecDefs = none /\ t.pendingOutcomes = none /\ t.activeOutcomes = {}
  BY <1>3 DEF Well, MdFields, Keeps
<1> QED
  BY <1>2, <1>4 DEF Well, HyperliquidTypeOK, ProcessorTypeOK, IsMap, Keeps, MdFields

-----------------------------------------------------------------------------
(* A set of naturals that is bounded has a greatest element.               *)
LEMMA Greatest ==
  ASSUME NEW T \in SUBSET Nat, T # {}, NEW bound \in Nat, \A e \in T : e <= bound
  PROVE  \E e \in T : \A d \in T : d <= e
<1> DEFINE U == {bound - e : e \in T}
<1>1. U \subseteq Nat /\ U # {}
  <2>1. ASSUME NEW e \in T PROVE bound - e \in Nat
    <3>1. e \in Nat /\ e <= bound
      OBVIOUS
    <3>2. QED
      BY <3>1
  <2>2. QED
    BY <2>1
<1>2. PICK m \in U : \A n \in U : <<n, m>> \notin OpToRel(<, Nat)
  BY <1>1, WFMin, NatLessThanWellFounded
<1>3. PICK e \in T : m = bound - e
  OBVIOUS
<1>4. ASSUME NEW d \in T PROVE d <= e
  <2>1. bound - d \in U
    OBVIOUS
  <2>2. <<bound - d, bound - e>> \notin OpToRel(<, Nat)
    BY <1>2, <1>3, <2>1
  <2>3. bound - d \in Nat /\ bound - e \in Nat
    BY <1>1
  <2> HIDE DEF U
  <2>4. ~(bound - d < bound - e)
    BY <2>2, <2>3 DEF OpToRel
  <2>5. QED
    BY <2>4
<1>5. QED
  BY <1>4

(* removeExpiredOutcomes                                                   *)
Over(s, time) == {a \in s.activeOutcomes : IsOver(a.coin, time)}

IdsOver(s, time) == {a.id : a \in Over(s, time)}

Expired(s, t, over, ids) ==
  /\ Keeps(s, t, {"securities", "symbolToId", "heard", "activeOutcomes", "lastExpiry",
                 "pendingRefetch"})
  /\ DOMAIN t.securities = DOMAIN s.securities \ ids
  /\ \A id \in DOMAIN t.securities :
       /\ t.securities[id].symbol = s.securities[id].symbol
       /\ t.securities[id].status = s.securities[id].status
  /\ t.symbolToId = Erase(s.symbolToId,
                          {s.securities[id].symbol : id \in ids \cap DOMAIN s.securities})
  /\ t.activeOutcomes = s.activeOutcomes \ over
  /\ KeepsHeard(s.heard, t.heard, {"defs", "names", "status", "books"})
  /\ t.heard.defs = Erase(s.heard.defs, ids)
  /\ t.heard.names = Erase(s.heard.names, NamesGone(s.heard, ids))
  /\ s.heard.books \subseteq t.heard.books \cup ids
  /\ \A id : id \notin ids => LastStatus(t.heard, id) = LastStatus(s.heard, id)

LEMMA ExpireEffect ==
  ASSUME NEW s, Well(s), NEW time \in Nat, NEW t, t = RemoveExpiredOutcomes(s, time)
  PROVE  Well(t) /\ Expired(s, t, Over(s, time), IdsOver(s, time))
<1> DEFINE over == Over(s, time)
           ids == IdsOver(s, time)
<1>0. /\ over = {a \in s.activeOutcomes : IsOver(a.coin, time)}
      /\ ids = {a.id : a \in over}
  BY DEF Over, IdsOver
<1> HIDE DEF over, ids
<1>1. PICK u : u = UpdateSecurityStatus(s, ids, "OFFLINE")
  OBVIOUS
<1>2. /\ Well(u) /\ Keeps(s, u, {"securities", "heard"})
      /\ DOMAIN u.securities = DOMAIN s.securities
      /\ \A id \in DOMAIN s.securities :
           /\ u.securities[id].symbol = s.securities[id].symbol
           /\ u.securities[id].status = IF id \in ids THEN "OFFLINE" ELSE s.securities[id].status
      /\ KeepsHeard(s.heard, u.heard, {"status", "books"})
      /\ u.heard.books = s.heard.books \ Changed(s, ids, "OFFLINE")
      /\ \A id : id \notin Changed(s, ids, "OFFLINE") =>
                   LastStatus(u.heard, id) = LastStatus(s.heard, id)
  BY <1>1, UpdateEffect DEF Statuses
<1>3. PICK v : v = RemoveDefinitions(u, ids)
  OBVIOUS
<1>4. /\ Well(v) /\ Keeps(u, v, {"heard"})
      /\ KeepsHeard(u.heard, v.heard, {"defs", "names"})
      /\ v.heard.defs = Erase(u.heard.defs, ids)
      /\ v.heard.names = Erase(u.heard.names, NamesGone(u.heard, ids))
  BY <1>2, <1>3, RemoveEffect
<1>5. PICK securities : securities = Erase(u.securities, ids)
  OBVIOUS
<1>6. PICK gone : gone = {u.securities[id].symbol : id \in ids \cap DOMAIN u.securities}
  OBVIOUS
<1>7. PICK symbolToId : symbolToId = Erase(u.symbolToId, gone)
  OBVIOUS
<1>8. PICK expiries : expiries = {Expiry[a.coin] : a \in over} \cup {s.lastExpiry}
  OBVIOUS
<1>9. PICK last : last = CHOOSE e \in expiries : \A d \in expiries : d <= e
  OBVIOUS
<1>10. last \in Nat
  <2>1. \A a \in over : Expiry[a.coin] \in Nat /\ time >= Expiry[a.coin] - ExpiryBuffer
    BY <1>0, HyperliquidProcessorAssumption DEF Well, HyperliquidTypeOK, Active, IsOver
  <2>2. s.lastExpiry \in Nat /\ ExpiryBuffer \in Nat
    BY HyperliquidProcessorAssumption DEF Well, HyperliquidTypeOK
  <2>3. expiries \subseteq Nat /\ expiries # {}
    BY <1>8, <2>1, <2>2
  <2>4. PICK bound : bound = time + ExpiryBuffer + s.lastExpiry
    OBVIOUS
  <2>5. bound \in Nat /\ \A a \in over : Expiry[a.coin] <= bound
    BY <2>1, <2>2, <2>4
  <2>6. \A e \in expiries : e <= bound
    BY <1>8, <2>2, <2>4, <2>5
  <2>7. \E e \in expiries : \A d \in expiries : d <= e
    BY <2>3, <2>5, <2>6, Greatest
  <2> QED
    BY <1>9, <2>3, <2>7
<1>11. PICK refetch : refetch = (v.pendingRefetch \/ over # {})
  OBVIOUS
<1>12. PICK active : active = s.activeOutcomes \ over
  OBVIOUS
<1>13. PICK w : w = RemoveSecurity(u, ids)
  OBVIOUS
<1>14. PICK x : x = RemoveById(u, ids)
  OBVIOUS
<1>15. x = [v EXCEPT !.securities = securities]
  BY <1>3, <1>5, <1>14 DEF RemoveById
<1>16. x.symbolToId = u.symbolToId /\ DOMAIN x = MdFields /\ x.securities = securities
       /\ Keeps(v, x, {"securities"})
  BY <1>4, <1>15 DEF Well, Keeps, MdFields
<1>17. w = [x EXCEPT !.symbolToId = symbolToId]
  BY <1>6, <1>7, <1>13, <1>14 DEF RemoveSecurity
<1>18. w.symbolToId = symbolToId /\ DOMAIN w = MdFields /\ Keeps(x, w, {"symbolToId"})
  BY <1>16, <1>17 DEF Keeps, MdFields
<1>19. w.activeOutcomes = s.activeOutcomes /\ w.pendingRefetch = v.pendingRefetch
  BY <1>2, <1>4, <1>16, <1>18 DEF Keeps, MdFields
<1>20. t = [w EXCEPT !.activeOutcomes = active, !.lastExpiry = last, !.pendingRefetch = refetch]
  BY <1>0, <1>1, <1>8, <1>9, <1>11, <1>12, <1>13, <1>19 DEF RemoveExpiredOutcomes
<1>21. /\ DOMAIN t = MdFields /\ Keeps(w, t, {"activeOutcomes", "lastExpiry", "pendingRefetch"})
       /\ t.activeOutcomes = active /\ t.lastExpiry = last /\ t.pendingRefetch = refetch
  BY <1>18, <1>20 DEF Keeps, MdFields
<1>22. /\ t.securities = securities /\ t.symbolToId = symbolToId /\ t.heard = v.heard
       /\ Keeps(s, t, {"securities", "symbolToId", "heard", "activeOutcomes", "lastExpiry",
                       "pendingRefetch"})
  BY <1>2, <1>4, <1>16, <1>18, <1>21 DEF Keeps, MdFields
<1>23. /\ DOMAIN securities = DOMAIN s.securities \ ids
       /\ \A id \in DOMAIN securities :
            /\ securities[id].symbol = s.securities[id].symbol
            /\ securities[id].status = s.securities[id].status
            /\ securities[id] \in [symbol : Symbols, status : Statuses]
  BY <1>2, <1>5 DEF Erase, Well, HyperliquidTypeOK, ProcessorTypeOK, IsMap
<1>24. gone = {s.securities[id].symbol : id \in ids \cap DOMAIN s.securities}
  BY <1>2, <1>6
<1>25. u.symbolToId = s.symbolToId
  BY <1>2 DEF Keeps, MdFields
<1>26. IsMap(securities, Ids, [symbol : Symbols, status : Statuses])
  BY <1>23 DEF IsMap, Well, HyperliquidTypeOK, ProcessorTypeOK
<1>27. IsMap(symbolToId, Symbols, Ids)
  BY <1>7, <1>25 DEF IsMap, Well, HyperliquidTypeOK, ProcessorTypeOK, Erase
<1>28. active \subseteq Active /\ refetch \in BOOLEAN
  BY <1>11, <1>12 DEF Well, HyperliquidTypeOK
<1>29. Well(t)
  BY <1>4, <1>10, <1>21, <1>22, <1>26, <1>27, <1>28
     DEF Well, HyperliquidTypeOK, ProcessorTypeOK, Keeps, MdFields
<1>30. /\ KeepsHeard(s.heard, t.heard, {"defs", "names", "status", "books"})
       /\ u.heard.defs = s.heard.defs /\ u.heard.names = s.heard.names
       /\ t.heard.status = u.heard.status /\ t.heard.books = u.heard.books
  BY <1>2, <1>4, <1>22 DEF KeepsHeard, HeardFields
<1>31. NamesGone(u.heard, ids) = NamesGone(s.heard, ids)
  BY <1>30 DEF NamesGone
<1>32. Changed(s, ids, "OFFLINE") \subseteq ids
  BY DEF Changed
<1>33. s.heard.books \subseteq t.heard.books \cup ids
  BY <1>2, <1>30, <1>32
<1>34. \A id : LastStatus(t.heard, id) = LastStatus(u.heard, id)
  BY <1>30 DEF LastStatus
<1>35. \A id : id \notin ids => LastStatus(t.heard, id) = LastStatus(s.heard, id)
  BY <1>2, <1>32, <1>34
<1>36. Expired(s, t, over, ids)
  BY <1>4, <1>7, <1>12, <1>21, <1>22, <1>23, <1>24, <1>25, <1>30, <1>31, <1>33, <1>35 DEF Expired
<1> QED
  BY <1>29, <1>36 DEF over, ids

(* onL2Book                                                                *)
FirstBook(s, id) ==
  {id} \cap {i \in DOMAIN s.securities : s.securities[i].status = "PENDING_SNAPSHOT"}

Emitted(s, K) == AssetDefs(Only(s.pendingSecDefs, K))

EmittedOutcome(s, id) == OutcomeDefs(Only(s.pendingOutcomes, {id}))

Added(s, id) ==
  {[id |-> i, coin |-> s.pendingOutcomes[i]] : i \in DOMAIN s.pendingOutcomes \cap {id}}

(* What a book does before it is passed on                                 *)
BookStarted(s, t, id) ==
  /\ Keeps(s, t, {"securities", "heard", "pendingSecDefs", "pendingOutcomes", "activeOutcomes",
                 "dropped", "conn"})
  /\ DOMAIN t.securities = DOMAIN s.securities
  /\ \A i \in DOMAIN s.securities :
       /\ t.securities[i].symbol = s.securities[i].symbol
       /\ i \in FirstBook(s, id) => t.securities[i].status = "ONLINE"
       /\ i \notin FirstBook(s, id) => t.securities[i].status = s.securities[i].status
  /\ \A i \in DOMAIN t.pendingSecDefs :
       i \in DOMAIN s.pendingSecDefs /\ t.pendingSecDefs[i] = s.pendingSecDefs[i]
  /\ t.pendingOutcomes = Erase(s.pendingOutcomes, {id})
  /\ t.activeOutcomes = s.activeOutcomes \cup Added(s, id)
  /\ \A i \in FirstBook(s, id) : LastStatus(t.heard, i) = "ONLINE"
  /\ \A i : i \notin FirstBook(s, id) => LastStatus(t.heard, i) = LastStatus(s.heard, i)
  /\ \E g, h, K : /\ ShapedHeard(g) /\ g.defs = s.heard.defs /\ g.names = s.heard.names
                   /\ h = HearAdds(HearAdds(g, Emitted(s, K)), EmittedOutcome(s, id))
                   /\ t.heard.defs = h.defs /\ t.heard.names = h.names

StartsBook(s, t, id) == \E priced, late \in BOOLEAN : t = BookStarts(s, id, priced, late)

LEMMA BookStartsEffect ==
  ASSUME NEW s, Well(s), NEW id \in Ids, NEW t, StartsBook(s, t, id)
  PROVE  /\ Well(t) /\ BookStarted(s, t, id) /\ t.conn = s.conn
         /\ t.heard.books = s.heard.books /\ t.heard.stray = s.heard.stray
<1>0. PICK priced \in BOOLEAN, late \in BOOLEAN : t = BookStarts(s, id, priced, late)
  BY Zenon DEF StartsBook
<1>1. PICK first : first = FirstBook(s, id)
  OBVIOUS
<1>2. PICK u : u = UpdateSecurityStatus(s, first, "ONLINE")
  OBVIOUS
<1>3. Changed(s, first, "ONLINE") = first
  BY <1>1 DEF Changed, FirstBook
<1>4. /\ Well(u) /\ Keeps(s, u, {"securities", "heard"})
      /\ DOMAIN u.securities = DOMAIN s.securities
      /\ \A i \in DOMAIN s.securities :
           /\ u.securities[i].symbol = s.securities[i].symbol
           /\ u.securities[i].status = IF i \in first THEN "ONLINE" ELSE s.securities[i].status
      /\ KeepsHeard(s.heard, u.heard, {"status", "books"})
      /\ u.heard.books = s.heard.books
      /\ \A i \in Changed(s, first, "ONLINE") : LastStatus(u.heard, i) = "ONLINE"
      /\ \A i : i \notin Changed(s, first, "ONLINE") =>
                  LastStatus(u.heard, i) = LastStatus(s.heard, i)
  BY <1>2, UpdateEffect DEF Statuses
<1>5. PICK others : others = Erase(s.pendingSecDefs, {id})
  OBVIOUS
<1>6. PICK K : K = (IF priced THEN {id} ELSE {}) \cup (IF late THEN DOMAIN others ELSE {})
  OBVIOUS
<1>7. PICK A : A = Emitted(s, K)
  OBVIOUS
<1>8. PICK O : O = EmittedOutcome(s, id)
  OBVIOUS
<1>9. PICK outcome, asset : outcome = Only(s.pendingOutcomes, {id}) /\ asset = Only(s.pendingSecDefs, {id})
  OBVIOUS
<1>10. PICK outcomes : outcomes = Erase(s.pendingOutcomes, {id})
  OBVIOUS
<1>11. PICK added : added = {[id |-> i, coin |-> outcome[i]] : i \in DOMAIN outcome}
  OBVIOUS
<1>12. PICK givenUp : givenUp = {asset[i] : i \in DOMAIN asset \ DOMAIN s.heard.defs}
  OBVIOUS
<1>13. PICK dropped : dropped = IF priced THEN s.dropped ELSE s.dropped \cup givenUp
  OBVIOUS
<1>14. PICK active : active = s.activeOutcomes \cup added
  OBVIOUS
<1>15. PICK k : k = HearAdds(u.heard, A)
  OBVIOUS
<1>16. PICK h : h = HearAdds(k, O)
  OBVIOUS
<1>17. /\ u.pendingOutcomes = s.pendingOutcomes /\ u.activeOutcomes = s.activeOutcomes
       /\ u.dropped = s.dropped /\ ShapedHeard(u.heard)
  BY <1>4 DEF Keeps, MdFields, Well
<1>18. t = [u EXCEPT !.pendingSecDefs = others, !.pendingOutcomes = outcomes,
                     !.activeOutcomes = active, !.dropped = dropped, !.heard = h]
  <2>1. t = [u EXCEPT
               !.pendingSecDefs = others,
               !.pendingOutcomes = Erase(u.pendingOutcomes, {id}),
               !.activeOutcomes = u.activeOutcomes \cup added,
               !.dropped = IF priced THEN u.dropped ELSE u.dropped \cup givenUp,
               !.heard = HearAdds(HearAdds(u.heard, A), O)]
    BY <1>0, <1>1, <1>2, <1>5, <1>6, <1>7, <1>8, <1>9, <1>11, <1>12
       DEF BookStarts, FirstBook, Emitted, EmittedOutcome
  <2> QED
    BY <1>10, <1>13, <1>14, <1>15, <1>16, <1>17, <2>1
<1>19. /\ DOMAIN t = MdFields /\ t.heard = h /\ t.pendingSecDefs = others
       /\ t.pendingOutcomes = outcomes /\ t.activeOutcomes = active /\ t.dropped = dropped
       /\ Keeps(u, t, {"heard", "pendingSecDefs", "pendingOutcomes", "activeOutcomes", "dropped"})
  BY <1>4, <1>18 DEF Well, Keeps, MdFields
<1>20. /\ t.securities = u.securities /\ t.conn = s.conn
       /\ Keeps(s, t, {"securities", "heard", "pendingSecDefs", "pendingOutcomes",
                       "activeOutcomes", "dropped", "conn"})
  BY <1>4, <1>19 DEF Keeps, MdFields
<1>21. /\ ShapedHeard(k) /\ KeepsHeard(u.heard, k, {"defs", "names"})
       /\ ShapedHeard(h) /\ KeepsHeard(k, h, {"defs", "names"})
  <2>1. ShapedHeard(k) /\ KeepsHeard(u.heard, k, {"defs", "names"})
    BY <1>15, <1>17, HearAddsEffect
  <2> QED
    BY <1>16, <2>1, HearAddsEffect
<1>22. h.stray = s.heard.stray /\ h.books = s.heard.books /\ h.status = u.heard.status
       /\ u.heard.defs = s.heard.defs /\ u.heard.names = s.heard.names
  BY <1>4, <1>21 DEF KeepsHeard, HeardFields
<1>23. IsMap(others, Ids, Perps) /\ IsMap(outcomes, Ids, Outcomes)
  BY <1>5, <1>10 DEF Well, HyperliquidTypeOK, IsMap, Erase
<1>24. added = Added(s, id)
  BY <1>9, <1>11 DEF Only, Added
<1>25. active \subseteq Active
  <2>1. \A i \in DOMAIN s.pendingOutcomes \cap {id} : [id |-> i, coin |-> s.pendingOutcomes[i]] \in Active
    BY DEF Well, HyperliquidTypeOK, IsMap, Active
  <2> QED
    BY <1>14, <1>24, <2>1 DEF Well, HyperliquidTypeOK, Added
<1>26. dropped \subseteq Perps
  <2>1. \A i \in DOMAIN asset : asset[i] \in Perps
    BY <1>9 DEF Well, HyperliquidTypeOK, IsMap, Only
  <2> QED
    BY <1>12, <1>13, <2>1 DEF Well, HyperliquidTypeOK
<1>27. Well(t)
  BY <1>4, <1>19, <1>21, <1>23, <1>25, <1>26 DEF Well, HyperliquidTypeOK, ProcessorTypeOK, Keeps, MdFields
<1>28. \A i : LastStatus(h, i) = LastStatus(u.heard, i)
  BY <1>22 DEF LastStatus
<1>29. /\ t.heard = HearAdds(HearAdds(u.heard, Emitted(s, K)), EmittedOutcome(s, id))
       /\ \A i \in DOMAIN others : i \in DOMAIN s.pendingSecDefs /\ others[i] = s.pendingSecDefs[i]
  BY <1>5, <1>7, <1>8, <1>15, <1>16, <1>19 DEF Erase
<1>30. BookStarted(s, t, id)
  BY <1>1, <1>3, <1>4, <1>10, <1>14, <1>17, <1>19, <1>20, <1>22, <1>24, <1>28, <1>29 DEF BookStarted
<1> QED
  BY <1>19, <1>20, <1>22, <1>27, <1>30

EndsBook(s, t, id) == \E late \in BOOLEAN : t = BookEnds(s, id, late)

LEMMA BookEndsEffect ==
  ASSUME NEW s, Well(s), NEW id \in Ids, NEW t, EndsBook(s, t, id)
  PROVE  /\ Well(t) /\ Keeps(s, t, {"heard", "pendingSecDefs", "dropped", "conn"})
         /\ t.pendingSecDefs = s.pendingSecDefs \/ DOMAIN t.pendingSecDefs = {}
         /\ KeepsHeard(s.heard, t.heard, {"conn", "books", "stray"})
         /\ t.heard.books = s.heard.books \cup {id}
         /\ LastStatus(s.heard, id) \in {"PENDING_SNAPSHOT", "ONLINE"} => t.heard.stray = {}
         /\ t.heard.stray \subseteq {id}
<1>0. PICK late \in BOOLEAN : t = BookEnds(s, id, late)
  BY Zenon DEF EndsBook
<1>1. PICK pending : pending = IF late THEN NoEntries ELSE s.pendingSecDefs
  OBVIOUS
<1>2. PICK conn : conn = IF pending = NoEntries /\ s.pendingOutcomes = NoEntries THEN "ONLINE" ELSE s.conn
  OBVIOUS
<1>3. PICK dropped :
        dropped = IF late THEN s.dropped \cup {s.pendingSecDefs[i] :
                                                i \in DOMAIN s.pendingSecDefs \ DOMAIN s.heard.defs}
                  ELSE s.dropped
  OBVIOUS
<1>4. PICK g : g = HearConnection(s.heard, conn)
  OBVIOUS
<1>5. PICK h : h = HearBook(g, id)
  OBVIOUS
<1>6. t = [s EXCEPT !.pendingSecDefs = pending, !.dropped = dropped, !.conn = conn, !.heard = h]
  BY <1>0, <1>1, <1>2, <1>3, <1>4, <1>5 DEF BookEnds
<1>7. /\ DOMAIN t = MdFields /\ t.pendingSecDefs = pending /\ t.dropped = dropped
      /\ t.conn = conn /\ t.heard = h /\ Keeps(s, t, {"heard", "pendingSecDefs", "dropped", "conn"})
  BY <1>6 DEF Well, MdFields, Keeps
<1>8. pending = s.pendingSecDefs \/ DOMAIN pending = {}
  BY <1>1 DEF NoEntries
<1>9. IsMap(pending, Ids, Perps)
  BY <1>8 DEF Well, HyperliquidTypeOK, IsMap
<1>10. conn \in Connections
  BY <1>2 DEF Well, HyperliquidTypeOK, ProcessorTypeOK, Connections
<1>11. dropped \subseteq Perps
  BY <1>3 DEF Well, HyperliquidTypeOK, IsMap
<1>12. ShapedHeard(g) /\ KeepsHeard(s.heard, g, {"conn"})
  BY <1>4, HearConnectionEffect DEF Well
<1>13. /\ ShapedHeard(h) /\ KeepsHeard(g, h, {"books", "stray"})
       /\ h.books = g.books \cup {id}
       /\ h.stray = IF LastStatus(g, id) \in {"PENDING_SNAPSHOT", "ONLINE"} THEN {} ELSE {id}
  BY <1>5, <1>12, HearBookEffect
<1>14. g.status = s.heard.status /\ g.books = s.heard.books
       /\ KeepsHeard(s.heard, h, {"conn", "books", "stray"})
  BY <1>12, <1>13 DEF KeepsHeard, HeardFields
<1>15. LastStatus(g, id) = LastStatus(s.heard, id)
  BY <1>14 DEF LastStatus
<1>16. Well(t)
  BY <1>7, <1>9, <1>10, <1>11, <1>13 DEF Well, HyperliquidTypeOK, ProcessorTypeOK, Keeps, MdFields
<1> QED
  BY <1>7, <1>8, <1>13, <1>14, <1>15, <1>16

LEMMA WriteUpdateEffect ==
  ASSUME NEW s, Well(s), NEW id, NEW t, t = WriteUpdate(s, id)
  PROVE  /\ Well(t) /\ Keeps(s, t, {"heard"}) /\ KeepsHeard(s.heard, t.heard, {"stray"})
         /\ t.heard.stray = IF id \in s.heard.books THEN {} ELSE {id}
<1>1. PICK h : h = HearUpdate(s.heard, id)
  OBVIOUS
<1>2. /\ ShapedHeard(h) /\ KeepsHeard(s.heard, h, {"stray"})
      /\ h.stray = IF id \in s.heard.books THEN {} ELSE {id}
  BY <1>1, HearPriceEffect DEF Well
<1>3. t = [s EXCEPT !.heard = h]
  BY <1>1 DEF WriteUpdate
<1> QED
  BY <1>2, <1>3, HeardEffect

LEMMA TradeEffect ==
  ASSUME NEW s, Well(s), NEW coin, IsRegistered(s, coin), NEW t, t = OnTrade(s, coin)
  PROVE  /\ Well(t) /\ Keeps(s, t, {"heard"}) /\ KeepsHeard(s.heard, t.heard, {"stray"})
         /\ t.heard.stray = IF LastStatus(s.heard, IdOf(s, coin)) \in {"PENDING_SNAPSHOT", "ONLINE"}
                            THEN {} ELSE {IdOf(s, coin)}
<1>1. PICK h : h = HearTrade(s.heard, IdOf(s, coin))
  OBVIOUS
<1>2. /\ ShapedHeard(h) /\ KeepsHeard(s.heard, h, {"stray"})
      /\ h.stray = IF LastStatus(s.heard, IdOf(s, coin)) \in {"PENDING_SNAPSHOT", "ONLINE"}
                   THEN {} ELSE {IdOf(s, coin)}
  BY <1>1, HearPriceEffect DEF Well
<1>3. t = [s EXCEPT !.heard = h]
  BY <1>1 DEF OnTrade
<1> QED
  BY <1>2, <1>3, HeardEffect

LEMMA ClearEffect ==
  ASSUME NEW s, Well(s), NEW t,
         t = [s EXCEPT !.securities = NoEntries] \/ t = [s EXCEPT !.symbolToId = NoEntries]
  PROVE  /\ Well(t) /\ Keeps(s, t, {"securities", "symbolToId"})
         /\ t = [s EXCEPT !.securities = NoEntries] =>
              DOMAIN t.securities = {} /\ t.symbolToId = s.symbolToId
         /\ t = [s EXCEPT !.symbolToId = NoEntries] =>
              DOMAIN t.symbolToId = {} /\ t.securities = s.securities
<1>1. PICK none : none = NoEntries
  OBVIOUS
<1>2. DOMAIN none = {}
  BY <1>1 DEF NoEntries
<1>3. CASE t = [s EXCEPT !.securities = none]
  <2>1. /\ DOMAIN t = MdFields /\ t.securities = none /\ t.symbolToId = s.symbolToId
        /\ Keeps(s, t, {"securities"})
    BY <1>3 DEF Well, MdFields, Keeps
  <2>2. Well(t)
    BY <1>2, <2>1 DEF Well, HyperliquidTypeOK, ProcessorTypeOK, IsMap, Keeps, MdFields
  <2>3. t = [s EXCEPT !.symbolToId = none] => t.symbolToId = none
    BY DEF Well, MdFields
  <2> QED
    BY <1>1, <1>2, <2>1, <2>2, <2>3 DEF Keeps, MdFields
<1>4. CASE t = [s EXCEPT !.symbolToId = none]
  <2>1. /\ DOMAIN t = MdFields /\ t.symbolToId = none /\ t.securities = s.securities
        /\ Keeps(s, t, {"symbolToId"})
    BY <1>4 DEF Well, MdFields, Keeps
  <2>2. Well(t)
    BY <1>2, <2>1 DEF Well, HyperliquidTypeOK, ProcessorTypeOK, IsMap, Keeps, MdFields
  <2>3. t = [s EXCEPT !.securities = none] => t.securities = none
    BY DEF Well, MdFields
  <2> QED
    BY <1>1, <1>2, <2>1, <2>2, <2>3 DEF Keeps, MdFields
<1> QED
  BY <1>1, <1>3, <1>4

LEMMA StartsEffect ==
  ASSUME NEW s, Well(s), Starts(s)
  PROVE  /\ Well(md') /\ Keeps(s, md', {"conn", "heard", "dropped"}) /\ md'.conn = "STARTING"
         /\ KeepsHeard(s.heard, md'.heard, {"conn"})
<1>1. PICK u : u = UpdateConnectionStatus(s, "STARTING")
  OBVIOUS
<1>2. /\ Well(u) /\ Keeps(s, u, {"conn", "heard"}) /\ u.conn = "STARTING"
      /\ KeepsHeard(s.heard, u.heard, {"conn"})
  BY <1>1, ConnectionEffect DEF Connections
<1>3. PICK t : t = md'
  OBVIOUS
<1>4. t = [u EXCEPT !.dropped = {}]
  BY <1>1, <1>3 DEF Starts
<1>5. DOMAIN t = MdFields /\ t.dropped = {} /\ Keeps(u, t, {"dropped"})
  BY <1>2, <1>4 DEF Well, MdFields, Keeps
<1>6. Well(t)
  BY <1>2, <1>5 DEF Well, HyperliquidTypeOK, ProcessorTypeOK, Keeps, MdFields
<1>7. Keeps(s, t, {"conn", "heard", "dropped"}) /\ t.conn = u.conn /\ t.heard = u.heard
  BY <1>2, <1>5 DEF Keeps, MdFields
<1> QED
  BY <1>2, <1>3, <1>6, <1>7

LEMMA RefetchEffect ==
  ASSUME NEW s, Well(s), NEW t, t = s \/ t = [s EXCEPT !.pendingRefetch = FALSE]
  PROVE  Well(t) /\ Keeps(s, t, {"pendingRefetch"})
<1>1. CASE t = s
  BY <1>1 DEF Keeps
<1>2. CASE t = [s EXCEPT !.pendingRefetch = FALSE]
  <2>1. DOMAIN t = MdFields /\ t.pendingRefetch = FALSE /\ Keeps(s, t, {"pendingRefetch"})
    BY <1>2 DEF Well, MdFields, Keeps
  <2> QED
    BY <2>1 DEF Well, HyperliquidTypeOK, ProcessorTypeOK, Keeps, MdFields
<1> QED
  BY <1>1, <1>2

LEMMA SameEffect ==
  ASSUME NEW s, Well(s) PROVE Well(s) /\ Keeps(s, s, {"pendingRefetch"})
BY RefetchEffect

LEMMA IdIsId ==
  ASSUME NEW s, Well(s), NEW coin, IsRegistered(s, coin)
  PROVE  IdOf(s, coin) \in Ids
BY DEF Well, HyperliquidTypeOK, ProcessorTypeOK, IsMap, IsRegistered, IdOf

LEMMA HashIsId == ASSUME NEW coin \in Symbols PROVE Hash[coin] \in Ids
BY MessageProcessorAssumption DEF Ids

-----------------------------------------------------------------------------
(* The steps of the process.                                               *)
RestTyped == rest \in [of : Requests \cup {"none"}, todo : SUBSET Symbols]

CountsTyped == asked \in [Requests -> Nat] /\ retries \in [Requests -> Nat]

FlagsTyped ==
  /\ metaReceived \in BOOLEAN /\ outcomeMetaReceived \in BOOLEAN
  /\ ws \in {"down", "up", "broken"}
  /\ subscribed \subseteq Symbols
  /\ now \in 0 .. MaxTime
  /\ troubles \in 0 .. MaxTroubles
  /\ lost \subseteq Requests
  /\ torn \in {"never", "torn", "mended"}

PlacesTyped ==
  /\ reg \in Registrations \cup {NoRegistration}
  /\ cb \in Callbacks \cup {Idle}
  /\ raced \subseteq Ids

LEMMA PricedCallback ==
  ASSUME cb \in Callbacks \cup {Idle}, cb.of \in {"bbo", "book"}
  PROVE  cb \in [of : {"bbo", "book"}, id : Ids] /\ cb.id \in Ids
<1>1. cb # Idle
  BY DEF Idle
<1>2. cb \notin Resets
  BY DEF Resets
<1> QED
  BY <1>1, <1>2 DEF Callbacks

TypeInv == Well(md) /\ RestTyped /\ CountsTyped /\ FlagsTyped /\ PlacesTyped

(* What leaves the processor alone, or no more than its m_pendingRefetch   *)
Quiet ==
  /\ Well(md') /\ Keeps(md, md', {"pendingRefetch"})
  /\ reg' = reg /\ cb' = cb /\ torn' = torn /\ raced' = raced

LEMMA QuietStep ==
  ASSUME TypeInv,
         \/ LinkBreaks \/ Tick \/ ResponseDone \/ UNCHANGED vars
         \/ \E r \in Requests : ResponseArrives(r) \/ Retry(r) \/ RequestFails(r)
  PROVE  Quiet /\ (ws' = "down" => ws = "down")
<1>1. Well(md)
  BY DEF TypeInv
<1>2. /\ md' = md \/ md' = [md EXCEPT !.pendingRefetch = FALSE]
      /\ reg' = reg /\ cb' = cb /\ torn' = torn /\ raced' = raced
      /\ ws' = "down" => ws = "down"
  BY DEF LinkBreaks, Tick, ResponseDone, ResponseArrives, Retry, RequestFails, vars, applicationVars,
         exchangeVars, overlaps
<1>3. Well(md') /\ Keeps(md, md', {"pendingRefetch"})
  BY <1>1, <1>2, RefetchEffect
<1> QED
  BY <1>2, <1>3 DEF Quiet

(* A reset may begin in the midst of a registration, and a registration in *)
(* the midst of a reset.                                                   *)
ResetStep(of) ==
  /\ cb' = [of |-> of, at |-> "withdraw"] /\ reg' = reg
  /\ \/ torn' = "torn" /\ raced' = Ids
     \/ /\ reg = NoRegistration \/ reg.at \notin {"link", "hold"}
        /\ raced' = raced /\ torn' = IF torn = "never" THEN "never" ELSE "mended"

LEMMA ConnectedStep ==
  ASSUME TypeInv, Connected
  PROVE  /\ cb = Idle /\ ws' = "up"
         /\ LossesNoticed => ws = "down"
         /\ \/ /\ md.conn = "ONLINE" /\ ResetStep("connect")
               /\ Well(md') /\ Keeps(md, md', {"pendingRefetch"})
            \/ /\ Well(md') /\ Keeps(md, md', {"conn", "heard", "dropped"})
               /\ KeepsHeard(md.heard, md'.heard, {"conn"})
               /\ md.conn # "ONLINE"
               /\ cb' = cb /\ reg' = reg /\ torn' = torn /\ raced' = raced
<1>1. Well(md)
  BY DEF TypeInv
<1>2. cb = Idle /\ ws' = "up" /\ (LossesNoticed => ws = "down") /\ reg' = reg
  BY DEF Connected
<1>3. CASE md.conn = "ONLINE"
  <2>1. ResetBegins("connect") /\ md' = md
    BY <1>3 DEF Connected
  <2>2. ResetStep("connect")
    BY <1>2, <2>1 DEF ResetBegins, ResetStep, Tears
  <2> QED
    BY <1>1, <1>2, <1>3, <2>1, <2>2, SameEffect
<1>4. CASE md.conn # "ONLINE"
  <2>1. Starts(md) /\ cb' = cb /\ torn' = torn /\ raced' = raced
    BY <1>4 DEF Connected, overlaps
  <2> QED
    BY <1>1, <1>2, <1>4, <2>1, StartsEffect
<1> QED
  BY <1>3, <1>4

LEMMA DisconnectedStep ==
  ASSUME TypeInv, Disconnected
  PROVE  /\ cb = Idle /\ ws' = "down" /\ ResetStep("disconnect")
         /\ Well(md') /\ Keeps(md, md', {"pendingSecDefs", "pendingOutcomes", "activeOutcomes"})
         /\ DOMAIN md'.pendingSecDefs = {} /\ DOMAIN md'.pendingOutcomes = {}
         /\ md'.activeOutcomes = {}
<1>1. Well(md)
  BY DEF TypeInv
<1>2. /\ cb = Idle /\ ws' = "down" /\ md' = ForgetPending(md) /\ ResetBegins("disconnect")
      /\ reg' = reg
  BY DEF Disconnected
<1>3. ResetStep("disconnect")
  BY <1>2 DEF ResetBegins, ResetStep, Tears
<1> QED
  BY <1>1, <1>2, <1>3, ForgetEffect

LEMMA WithdrawStep ==
  ASSUME TypeInv, Withdraw
  PROVE  /\ Resetting /\ cb.at = "withdraw" /\ cb' = [cb EXCEPT !.at = "clearSecurities"]
         /\ reg' = reg /\ torn' = torn /\ raced' = raced /\ ws' = ws
         /\ Well(md') /\ Keeps(md, md', {"securities", "heard", "conn"}) /\ md'.conn = "OFFLINE"
         /\ DOMAIN md'.securities = DOMAIN md.securities
         /\ \A id \in DOMAIN md.securities : md'.securities[id].status = "OFFLINE"
         /\ md'.heard.stray = md.heard.stray
         /\ md'.heard.defs = Erase(md.heard.defs, DOMAIN md.securities)
         /\ md'.heard.names = Erase(md.heard.names, NamesGone(md.heard, DOMAIN md.securities))
<1>1. Well(md)
  BY DEF TypeInv
<1>2. /\ Resetting /\ cb.at = "withdraw" /\ cb' = [cb EXCEPT !.at = "clearSecurities"]
      /\ reg' = reg /\ torn' = torn /\ raced' = raced /\ ws' = ws /\ md' = WithdrawAll(md)
  BY DEF Withdraw, exchangeVars, overlaps
<1> QED
  BY <1>1, <1>2, WithdrawEffect

LEMMA ClearSecuritiesStep ==
  ASSUME TypeInv, ClearSecurities
  PROVE  /\ Resetting /\ cb.at = "clearSecurities" /\ cb' = [cb EXCEPT !.at = "clearSymbols"]
         /\ reg' = reg /\ torn' = torn /\ raced' = raced /\ ws' = ws
         /\ Well(md') /\ Keeps(md, md', {"securities"}) /\ DOMAIN md'.securities = {}
<1>1. Well(md)
  BY DEF TypeInv
<1>2. /\ Resetting /\ cb.at = "clearSecurities" /\ cb' = [cb EXCEPT !.at = "clearSymbols"]
      /\ reg' = reg /\ torn' = torn /\ raced' = raced /\ ws' = ws
      /\ md' = [md EXCEPT !.securities = NoEntries]
  BY DEF ClearSecurities, exchangeVars, overlaps
<1>3. /\ Well(md') /\ Keeps(md, md', {"securities", "symbolToId"})
      /\ DOMAIN md'.securities = {} /\ md'.symbolToId = md.symbolToId
  BY <1>1, <1>2, ClearEffect
<1>4. Keeps(md, md', {"securities"})
  BY <1>3 DEF Keeps, MdFields
<1> QED
  BY <1>2, <1>3, <1>4

LEMMA ClearSymbolsStep ==
  ASSUME TypeInv, ClearSymbols
  PROVE  /\ Resetting /\ cb.at = "clearSymbols" /\ cb' = Idle
         /\ reg' = reg /\ torn' = torn /\ raced' = raced /\ ws' = ws
         /\ Well(md') /\ DOMAIN md'.symbolToId = {}
         /\ Keeps(md, md', {"symbolToId", "conn", "heard", "dropped"})
         /\ KeepsHeard(md.heard, md'.heard, {"conn"})
         /\ cb.of # "connect" => md'.conn = md.conn
<1>1. Well(md)
  BY DEF TypeInv
<1>2. /\ Resetting /\ cb.at = "clearSymbols" /\ cb' = Idle
      /\ reg' = reg /\ torn' = torn /\ raced' = raced /\ ws' = ws
  BY DEF ClearSymbols, overlaps
<1>3. PICK s : /\ s = [md EXCEPT !.symbolToId = NoEntries]
               /\ \/ cb.of = "connect" /\ Starts(s)
                  \/ cb.of # "connect" /\ md' = s
  BY DEF ClearSymbols
<1>4. /\ Well(s) /\ Keeps(md, s, {"securities", "symbolToId"})
      /\ DOMAIN s.symbolToId = {} /\ s.securities = md.securities
  BY <1>1, <1>3, ClearEffect
<1>5. s.heard = md.heard /\ s.conn = md.conn
  BY <1>4 DEF Keeps, MdFields
<1>6. CASE cb.of = "connect" /\ Starts(s)
  <2>1. /\ Well(md') /\ Keeps(s, md', {"conn", "heard", "dropped"})
        /\ KeepsHeard(s.heard, md'.heard, {"conn"})
    BY <1>4, <1>6, StartsEffect
  <2>2. /\ Keeps(md, md', {"symbolToId", "conn", "heard", "dropped"})
        /\ md'.symbolToId = s.symbolToId
    BY <1>4, <2>1 DEF Keeps, MdFields
  <2> QED
    BY <1>2, <1>4, <1>5, <1>6, <2>1, <2>2
<1>7. CASE cb.of # "connect" /\ md' = s
  <2>1. Keeps(md, s, {"symbolToId", "conn", "heard", "dropped"}) /\ KeepsHeard(md.heard, s.heard, {"conn"})
    BY <1>4, <1>5 DEF Keeps, MdFields, KeepsHeard
  <2> QED
    BY <1>2, <1>4, <1>5, <1>7, <2>1
<1> QED
  BY <1>3, <1>6, <1>7

Elsewhere == reg' = reg /\ torn' = torn /\ ws' = ws

LEMMA NowIsNat == ASSUME TypeInv PROVE now \in Nat
BY HyperliquidMarketDataAssumption DEF TypeInv, FlagsTyped

LEMMA ExpireStep ==
  ASSUME TypeInv, NEW coin \in Symbols, ExpireOutcomes(coin)
  PROVE  /\ cb = Idle /\ cb' = cb /\ ws = "up" /\ Elsewhere /\ raced' = raced
         /\ Well(md') /\ Expired(md, md', Over(md, now), IdsOver(md, now))
<1>1. Well(md) /\ now \in Nat
  BY NowIsNat DEF TypeInv
<1>2. /\ cb = Idle /\ cb' = cb /\ ws = "up" /\ Elsewhere /\ raced' = raced
      /\ \E s \in {RemoveExpiredOutcomes(md, now)} :
           md' = s \/ md' = [s EXCEPT !.pendingRefetch = FALSE]
  BY DEF ExpireOutcomes, exchangeVars, overlaps, Elsewhere
<1>3. PICK s : /\ s = RemoveExpiredOutcomes(md, now)
               /\ md' = s \/ md' = [s EXCEPT !.pendingRefetch = FALSE]
  BY <1>2
<1>4. PICK over, ids : over = Over(md, now) /\ ids = IdsOver(md, now)
  OBVIOUS
<1>6. Well(s) /\ Expired(md, s, over, ids)
  BY <1>1, <1>3, <1>4, ExpireEffect
<1>7. Well(md') /\ Keeps(s, md', {"pendingRefetch"})
  BY <1>3, <1>6, RefetchEffect
<1>8. /\ md'.securities = s.securities /\ md'.symbolToId = s.symbolToId /\ md'.heard = s.heard
      /\ md'.activeOutcomes = s.activeOutcomes
  BY <1>7 DEF Keeps, MdFields
<1>9. Keeps(md, md', {"securities", "symbolToId", "heard", "activeOutcomes", "lastExpiry",
                      "pendingRefetch"})
  BY <1>6, <1>7 DEF Expired, Keeps, MdFields
<1>10. Expired(md, md', over, ids)
  BY <1>6, <1>8, <1>9 DEF Expired
<1> QED
  BY <1>2, <1>4, <1>7, <1>10

(* A full book that is passed on                                           *)
BookPassed(s, t, id) ==
  /\ t.heard.books = s.heard.books \cup {id}
  /\ LastStatus(t.heard, id) \in {"PENDING_SNAPSHOT", "ONLINE"} => t.heard.stray = {}
  /\ t.heard.stray \subseteq {id}

(* A book in one step, and one in two                                      *)
PromptBook(coin) == \E priced \in BOOLEAN : L2Book(coin, priced)

SlowBook(coin) == \E priced \in BOOLEAN : LateBook(coin, priced)

LEMMA PromptBookStep ==
  ASSUME TypeInv, NEW coin \in Symbols, PromptBook(coin)
  PROVE  /\ cb = Idle /\ cb' = cb /\ ws = "up" /\ Elsewhere
         /\ coin \in subscribed /\ NothingExpired /\ IsRegistered(md, coin)
         /\ IdOf(md, coin) \in Ids /\ Prices(IdOf(md, coin))
         /\ Well(md') /\ BookStarted(md, md', IdOf(md, coin)) /\ BookPassed(md, md', IdOf(md, coin))
<1>1. Well(md)
  BY DEF TypeInv
<1>2. /\ cb = Idle /\ cb' = cb /\ ws = "up" /\ Elsewhere
      /\ coin \in subscribed /\ NothingExpired /\ IsRegistered(md, coin)
      /\ Prices(IdOf(md, coin))
  BY DEF PromptBook, L2Book, Arrives, Elsewhere, exchangeVars
<1>3. PICK id : id = IdOf(md, coin)
  OBVIOUS
<1>4. id \in Ids
  BY <1>1, <1>2, <1>3, IdIsId
<1>5. PICK s : StartsBook(md, s, id) /\ EndsBook(s, md', id)
  <2>0. PICK priced \in BOOLEAN : L2Book(coin, priced)
    BY DEF PromptBook
  <2>1. PICK s : s = BookStarts(md, id, priced, FALSE) /\ md' = BookEnds(s, id, FALSE)
    BY <1>3, <2>0, Zenon DEF L2Book
  <2> QED
    BY <2>1, Zenon DEF StartsBook, EndsBook
<1>6. /\ Well(s) /\ BookStarted(md, s, id)
      /\ s.heard.books = md.heard.books /\ s.heard.stray = md.heard.stray
  BY <1>1, <1>4, <1>5, BookStartsEffect
<1>7. /\ Well(md') /\ Keeps(s, md', {"heard", "pendingSecDefs", "dropped", "conn"})
      /\ md'.pendingSecDefs = s.pendingSecDefs \/ DOMAIN md'.pendingSecDefs = {}
      /\ KeepsHeard(s.heard, md'.heard, {"conn", "books", "stray"})
      /\ md'.heard.books = s.heard.books \cup {id}
      /\ LastStatus(s.heard, id) \in {"PENDING_SNAPSHOT", "ONLINE"} => md'.heard.stray = {}
      /\ md'.heard.stray \subseteq {id}
  BY <1>4, <1>5, <1>6, BookEndsEffect
<1>8. md'.heard.status = s.heard.status /\ md'.heard.defs = s.heard.defs
      /\ md'.heard.names = s.heard.names
  BY <1>7 DEF KeepsHeard, HeardFields
<1>9. \A i : LastStatus(md'.heard, i) = LastStatus(s.heard, i)
  BY <1>8 DEF LastStatus
<1>10. Keeps(md, md', {"securities", "heard", "pendingSecDefs", "pendingOutcomes", "activeOutcomes",
                       "dropped", "conn"})
  BY <1>6, <1>7 DEF BookStarted, Keeps, MdFields
<1>11. /\ md'.securities = s.securities /\ md'.pendingOutcomes = s.pendingOutcomes
       /\ md'.activeOutcomes = s.activeOutcomes
  BY <1>7 DEF Keeps, MdFields
<1>12. BookStarted(md, md', id)
  BY <1>6, <1>7, <1>8, <1>9, <1>10, <1>11 DEF BookStarted
<1>13. BookPassed(md, md', id)
  BY <1>6, <1>7, <1>9 DEF BookPassed
<1> QED
  BY <1>2, <1>3, <1>4, <1>7, <1>12, <1>13

LEMMA SlowBookStep ==
  ASSUME TypeInv, NEW coin \in Symbols, SlowBook(coin)
  PROVE  /\ cb = Idle /\ cb' = [of |-> "book", id |-> IdOf(md, coin)] /\ ws = "up" /\ Elsewhere
         /\ coin \in subscribed /\ NothingExpired /\ IsRegistered(md, coin)
         /\ IdOf(md, coin) \in Ids
         /\ raced' = IF IsRegistering(IdOf(md, coin)) THEN raced \cup {IdOf(md, coin)} ELSE raced
         /\ Well(md') /\ BookStarted(md, md', IdOf(md, coin))
         /\ md'.heard.books = md.heard.books /\ md'.heard.stray = md.heard.stray
<1>1. Well(md)
  BY DEF TypeInv
<1>2. /\ cb = Idle /\ cb' = [of |-> "book", id |-> IdOf(md, coin)] /\ ws = "up" /\ Elsewhere
      /\ coin \in subscribed /\ NothingExpired /\ IsRegistered(md, coin)
      /\ raced' = IF IsRegistering(IdOf(md, coin)) THEN raced \cup {IdOf(md, coin)} ELSE raced
  BY DEF SlowBook, LateBook, Arrives, Elsewhere, exchangeVars
<1>3. IdOf(md, coin) \in Ids
  BY <1>1, <1>2, IdIsId
<1>4. StartsBook(md, md', IdOf(md, coin))
  BY Zenon DEF SlowBook, LateBook, StartsBook
<1> QED
  BY <1>1, <1>2, <1>3, <1>4, BookStartsEffect

LEMMA PassBookStep ==
  ASSUME TypeInv, PassBook
  PROVE  /\ cb.of = "book" /\ cb.id \in Ids /\ cb' = Idle /\ Elsewhere /\ Prices(cb.id)
         /\ Well(md') /\ Keeps(md, md', {"heard", "pendingSecDefs", "dropped", "conn"})
         /\ md'.pendingSecDefs = md.pendingSecDefs \/ DOMAIN md'.pendingSecDefs = {}
         /\ KeepsHeard(md.heard, md'.heard, {"conn", "books", "stray"})
         /\ BookPassed(md, md', cb.id)
<1>1. Well(md) /\ cb \in Callbacks \cup {Idle}
  BY DEF TypeInv, PlacesTyped
<1>2. cb.of = "book" /\ cb' = Idle /\ Elsewhere /\ Prices(cb.id)
  BY DEF PassBook, Elsewhere, exchangeVars
<1>e. EndsBook(md, md', cb.id)
  BY Zenon DEF PassBook, EndsBook
<1>3. cb.id \in Ids
  BY <1>1, <1>2, PricedCallback
<1>4. /\ Well(md') /\ Keeps(md, md', {"heard", "pendingSecDefs", "dropped", "conn"})
      /\ md'.pendingSecDefs = md.pendingSecDefs \/ DOMAIN md'.pendingSecDefs = {}
      /\ KeepsHeard(md.heard, md'.heard, {"conn", "books", "stray"})
      /\ md'.heard.books = md.heard.books \cup {cb.id}
      /\ LastStatus(md.heard, cb.id) \in {"PENDING_SNAPSHOT", "ONLINE"} => md'.heard.stray = {}
      /\ md'.heard.stray \subseteq {cb.id}
  BY <1>1, <1>2, <1>3, <1>e, BookEndsEffect
<1>5. md'.heard.status = md.heard.status
  BY <1>4 DEF KeepsHeard, HeardFields
<1>6. BookPassed(md, md', cb.id)
  BY <1>4, <1>5 DEF BookPassed, LastStatus
<1> QED
  BY <1>2, <1>3, <1>4, <1>6

LEMMA BboStep ==
  ASSUME TypeInv, NEW coin \in Symbols, Bbo(coin)
  PROVE  /\ cb = Idle /\ cb' = [of |-> "bbo", id |-> IdOf(md, coin)] /\ ws = "up" /\ Elsewhere
         /\ raced' = raced /\ IdOf(md, coin) \in Ids
         /\ IdOf(md, coin) \in DOMAIN md.securities
         /\ md.securities[IdOf(md, coin)].status = "ONLINE"
         /\ Well(md') /\ Keeps(md, md', {"pendingRefetch"})
<1>1. Well(md)
  BY DEF TypeInv
<1>2. /\ cb = Idle /\ cb' = [of |-> "bbo", id |-> IdOf(md, coin)] /\ ws = "up" /\ Elsewhere
      /\ raced' = raced /\ md' = md /\ IsRegistered(md, coin) /\ TakesUpdates(md, coin)
  BY DEF Bbo, Arrives, Elsewhere, exchangeVars, overlaps
<1>3. IdOf(md, coin) \in DOMAIN md.securities /\ md.securities[IdOf(md, coin)].status = "ONLINE"
  BY <1>2 DEF TakesUpdates, StatusOf
<1> QED
  BY <1>1, <1>2, <1>3, IdIsId, SameEffect

LEMMA PassBboStep ==
  ASSUME TypeInv, PassBbo
  PROVE  /\ cb.of = "bbo" /\ cb.id \in Ids /\ cb' = Idle /\ Elsewhere /\ raced' = raced
         /\ Well(md') /\ Keeps(md, md', {"heard"}) /\ KeepsHeard(md.heard, md'.heard, {"stray"})
         /\ md'.heard.stray = IF cb.id \in md.heard.books THEN {} ELSE {cb.id}
<1>1. Well(md) /\ cb \in Callbacks \cup {Idle}
  BY DEF TypeInv, PlacesTyped
<1>2. cb.of = "bbo" /\ cb' = Idle /\ Elsewhere /\ raced' = raced /\ md' = WriteUpdate(md, cb.id)
  BY DEF PassBbo, Elsewhere, exchangeVars, overlaps
<1>3. cb.id \in Ids
  BY <1>1, <1>2, PricedCallback
<1> QED
  BY <1>1, <1>2, <1>3, WriteUpdateEffect

LEMMA TradeStep ==
  ASSUME TypeInv, NEW coin \in Symbols, TradeArrives(coin)
  PROVE  /\ cb = Idle /\ cb' = cb /\ ws = "up" /\ Elsewhere
         /\ IsRegistered(md, coin) /\ IdOf(md, coin) \in Ids
         /\ raced' = IF IsRegistering(IdOf(md, coin)) THEN raced \cup {IdOf(md, coin)} ELSE raced
         /\ Well(md') /\ Keeps(md, md', {"heard"}) /\ KeepsHeard(md.heard, md'.heard, {"stray"})
         /\ md'.heard.stray = IF LastStatus(md.heard, IdOf(md, coin)) \in {"PENDING_SNAPSHOT", "ONLINE"}
                              THEN {} ELSE {IdOf(md, coin)}
<1>1. Well(md)
  BY DEF TypeInv
<1>2. /\ cb = Idle /\ cb' = cb /\ ws = "up" /\ Elsewhere /\ IsRegistered(md, coin)
      /\ raced' = IF IsRegistering(IdOf(md, coin)) THEN raced \cup {IdOf(md, coin)} ELSE raced
      /\ md' = OnTrade(md, coin)
  BY DEF TradeArrives, Arrives, Elsewhere, exchangeVars
<1> QED
  BY <1>1, <1>2, IdIsId, TradeEffect

(* The registration of a coin                                              *)
LEMMA RegistrationsHere ==
  ASSUME TypeInv, reg # NoRegistration
  PROVE  reg \in Registrations /\ reg.id \in Ids /\ reg.coin \in Symbols
BY DEF TypeInv, PlacesTyped, Registrations

LEMMA CreateNextStep ==
  ASSUME TypeInv, NEW coin \in Symbols, CreateNext(coin)
  PROVE  /\ reg = NoRegistration /\ cb' = cb /\ ws' = ws
         /\ coin \in rest.todo /\ rest' = [rest EXCEPT !.todo = @ \ {coin}]
         /\ \/ Resetting /\ torn' = "torn" /\ raced' = Ids
            \/ ~Resetting /\ torn' = torn /\ raced' = raced
         /\ Well(md') /\ reg' \in Registrations /\ reg'.at \in {"link", "hold"}
         /\ \/ /\ coin \in DOMAIN md.symbolToId /\ md.symbolToId[coin] \in Ids
               /\ reg' = [at |-> "hold", coin |-> coin, id |-> md.symbolToId[coin]]
               /\ Keeps(md, md', {"pendingRefetch"})
            \/ \E id \in Free(md) :
                 /\ coin \notin DOMAIN md.symbolToId /\ id = FirstFree(md, Hash[coin])
                 /\ reg' = [at |-> "link", coin |-> coin, id |-> id]
                 /\ Keeps(md, md', {"securities"})
                 /\ DOMAIN md'.securities = DOMAIN md.securities \cup {id}
                 /\ md'.securities[id] = [symbol |-> coin, status |-> "NULL"]
                 /\ \A i \in DOMAIN md.securities \ {id} : md'.securities[i] = md.securities[i]
<1>1. Well(md)
  BY DEF TypeInv
<1>2. /\ reg = NoRegistration /\ cb' = cb /\ ws' = ws
      /\ coin \in rest.todo /\ rest' = [rest EXCEPT !.todo = @ \ {coin}]
  BY DEF CreateNext, exchangeVars
<1>3. \/ Resetting /\ torn' = "torn" /\ raced' = Ids
      \/ ~Resetting /\ torn' = torn /\ raced' = raced
  BY DEF CreateNext, Tears, overlaps
<1>4. CASE IsRegistered(md, coin)
  <2>1. reg' = [at |-> "hold", coin |-> coin, id |-> IdOf(md, coin)] /\ md' = md
    BY <1>4 DEF CreateNext
  <2>2. coin \in DOMAIN md.symbolToId /\ IdOf(md, coin) = md.symbolToId[coin]
    BY <1>4 DEF IsRegistered, IdOf
  <2>3. IdOf(md, coin) \in Ids
    BY <1>1, <1>4, IdIsId
  <2>4. reg' \in Registrations /\ reg'.at \in {"link", "hold"}
    <3>1. reg'.at = "hold"
      BY <2>1
    <3> QED
      BY <2>1, <2>3, <3>1 DEF Registrations
  <2> QED
    BY <1>1, <1>2, <1>3, <2>1, <2>2, <2>3, <2>4, SameEffect
<1>5. CASE ~IsRegistered(md, coin)
  <2>1. PICK id : /\ id = FirstFree(md, Hash[coin])
                  /\ md' = AddSecurity(md, id, coin)
                  /\ reg' = [at |-> "link", coin |-> coin, id |-> id]
    BY <1>5 DEF CreateNext
  <2>2. coin \notin DOMAIN md.symbolToId
    BY <1>5 DEF IsRegistered
  <2>3. Free(md) # {}
    BY <2>2 DEF CreateNext, CanCreate
  <2>4. id \in Free(md) /\ id \in Ids
    BY <2>1, <2>3, HashIsId, FirstFreeIsFree DEF Free
  <2>5. /\ Well(md') /\ Keeps(md, md', {"securities"})
        /\ DOMAIN md'.securities = DOMAIN md.securities \cup {id}
        /\ md'.securities[id] = [symbol |-> coin, status |-> "NULL"]
        /\ \A i \in DOMAIN md.securities \ {id} : md'.securities[i] = md.securities[i]
    BY <1>1, <2>1, <2>4, AddEffect
  <2>6. reg' \in Registrations /\ reg'.at \in {"link", "hold"}
    <3>1. reg'.at = "link"
      BY <2>1
    <3> QED
      BY <2>1, <2>4, <3>1 DEF Registrations
  <2> QED
    BY <1>2, <1>3, <2>1, <2>2, <2>4, <2>5, <2>6
<1> QED
  BY <1>4, <1>5

LEMMA LinkStep ==
  ASSUME TypeInv, Link
  PROVE  /\ reg \in Registrations /\ reg.at = "link" /\ reg' = [reg EXCEPT !.at = "hold"]
         /\ cb' = cb /\ torn' = torn /\ raced' = raced /\ ws' = ws
         /\ Well(md') /\ Keeps(md, md', {"symbolToId"})
         /\ md'.symbolToId = Put(md.symbolToId, reg.coin, reg.id)
<1>1. Well(md)
  BY DEF TypeInv
<1>2. /\ reg.at = "link" /\ reg' = [reg EXCEPT !.at = "hold"]
      /\ cb' = cb /\ torn' = torn /\ raced' = raced /\ ws' = ws
      /\ md' = LinkSymbol(md, reg.id, reg.coin)
  BY DEF Link, RegistrationUnchanged, exchangeVars
<1>3. reg \in Registrations /\ reg.id \in Ids /\ reg.coin \in Symbols
  <2>1. reg # NoRegistration
    BY <1>2 DEF NoRegistration
  <2> QED
    BY <2>1, RegistrationsHere
<1> QED
  BY <1>1, <1>2, <1>3, LinkEffect

LEMMA HoldStep ==
  ASSUME TypeInv, HoldDefinition
  PROVE  /\ reg \in Registrations /\ reg.at = "hold" /\ reg' = [reg EXCEPT !.at = "setStatus"]
         /\ cb' = cb /\ torn' = torn /\ raced' = raced /\ ws' = ws
         /\ Well(md') /\ Keeps(md, md', {"pendingSecDefs", "pendingOutcomes", "dropped"})
         /\ reg.coin \in Perps => /\ md'.pendingSecDefs = Put(md.pendingSecDefs, reg.id, reg.coin)
                                  /\ md'.pendingOutcomes = md.pendingOutcomes
         /\ reg.coin \notin Perps =>
              /\ md'.pendingSecDefs = md.pendingSecDefs
              /\ md'.pendingOutcomes = Put(md.pendingOutcomes, reg.id, reg.coin)
<1>1. Well(md)
  BY DEF TypeInv
<1>2. /\ reg.at = "hold" /\ reg' = [reg EXCEPT !.at = "setStatus"]
      /\ cb' = cb /\ torn' = torn /\ raced' = raced /\ ws' = ws
  BY DEF HoldDefinition, RegistrationUnchanged, exchangeVars
<1>3. reg.at = "hold"
  BY DEF HoldDefinition
<1>4. reg # NoRegistration
  BY <1>3 DEF NoRegistration
<1>5. reg \in Registrations /\ reg.id \in Ids /\ reg.coin \in Symbols
  BY <1>4, RegistrationsHere
<1>6. md' = Hold(md, reg.coin, reg.id)
  BY DEF HoldDefinition
<1>7. PICK id \in Ids, coin \in Symbols : id = reg.id /\ coin = reg.coin
  BY <1>5
<1>8. /\ Well(md') /\ Keeps(md, md', {"pendingSecDefs", "pendingOutcomes", "dropped"})
      /\ coin \in Perps => /\ md'.pendingSecDefs = Put(md.pendingSecDefs, id, coin)
                           /\ md'.pendingOutcomes = md.pendingOutcomes
      /\ coin \notin Perps => /\ md'.pendingSecDefs = md.pendingSecDefs
                              /\ md'.pendingOutcomes = Put(md.pendingOutcomes, id, coin)
  BY <1>1, <1>6, <1>7, HoldEffect
<1> QED
  BY <1>2, <1>5, <1>7, <1>8

LEMMA SetPendingStep ==
  ASSUME TypeInv, SetPending
  PROVE  /\ reg \in Registrations /\ reg.at = "setStatus"
         /\ cb' = cb /\ torn' = torn /\ raced' = raced /\ ws' = ws
         /\ \/ reg' = [reg EXCEPT !.at = "sendStatus"]
            \/ /\ reg' = NoRegistration
               /\ reg.id \in DOMAIN md.securities =>
                    md.securities[reg.id].status = "PENDING_SNAPSHOT"
         /\ Well(md') /\ Keeps(md, md', {"securities"})
         /\ DOMAIN md'.securities = DOMAIN md.securities
         /\ \A id \in DOMAIN md.securities :
              /\ md'.securities[id].symbol = md.securities[id].symbol
              /\ id = reg.id => md'.securities[id].status = "PENDING_SNAPSHOT"
              /\ id # reg.id => md'.securities[id].status = md.securities[id].status
<1>1. Well(md)
  BY DEF TypeInv
<1>2. PICK ids : ids = {reg.id}
  OBVIOUS
<1>a. reg.at = "setStatus"
  BY DEF SetPending
<1>b. md' = SetStatus(md, ids, "PENDING_SNAPSHOT")
  BY <1>2 DEF SetPending
<1>3. /\ cb' = cb /\ torn' = torn /\ raced' = raced /\ ws' = ws
      /\ reg' = IF Changed(md, ids, "PENDING_SNAPSHOT") = {} THEN NoRegistration
                ELSE [reg EXCEPT !.at = "sendStatus"]
  BY <1>2 DEF SetPending, RegistrationUnchanged, exchangeVars
<1>4. reg \in Registrations
  <2>1. reg # NoRegistration
    BY <1>a DEF NoRegistration
  <2> QED
    BY <2>1, RegistrationsHere
<1>5. \/ reg' = [reg EXCEPT !.at = "sendStatus"]
      \/ /\ reg' = NoRegistration
         /\ reg.id \in DOMAIN md.securities => md.securities[reg.id].status = "PENDING_SNAPSHOT"
  BY <1>2, <1>3 DEF Changed
<1>6. /\ Well(md') /\ Keeps(md, md', {"securities"})
      /\ DOMAIN md'.securities = DOMAIN md.securities
      /\ \A id \in DOMAIN md.securities :
           /\ md'.securities[id].symbol = md.securities[id].symbol
           /\ id \in ids => md'.securities[id].status = "PENDING_SNAPSHOT"
           /\ id \notin ids => md'.securities[id].status = md.securities[id].status
  BY <1>1, <1>b, StatusEffect DEF Statuses
<1> QED
  BY <1>2, <1>3, <1>4, <1>5, <1>6, <1>a

LEMMA SendPendingStep ==
  ASSUME TypeInv, SendPending
  PROVE  /\ reg \in Registrations /\ reg.at = "sendStatus" /\ reg' = NoRegistration
         /\ cb' = cb /\ torn' = torn /\ ws' = ws
         /\ raced' = IF cb.of = "bbo" /\ cb.id = reg.id THEN raced \cup {reg.id} ELSE raced
         /\ Well(md') /\ Keeps(md, md', {"heard"})
         /\ KeepsHeard(md.heard, md'.heard, {"status", "books"})
         /\ md'.heard.books = md.heard.books \ {reg.id}
         /\ LastStatus(md'.heard, reg.id) = "PENDING_SNAPSHOT"
         /\ \A id : id # reg.id => LastStatus(md'.heard, id) = LastStatus(md.heard, id)
<1>1. Well(md)
  BY DEF TypeInv
<1>2. PICK ids : ids = {reg.id}
  OBVIOUS
<1>3. PICK h : h = HearStatus(md.heard, ids, "PENDING_SNAPSHOT")
  OBVIOUS
<1>a. reg.at = "sendStatus"
  BY DEF SendPending
<1>4. /\ reg' = NoRegistration
      /\ cb' = cb /\ torn' = torn /\ ws' = ws
      /\ raced' = IF cb.of = "bbo" /\ cb.id = reg.id THEN raced \cup {reg.id} ELSE raced
      /\ md' = [md EXCEPT !.heard = h]
  BY <1>2, <1>3 DEF SendPending, RegistrationUnchanged, exchangeVars
<1>5. reg \in Registrations
  <2>1. reg # NoRegistration
    BY <1>a DEF NoRegistration
  <2> QED
    BY <2>1, RegistrationsHere
<1>6. /\ ShapedHeard(h) /\ KeepsHeard(md.heard, h, {"status", "books"})
      /\ h.books = md.heard.books \ ids
      /\ \A id \in ids : LastStatus(h, id) = "PENDING_SNAPSHOT"
      /\ \A id : id \notin ids => LastStatus(h, id) = LastStatus(md.heard, id)
  BY <1>1, <1>3, HearStatusEffect DEF Well, Statuses
<1>7. Well(md') /\ Keeps(md, md', {"heard"}) /\ md'.heard = h
  BY <1>1, <1>4, <1>6, HeardEffect
<1> QED
  BY <1>2, <1>4, <1>5, <1>6, <1>7, <1>a

-----------------------------------------------------------------------------
(* Types                                                                   *)
Message(coin) ==
  ExpireOutcomes(coin) \/ PromptBook(coin) \/ SlowBook(coin) \/ Bbo(coin) \/ TradeArrives(coin)

LEMMA Steps ==
  ASSUME [Next]_vars
  PROVE  \/ Connected \/ Disconnected \/ Withdraw \/ ClearSecurities \/ ClearSymbols
         \/ PassBook \/ PassBbo
         \/ \E coin \in Symbols : Message(coin)
         \/ \E coin \in Symbols : CreateNext(coin)
         \/ Link \/ HoldDefinition \/ SetPending \/ SendPending
         \/ LinkBreaks \/ Tick \/ ResponseDone \/ UNCHANGED vars
         \/ \E r \in Requests : ResponseArrives(r) \/ Retry(r) \/ RequestFails(r)
BY DEF Next, WebsocketThread, Continues, RestThread, Registers, Trouble, Message, PromptBook, SlowBook

LEMMA AnswersTyped == ASSUME NEW r PROVE Answer(r) \in SUBSET Symbols
BY HyperliquidProcessorAssumption DEF Answer, Listed

LEMMA RequestNames == "outcomeMeta" \in Requests /\ "meta" \in Requests
BY HyperliquidMarketDataAssumption DEF Requests

LEMMA RestTypedStep == RestTyped /\ [Next]_vars => RestTyped'
<1> SUFFICES ASSUME RestTyped, [Next]_vars PROVE RestTyped'
  OBVIOUS
<1>1. ASSUME rest' = rest PROVE RestTyped'
  BY <1>1 DEF RestTyped
<1>2. ASSUME NEW r \in Requests, ResponseArrives(r) PROVE RestTyped'
  <2>1. rest' = [of |-> r, todo |-> Answer(r)]
    BY <1>2 DEF ResponseArrives
  <2>2. Answer(r) \in SUBSET Symbols
    BY AnswersTyped
  <2>3. QED
    BY <2>1, <2>2 DEF RestTyped
<1>3. ASSUME NEW coin \in Symbols, CreateNext(coin) PROVE RestTyped'
  <2>1. rest' = [rest EXCEPT !.todo = rest.todo \ {coin}]
    BY <1>3 DEF CreateNext
  <2>2. rest.todo \ {coin} \in SUBSET Symbols
    BY DEF RestTyped
  <2>3. QED
    BY <2>1, <2>2 DEF RestTyped
<1>4. CASE ResponseDone
  BY <1>4 DEF ResponseDone, RestTyped, NoCallback
<1>5. CASE \/ Connected \/ Disconnected \/ Withdraw \/ ClearSecurities \/ ClearSymbols
           \/ PassBook \/ PassBbo \/ Link \/ HoldDefinition \/ SetPending \/ SendPending
  BY <1>1, <1>5 DEF Connected, Disconnected, Withdraw, ClearSecurities, ClearSymbols, PassBook, PassBbo,
                    Link, HoldDefinition, SetPending, SendPending, RegistrationUnchanged
<1>6. ASSUME NEW coin \in Symbols, Message(coin) PROVE RestTyped'
  BY <1>1, <1>6 DEF Message, PromptBook, SlowBook, ExpireOutcomes, L2Book, LateBook, Bbo, TradeArrives
<1>7. CASE LinkBreaks \/ Tick \/ UNCHANGED vars \/ \E r \in Requests : Retry(r) \/ RequestFails(r)
  BY <1>1, <1>7 DEF LinkBreaks, RequestFails, Tick, Retry, vars
<1> QED
  BY <1>2, <1>3, <1>4, <1>5, <1>6, <1>7, Steps

LEMMA CountsTypedStep == CountsTyped /\ [Next]_vars => CountsTyped'
<1> SUFFICES ASSUME CountsTyped, [Next]_vars PROVE CountsTyped'
  OBVIOUS
<1> USE DEF CountsTyped
<1>1. ASSUME UNCHANGED <<asked, retries>> PROVE CountsTyped'
  BY <1>1
<1>2. ASSUME NEW r \in Requests,
             \/ asked' = [asked EXCEPT ![r] = @ + 1]
             \/ asked[r] > 0 /\ asked' = [asked EXCEPT ![r] = @ - 1]
             \/ asked' = asked
      PROVE  asked' \in [Requests -> Nat]
  <2>1. asked[r] \in Nat /\ asked[r] + 1 \in Nat
    OBVIOUS
  <2>2. asked[r] > 0 => asked[r] - 1 \in Nat
    BY <2>1
  <2>3. QED
    BY <1>2, <2>1, <2>2
<1>3. ASSUME NEW r \in Requests,
             \/ retries' = [retries EXCEPT ![r] = @ + 1]
             \/ retries[r] > 0 /\ retries' = [retries EXCEPT ![r] = @ - 1]
             \/ retries' = retries
      PROVE  retries' \in [Requests -> Nat]
  <2>1. retries[r] \in Nat /\ retries[r] + 1 \in Nat
    OBVIOUS
  <2>2. retries[r] > 0 => retries[r] - 1 \in Nat
    BY <2>1
  <2>3. QED
    BY <1>3, <2>1, <2>2
<1>4. ASSUME NEW s, Starts(s) PROVE CountsTyped'
  BY <1>4 DEF Starts, AskAll
<1>5. CASE Connected \/ ClearSymbols
  BY <1>1, <1>4, <1>5 DEF Connected, ClearSymbols, applicationVars
<1>6. ASSUME NEW coin \in Symbols, ExpireOutcomes(coin) PROVE CountsTyped'
  <2>1. retries' = retries /\ (asked' = [asked EXCEPT !["outcomeMeta"] = @ + 1] \/ asked' = asked)
    BY <1>6 DEF ExpireOutcomes
  <2>2. QED
    BY <1>2, RequestNames, <2>1
<1>7. ASSUME NEW r \in Requests, ResponseArrives(r) PROVE CountsTyped'
  <2>1. retries' = retries /\ asked[r] > 0 /\ asked' = [asked EXCEPT ![r] = @ - 1]
    BY <1>7 DEF ResponseArrives
  <2>2. QED
    BY <1>2, <2>1
<1>8. ASSUME NEW r \in Requests, RequestFails(r) PROVE CountsTyped'
  <2>1. /\ asked[r] > 0 /\ asked' = [asked EXCEPT ![r] = @ - 1]
        /\ retries' = [retries EXCEPT ![r] = @ + 1] \/ retries' = retries
    BY <1>8 DEF RequestFails
  <2>2. QED
    BY <1>2, <1>3, <2>1
<1>9. ASSUME NEW r \in Requests, Retry(r) PROVE CountsTyped'
  <2>1. /\ retries[r] > 0 /\ retries' = [retries EXCEPT ![r] = @ - 1]
        /\ \/ asked' = asked
           \/ asked' = [asked EXCEPT !["outcomeMeta"] = @ + 1]
           \/ asked' = [asked EXCEPT !["meta"] = @ + 1]
    BY <1>9 DEF Retry, Retried
  <2>2. asked' \in [Requests -> Nat]
    BY <1>2, RequestNames, <2>1
  <2>3. retries' \in [Requests -> Nat]
    BY <1>3, <2>1
  <2>4. QED
    BY <2>2, <2>3
<1>10. CASE \/ Disconnected \/ Withdraw \/ ClearSecurities \/ PassBook \/ PassBbo
            \/ Link \/ HoldDefinition \/ SetPending \/ SendPending
            \/ LinkBreaks \/ Tick \/ ResponseDone \/ UNCHANGED vars
  BY <1>1, <1>10
     DEF Disconnected, Withdraw, ClearSecurities, PassBook, PassBbo, Link, HoldDefinition, SetPending,
         SendPending, RegistrationUnchanged, LinkBreaks, Tick, ResponseDone, vars, applicationVars
<1>11. ASSUME NEW coin \in Symbols,
              PromptBook(coin) \/ SlowBook(coin) \/ Bbo(coin) \/ TradeArrives(coin) \/ CreateNext(coin)
       PROVE  CountsTyped'
  BY <1>1, <1>11 DEF PromptBook, SlowBook, L2Book, LateBook, Bbo, TradeArrives, CreateNext, applicationVars
<1> QED
  BY <1>5, <1>6, <1>7, <1>8, <1>9, <1>10, <1>11, Steps DEF Message

LEMMA FlagsTypedStep == PlacesTyped /\ FlagsTyped /\ [Next]_vars => FlagsTyped'
<1> SUFFICES ASSUME PlacesTyped, FlagsTyped, [Next]_vars PROVE FlagsTyped'
  OBVIOUS
<1> USE DEF FlagsTyped
<1>1. ASSUME troubles < MaxTroubles, troubles' = troubles + 1 PROVE troubles' \in 0 .. MaxTroubles
  BY <1>1, HyperliquidMarketDataAssumption
<1>2. ASSUME NEW of, ResetBegins(of) PROVE torn' \in {"never", "torn", "mended"}
  BY <1>2 DEF ResetBegins, Tears
<1>3. ASSUME NEW s, Starts(s)
      PROVE  metaReceived' \in BOOLEAN /\ outcomeMetaReceived' \in BOOLEAN /\ lost' \subseteq Requests
  BY <1>3 DEF Starts
<1>4. CASE Connected
  BY <1>2, <1>3, <1>4 DEF Connected, applicationVars, overlaps
<1>5. CASE Disconnected
  BY <1>2, <1>5 DEF Disconnected, applicationVars
<1>6. CASE Withdraw \/ ClearSecurities \/ PassBook \/ PassBbo
  BY <1>6 DEF Withdraw, ClearSecurities, PassBook, PassBbo, applicationVars, exchangeVars, overlaps
<1>7. CASE ClearSymbols
  BY <1>3, <1>7 DEF ClearSymbols, applicationVars, overlaps
<1>8. CASE LinkBreaks
  BY <1>1, <1>8 DEF LinkBreaks, applicationVars, overlaps
<1>9. ASSUME NEW r \in Requests, RequestFails(r) PROVE FlagsTyped'
  BY <1>1, <1>9 DEF RequestFails, overlaps
<1>10. CASE Tick
  <2>1. now < MaxTime /\ now' = now + 1
    BY <1>10 DEF Tick
  <2>2. now' \in 0 .. MaxTime
    BY <2>1, HyperliquidMarketDataAssumption
  <2>3. QED
    BY <1>10, <2>2 DEF Tick, applicationVars, overlaps
<1>11. CASE ResponseDone
  <2>1. Answer(rest.of) \subseteq Symbols
    BY AnswersTyped
  <2>2. subscribed' \subseteq Symbols
    BY <1>11, <2>1 DEF ResponseDone, SubscribeToMarkets
  <2>3. QED
    BY <1>11, <2>2 DEF ResponseDone, overlaps
<1>12. CASE (\E r \in Requests : ResponseArrives(r) \/ Retry(r)) \/ UNCHANGED vars
  BY <1>12 DEF ResponseArrives, Retry, vars, applicationVars, exchangeVars, overlaps
<1>13. ASSUME NEW coin \in Symbols, Message(coin) PROVE FlagsTyped'
  BY <1>13 DEF Message, PromptBook, SlowBook, ExpireOutcomes, L2Book, LateBook, Bbo, TradeArrives,
               applicationVars, exchangeVars, overlaps
<1>14. ASSUME NEW coin \in Symbols, CreateNext(coin) PROVE FlagsTyped'
  BY <1>14 DEF CreateNext, Tears, applicationVars, exchangeVars, overlaps
<1>15. CASE Link \/ HoldDefinition \/ SetPending \/ SendPending
  BY <1>15 DEF Link, HoldDefinition, SetPending, SendPending, RegistrationUnchanged, applicationVars,
               exchangeVars
<1> QED
  BY <1>4, <1>5, <1>6, <1>7, <1>8, <1>9, <1>10, <1>11, <1>12, <1>13, <1>14, <1>15, Steps

(* One step per action that changes the processor, or where a thread is.   *)
LEMMA PlacesTypedStep == TypeInv /\ [Next]_vars => Well(md') /\ PlacesTyped'
<1> SUFFICES ASSUME TypeInv, [Next]_vars PROVE Well(md') /\ PlacesTyped'
  OBVIOUS
<1>0. PlacesTyped
  BY DEF TypeInv
<1>1. ASSUME Quiet PROVE Well(md') /\ PlacesTyped'
  BY <1>0, <1>1 DEF Quiet, PlacesTyped
<1>2. ASSUME NEW of \in {"connect", "disconnect"}, ResetStep(of) PROVE PlacesTyped'
  <2>1. cb' \in Callbacks
    BY <1>2 DEF ResetStep, Callbacks, Resets
  <2> QED
    BY <1>0, <1>2, <2>1 DEF ResetStep, PlacesTyped
<1>3. CASE Connected
  BY <1>0, <1>2, <1>3, ConnectedStep DEF PlacesTyped
<1>4. CASE Disconnected
  BY <1>2, <1>4, DisconnectedStep
<1>5. ASSUME Resetting, NEW at \in {"clearSecurities", "clearSymbols"}, cb' = [cb EXCEPT !.at = at]
      PROVE  cb' \in Callbacks
  <2>1. cb \in Resets
    BY <1>0, <1>5 DEF PlacesTyped, Resetting, Callbacks, Idle
  <2> QED
    BY <1>5, <2>1 DEF Callbacks, Resets
<1>6. CASE Withdraw \/ ClearSecurities
  BY <1>0, <1>5, <1>6, WithdrawStep, ClearSecuritiesStep DEF PlacesTyped
<1>7. CASE ClearSymbols
  BY <1>0, <1>7, ClearSymbolsStep DEF PlacesTyped
<1>8. ASSUME NEW id \in Ids, Prices(id) PROVE raced' \subseteq Ids
  BY <1>0, <1>8 DEF Prices, PlacesTyped
<1>9. CASE PassBook
  BY <1>0, <1>8, <1>9, PassBookStep DEF PlacesTyped, Elsewhere
<1>10. CASE PassBbo
  BY <1>0, <1>10, PassBboStep DEF PlacesTyped, Elsewhere
<1>11. ASSUME NEW coin \in Symbols, ExpireOutcomes(coin) \/ TradeArrives(coin)
       PROVE  Well(md') /\ PlacesTyped'
  BY <1>0, <1>11, ExpireStep, TradeStep DEF PlacesTyped, Elsewhere
<1>12. ASSUME NEW coin \in Symbols, Bbo(coin) PROVE Well(md') /\ PlacesTyped'
  BY <1>0, <1>12, BboStep DEF PlacesTyped, Elsewhere, Callbacks
<1>13. ASSUME NEW coin \in Symbols, PromptBook(coin)
       PROVE  Well(md') /\ PlacesTyped'
  BY <1>0, <1>8, <1>13, PromptBookStep DEF PlacesTyped, Elsewhere
<1>14. ASSUME NEW coin \in Symbols, SlowBook(coin)
       PROVE  Well(md') /\ PlacesTyped'
  BY <1>0, <1>14, SlowBookStep DEF PlacesTyped, Elsewhere, Callbacks
<1>15. ASSUME NEW coin \in Symbols, CreateNext(coin) PROVE Well(md') /\ PlacesTyped'
  BY <1>0, <1>15, CreateNextStep DEF PlacesTyped
<1>16. CASE Link \/ HoldDefinition
  BY <1>0, <1>16, LinkStep, HoldStep DEF PlacesTyped, Registrations
<1>17. CASE SetPending
  BY <1>0, <1>17, SetPendingStep DEF PlacesTyped, Registrations
<1>18. CASE SendPending
  BY <1>0, <1>18, SendPendingStep DEF PlacesTyped, Registrations
<1> QED
  BY <1>1, <1>3, <1>4, <1>6, <1>7, <1>9, <1>10, <1>11, <1>12, <1>13, <1>14, <1>15, <1>16, <1>17, <1>18,
     Steps, QuietStep DEF Message

LEMMA TypeInvStep == TypeInv /\ [Next]_vars => TypeInv'
BY RestTypedStep, CountsTypedStep, FlagsTypedStep, PlacesTypedStep DEF TypeInv

LEMMA InitTyped == Init => TypeInv
<1> SUFFICES ASSUME Init PROVE TypeInv
  OBVIOUS
<1>1. Well(md)
  BY DEF Init, HyperliquidInit, Well, MdFields, ShapedHeard, HeardFields, HyperliquidTypeOK,
         ProcessorTypeOK, IsMap, NoEntries, NothingHeard, Connections
<1>2. RestTyped
  BY DEF Init, RestTyped, NoCallback
<1>3. CountsTyped
  BY DEF Init, CountsTyped, None
<1>4. FlagsTyped
  <2>1. 0 \in 0 .. MaxTime /\ 0 \in 0 .. MaxTroubles
    BY HyperliquidMarketDataAssumption
  <2>2. QED
    BY <2>1 DEF Init, FlagsTyped
<1>5. PlacesTyped
  BY DEF Init, PlacesTyped
<1> QED
  BY <1>1, <1>2, <1>3, <1>4, <1>5 DEF TypeInv

LEMMA AlwaysTyped == Spec => []TypeInv
BY InitTyped, TypeInvStep, PTL DEF Spec

(* The maps of the processor, the state of the application and the places  *)
(* of the threads keep their types, for all coins, hashes, expiries,       *)
(* losses and failures, and wherever the threads meet.                     *)
THEOREM TypeCorrect == Spec => []TypeOK
<1>1. TypeInv => TypeOK
  BY DEF TypeInv, Well, RestTyped, CountsTyped, FlagsTyped, PlacesTyped, TypeOK
<1> QED
  BY <1>1, AlwaysTyped, PTL

-----------------------------------------------------------------------------
(* The connection.  If every loss is reported, the process has not been    *)
(* ONLINE since the last one when the websocket connects again, and so     *)
(* onConnected never resets anything.                                      *)
NotOnline ==
  \/ cb = Idle /\ md.conn # "ONLINE"
  \/ cb.of = "disconnect" /\ (cb.at = "withdraw" \/ md.conn # "ONLINE")

ConnectionInv == cb.of # "connect" /\ (Resetting => ws = "down") /\ (ws = "down" => NotOnline)

LEMMA InitConnection == Init => ConnectionInv
BY DEF Init, ConnectionInv, NotOnline, HyperliquidInit, Idle, Resetting

LEMMA ConnectionStep ==
  LossesNoticed /\ TypeInv /\ ConnectionInv /\ [Next]_vars => ConnectionInv'
<1> SUFFICES ASSUME LossesNoticed, TypeInv, ConnectionInv, [Next]_vars PROVE ConnectionInv'
  OBVIOUS
<1>1. ASSUME cb' = cb, ws' = "down" => ws = "down", md'.conn = md.conn \/ ws' # "down",
             Resetting => ws' = ws
      PROVE  ConnectionInv'
  BY <1>1 DEF ConnectionInv, NotOnline, Resetting
<1>2. ASSUME Quiet, ws' = "down" => ws = "down", Resetting => ws' = ws PROVE ConnectionInv'
  BY <1>1, <1>2 DEF Quiet, Keeps, MdFields
<1>3. CASE Connected
  <2>1. ws = "down" /\ cb = Idle /\ ws' = "up"
    BY <1>3, ConnectedStep
  <2>2. md.conn # "ONLINE"
    BY <2>1 DEF ConnectionInv, NotOnline, Idle
  <2>3. cb' = cb
    BY <1>3, <2>2, ConnectedStep
  <2> QED
    BY <2>1, <2>3 DEF ConnectionInv, Resetting, Idle
<1>4. CASE Disconnected
  BY <1>4, DisconnectedStep DEF ConnectionInv, NotOnline, Resetting, ResetStep
<1>5. ASSUME Resetting, NEW at, cb' = [cb EXCEPT !.at = at]
      PROVE  cb'.of = cb.of /\ cb.of = "disconnect"
  <2>1. cb \in Resets
    BY <1>5 DEF TypeInv, PlacesTyped, Callbacks, Resetting, Idle
  <2> QED
    BY <1>5, <2>1 DEF Resets, Resetting, ConnectionInv
<1>6. CASE Withdraw
  <2>1. Resetting /\ cb' = [cb EXCEPT !.at = "clearSecurities"] /\ md'.conn = "OFFLINE" /\ ws' = ws
    BY <1>6, WithdrawStep
  <2> QED
    BY <1>5, <2>1 DEF ConnectionInv, NotOnline, Resetting
<1>7. CASE ClearSecurities
  <2>1. /\ Resetting /\ cb' = [cb EXCEPT !.at = "clearSymbols"] /\ ws' = ws
        /\ cb.at = "clearSecurities" /\ md'.conn = md.conn
    BY <1>7, ClearSecuritiesStep DEF Keeps, MdFields
  <2> QED
    BY <1>5, <2>1 DEF ConnectionInv, NotOnline, Resetting, Idle
<1>8. CASE ClearSymbols
  <2>1. Resetting /\ cb' = Idle /\ ws' = ws /\ cb.at = "clearSymbols"
    BY <1>8, ClearSymbolsStep
  <2>2. md'.conn = md.conn
    BY <1>8, ClearSymbolsStep DEF ConnectionInv
  <2> QED
    BY <2>1, <2>2 DEF ConnectionInv, NotOnline, Resetting, Idle
<1>9. CASE PassBook \/ PassBbo
  <2>1. cb.of \in {"book", "bbo"} /\ cb' = Idle /\ ws' = ws
    BY <1>9, PassBookStep, PassBboStep DEF Elsewhere
  <2>2. ws # "down"
    BY <2>1 DEF ConnectionInv, NotOnline, Idle
  <2> QED
    BY <2>1, <2>2 DEF ConnectionInv, Resetting, Idle
<1>10. ASSUME NEW coin \in Symbols, Message(coin) PROVE ConnectionInv'
  <2>1. ASSUME ws = "up", ws' = ws, cb' = Idle \/ cb'.of = "book" \/ cb'.of = "bbo"
        PROVE  ConnectionInv'
    BY <2>1 DEF ConnectionInv, Resetting, Idle
  <2>2. CASE SlowBook(coin)
    BY <2>1, <2>2, SlowBookStep DEF Elsewhere
  <2>3. CASE Bbo(coin)
    BY <2>1, <2>3, BboStep DEF Elsewhere
  <2>4. CASE ExpireOutcomes(coin) \/ PromptBook(coin) \/ TradeArrives(coin)
    BY <2>1, <2>4, ExpireStep, PromptBookStep, TradeStep DEF Elsewhere
  <2> QED
    BY <1>10, <2>2, <2>3, <2>4 DEF Message
<1>11. ASSUME NEW coin \in Symbols, CreateNext(coin) PROVE ConnectionInv'
  <2>1. cb' = cb /\ ws' = ws /\ md'.conn = md.conn
    BY <1>11, CreateNextStep DEF Keeps, MdFields
  <2> QED
    BY <1>1, <2>1
<1>12. CASE Link \/ HoldDefinition \/ SetPending \/ SendPending
  <2>1. cb' = cb /\ ws' = ws /\ md'.conn = md.conn
    BY <1>12, LinkStep, HoldStep, SetPendingStep, SendPendingStep DEF Keeps, MdFields
  <2> QED
    BY <1>1, <2>1
<1>13. CASE LinkBreaks
  <2>1. ws = "up" /\ ws' = "broken" /\ Quiet
    BY <1>13, QuietStep DEF LinkBreaks
  <2> QED
    BY <1>2, <2>1 DEF ConnectionInv
<1>14. CASE \/ Tick \/ ResponseDone \/ UNCHANGED vars
            \/ \E r \in Requests : ResponseArrives(r) \/ Retry(r) \/ RequestFails(r)
  <2>1. Quiet /\ ws' = ws
    BY <1>14, QuietStep DEF Tick, ResponseDone, ResponseArrives, Retry, RequestFails, vars, exchangeVars
  <2> QED
    BY <1>2, <2>1
<1> QED
  BY <1>3, <1>4, <1>6, <1>7, <1>8, <1>9, <1>10, <1>11, <1>12, <1>13, <1>14, Steps

-----------------------------------------------------------------------------
(* Symbols whose hashes differ.  Every security has the hash of its symbol *)
(* as its id then, when it comes back as before, so that nothing that is   *)
(* still kept under an id belongs to another security.                     *)
DistinctHashes == \A a, b \in Symbols : Hash[a] = Hash[b] => a = b

(* What the maps have to do with each other and with the registration r    *)
(* that is under way, as long as no registration gets into a reset, ...    *)
Linked(s, r) ==
  /\ \A id \in DOMAIN s.securities :
       /\ Hash[s.securities[id].symbol] = id
       /\ \/ s.securities[id].symbol \in DOMAIN s.symbolToId
          \/ r.at = "link" /\ r.coin = s.securities[id].symbol
  /\ \A c \in DOMAIN s.symbolToId : s.symbolToId[c] = Hash[c] /\ Hash[c] \in DOMAIN s.securities
  /\ \A id \in DOMAIN s.pendingSecDefs : Hash[s.pendingSecDefs[id]] = id /\ id \in DOMAIN s.securities
  /\ \A id \in DOMAIN s.pendingOutcomes : Hash[s.pendingOutcomes[id]] = id
  /\ \A a \in s.activeOutcomes : a.id = Hash[a.coin] /\ a.coin \in DOMAIN s.symbolToId
  /\ r.at \in {"link", "hold"} => r.id = Hash[r.coin]
  /\ r.at = "link" => r.coin \notin DOMAIN s.symbolToId /\ r.id \in DOMAIN s.securities
  /\ r.at = "hold" /\ r.coin \in Perps => r.id \in DOMAIN s.securities

(* ... and what a reset leaves                                             *)
Cleared(s, r, c) ==
  /\ r = NoRegistration \/ r.at \in {"setStatus", "sendStatus"}
  /\ DOMAIN s.pendingSecDefs = {} /\ DOMAIN s.pendingOutcomes = {} /\ s.activeOutcomes = {}
  /\ c.at = "clearSymbols" => DOMAIN s.securities = {}

LinkedInv ==
  torn # "torn" => /\ Resetting => Cleared(md, reg, cb)
                   /\ ~Resetting => Linked(md, reg)

LEMMA LinkedKept ==
  ASSUME NEW s, NEW t, NEW r, NEW q, Linked(s, r),
         DOMAIN t.securities = DOMAIN s.securities,
         \A id \in DOMAIN s.securities : t.securities[id].symbol = s.securities[id].symbol,
         t.symbolToId = s.symbolToId, t.activeOutcomes = s.activeOutcomes,
         \A id \in DOMAIN t.pendingSecDefs :
           id \in DOMAIN s.pendingSecDefs /\ t.pendingSecDefs[id] = s.pendingSecDefs[id],
         \A id \in DOMAIN t.pendingOutcomes :
           id \in DOMAIN s.pendingOutcomes /\ t.pendingOutcomes[id] = s.pendingOutcomes[id],
         q = r \/ (r.at \notin {"link", "hold"} /\ q.at \notin {"link", "hold"})
  PROVE  Linked(t, q)
BY DEF Linked

LEMMA SymbolAtHash ==
  ASSUME DistinctHashes, NEW s, Well(s), NEW r, Linked(s, r), NEW c \in Symbols,
         Hash[c] \in DOMAIN s.securities
  PROVE  s.securities[Hash[c]].symbol = c
<1>1. s.securities[Hash[c]].symbol \in Symbols
  BY DEF Well, HyperliquidTypeOK, ProcessorTypeOK, IsMap
<1> QED
  BY <1>1 DEF Linked, DistinctHashes

LEMMA ExpireLinked ==
  ASSUME DistinctHashes, TypeInv, NEW t, NEW over, over \subseteq md.activeOutcomes,
         NEW ids, ids = {a.id : a \in over},
         \A a \in md.activeOutcomes, b \in over : a.coin = b.coin => a \in over,
         t.pendingSecDefs = md.pendingSecDefs, t.pendingOutcomes = md.pendingOutcomes,
         Expired(md, t, over, ids), Linked(md, reg)
  PROVE  Linked(t, reg)
<1>1. PICK gone : gone = {md.securities[id].symbol : id \in ids \cap DOMAIN md.securities}
  OBVIOUS
<1>2. /\ DOMAIN t.securities = DOMAIN md.securities \ ids
      /\ \A id \in DOMAIN t.securities : t.securities[id].symbol = md.securities[id].symbol
      /\ t.symbolToId = Erase(md.symbolToId, gone)
      /\ t.activeOutcomes = md.activeOutcomes \ over
  BY <1>1 DEF Expired
<1>3. \A a \in md.activeOutcomes : a.coin \in Outcomes /\ a.coin \in Symbols /\ a.coin \notin Perps
  BY HyperliquidProcessorAssumption DEF TypeInv, Well, HyperliquidTypeOK, Active
<1>4. \A c \in Symbols : Hash[c] \in ids <=> \E a \in over : a.coin = c
  BY <1>3 DEF Linked, DistinctHashes
<1>5. \A id \in DOMAIN md.securities : md.securities[id].symbol \in Symbols
  BY DEF TypeInv, Well, HyperliquidTypeOK, ProcessorTypeOK, IsMap
<1>6. \A c \in gone : c \in Symbols /\ Hash[c] \in ids
  BY <1>1, <1>5 DEF Linked
<1>7. \A id \in DOMAIN md.securities : md.securities[id].symbol \in gone => id \in ids
  BY <1>6 DEF Linked
<1>8. \A c \in DOMAIN md.symbolToId : c \in Symbols
  BY DEF TypeInv, Well, HyperliquidTypeOK, ProcessorTypeOK, IsMap
<1>9. \A c \in DOMAIN md.symbolToId : Hash[c] \in ids => c \in gone
  <2> SUFFICES ASSUME NEW c \in DOMAIN md.symbolToId, Hash[c] \in ids PROVE c \in gone
    OBVIOUS
  <2>1. Hash[c] \in DOMAIN md.securities /\ c \in Symbols
    BY <1>8 DEF Linked
  <2>2. md.securities[Hash[c]].symbol = c
    BY <2>1, SymbolAtHash DEF TypeInv
  <2> QED
    BY <1>1, <2>1, <2>2
<1>10. /\ DOMAIN t.symbolToId = DOMAIN md.symbolToId \ gone
       /\ \A c \in DOMAIN t.symbolToId : t.symbolToId[c] = md.symbolToId[c]
  BY <1>2 DEF Erase
<1>11. \A c \in Perps : Hash[c] \notin ids
  BY <1>3, <1>4, HyperliquidProcessorAssumption
<1>12. \A id \in DOMAIN md.pendingSecDefs : md.pendingSecDefs[id] \in Perps
  BY DEF TypeInv, Well, HyperliquidTypeOK, IsMap
<1>13. ASSUME NEW a \in t.activeOutcomes PROVE a.id = Hash[a.coin] /\ a.coin \in DOMAIN t.symbolToId
  <2>1. a \in md.activeOutcomes /\ a \notin over
    BY <1>2
  <2>2. Hash[a.coin] \notin ids
    BY <1>3, <1>4, <2>1
  <2>3. a.coin \notin gone
    BY <1>6, <2>2
  <2> QED
    BY <1>10, <2>1, <2>3 DEF Linked
<1>14. reg.at = "link" => reg.coin \notin DOMAIN t.symbolToId /\ reg.id \in DOMAIN t.securities
  <2> SUFFICES ASSUME reg.at = "link" PROVE reg.id \notin ids
    BY <1>2, <1>10 DEF Linked
  <2>1. reg # NoRegistration
    BY DEF NoRegistration
  <2>2. reg.coin \in Symbols /\ reg.id = Hash[reg.coin] /\ reg.coin \notin DOMAIN md.symbolToId
    BY <2>1, RegistrationsHere DEF Linked
  <2> QED
    BY <1>4, <2>2 DEF Linked
<1>15. reg.at = "hold" /\ reg.coin \in Perps => reg.id \in DOMAIN t.securities
  BY <1>2, <1>11 DEF Linked
<1>16. \A id \in DOMAIN t.pendingSecDefs :
         Hash[t.pendingSecDefs[id]] = id /\ id \in DOMAIN t.securities
  BY <1>2, <1>11, <1>12 DEF Linked
<1>17. \A id \in DOMAIN t.securities :
         /\ Hash[t.securities[id].symbol] = id
         /\ \/ t.securities[id].symbol \in DOMAIN t.symbolToId
            \/ reg.at = "link" /\ reg.coin = t.securities[id].symbol
  BY <1>2, <1>7, <1>10 DEF Linked
<1>18. \A c \in DOMAIN t.symbolToId : t.symbolToId[c] = Hash[c] /\ Hash[c] \in DOMAIN t.securities
  BY <1>2, <1>9, <1>10 DEF Linked
<1> QED
  BY <1>13, <1>14, <1>15, <1>16, <1>17, <1>18 DEF Linked

LEMMA BookLinked ==
  ASSUME DistinctHashes, TypeInv, NEW coin \in Symbols, IsRegistered(md, coin), NEW t,
         BookStarted(md, t, IdOf(md, coin)), Linked(md, reg)
  PROVE  Linked(t, reg)
<1>1. PICK id : id = IdOf(md, coin)
  OBVIOUS
<1>2. id = Hash[coin] /\ coin \in DOMAIN md.symbolToId
  BY <1>1 DEF IsRegistered, IdOf, Linked
<1>3. /\ DOMAIN t.securities = DOMAIN md.securities
      /\ \A i \in DOMAIN md.securities : t.securities[i].symbol = md.securities[i].symbol
      /\ \A i \in DOMAIN t.pendingSecDefs :
           i \in DOMAIN md.pendingSecDefs /\ t.pendingSecDefs[i] = md.pendingSecDefs[i]
      /\ t.pendingOutcomes = Erase(md.pendingOutcomes, {id})
      /\ t.activeOutcomes = md.activeOutcomes \cup Added(md, id)
      /\ t.symbolToId = md.symbolToId
  BY <1>1 DEF BookStarted, Keeps, MdFields
<1>4. ASSUME NEW a \in Added(md, id) PROVE a.id = Hash[a.coin] /\ a.coin \in DOMAIN md.symbolToId
  <2>1. PICK i \in DOMAIN md.pendingOutcomes \cap {id} : a = [id |-> i, coin |-> md.pendingOutcomes[i]]
    BY DEF Added
  <2>2. a.id = id /\ a.coin = md.pendingOutcomes[id] /\ id \in DOMAIN md.pendingOutcomes
    BY <2>1
  <2>3. a.coin \in Symbols /\ Hash[a.coin] = id
    BY <2>2, HyperliquidProcessorAssumption DEF Linked, TypeInv, Well, HyperliquidTypeOK, IsMap
  <2>4. a.coin = coin
    BY <1>2, <2>3 DEF DistinctHashes
  <2> QED
    BY <1>2, <2>2, <2>4
<1>5. \A i \in DOMAIN t.pendingOutcomes :
        i \in DOMAIN md.pendingOutcomes /\ t.pendingOutcomes[i] = md.pendingOutcomes[i]
  BY <1>3 DEF Erase
<1>6. \A a \in t.activeOutcomes : a.id = Hash[a.coin] /\ a.coin \in DOMAIN t.symbolToId
  BY <1>3, <1>4 DEF Linked
<1>7. \A i \in DOMAIN t.securities :
        /\ Hash[t.securities[i].symbol] = i
        /\ \/ t.securities[i].symbol \in DOMAIN t.symbolToId
           \/ reg.at = "link" /\ reg.coin = t.securities[i].symbol
  BY <1>3 DEF Linked
<1>8. /\ \A c \in DOMAIN t.symbolToId : t.symbolToId[c] = Hash[c] /\ Hash[c] \in DOMAIN t.securities
      /\ \A i \in DOMAIN t.pendingSecDefs :
           Hash[t.pendingSecDefs[i]] = i /\ i \in DOMAIN t.securities
  BY <1>3 DEF Linked
<1>9. \A i \in DOMAIN t.pendingOutcomes : Hash[t.pendingOutcomes[i]] = i
  BY <1>5 DEF Linked
<1>10. DOMAIN t.securities = DOMAIN md.securities /\ t.symbolToId = md.symbolToId
  BY <1>3
<1> QED
  BY <1>6, <1>7, <1>8, <1>9, <1>10 DEF Linked

LEMMA InitLinked == Init => LinkedInv
BY DEF Init, HyperliquidInit, LinkedInv, Linked, Resetting, Idle, NoEntries, NoRegistration

LEMMA LinkedStep ==
  DistinctHashes /\ TypeInv /\ ConnectionInv /\ ConnectionInv' /\ LinkedInv /\ [Next]_vars => LinkedInv'
<1> SUFFICES ASSUME DistinctHashes, TypeInv, ConnectionInv, ConnectionInv', LinkedInv, [Next]_vars
             PROVE  LinkedInv'
  OBVIOUS
<1>1. ASSUME Keeps(md, md', {"conn", "heard", "dropped", "pendingRefetch"}), reg' = reg, cb' = cb,
             torn' = torn
      PROVE  LinkedInv'
  <2>1. /\ md'.securities = md.securities /\ md'.symbolToId = md.symbolToId
        /\ md'.pendingSecDefs = md.pendingSecDefs /\ md'.pendingOutcomes = md.pendingOutcomes
        /\ md'.activeOutcomes = md.activeOutcomes
    BY <1>1 DEF Keeps, MdFields
  <2> QED
    BY <1>1, <2>1 DEF LinkedInv, Linked, Cleared, Resetting
<1>2. ASSUME ~Resetting, ~Resetting', torn # "torn" => torn' # "torn", torn' # "torn" => torn # "torn",
             torn # "torn" /\ Linked(md, reg) => Linked(md', reg')
      PROVE  LinkedInv'
  BY <1>2 DEF LinkedInv
<1>3. CASE Connected
  <2>1. reg' = reg /\ cb = Idle /\ md'.conn = md'.conn
    BY <1>3, ConnectedStep DEF ResetStep
  <2>2. cb'.of # "connect"
    BY DEF ConnectionInv
  <2>3. ~ResetStep("connect")
    BY <2>2 DEF ResetStep
  <2>4. /\ Keeps(md, md', {"conn", "heard", "dropped"})
        /\ cb' = cb /\ reg' = reg /\ torn' = torn
    BY <1>3, <2>3, ConnectedStep
  <2> QED
    BY <1>1, <2>4 DEF Keeps
<1>4. CASE Disconnected
  <2>1. /\ ResetStep("disconnect") /\ DOMAIN md'.pendingSecDefs = {} /\ DOMAIN md'.pendingOutcomes = {}
        /\ md'.activeOutcomes = {}
    BY <1>4, DisconnectedStep
  <2>2. reg' = reg /\ cb' = [of |-> "disconnect", at |-> "withdraw"]
    BY <2>1 DEF ResetStep
  <2>3. torn' # "torn" => reg = NoRegistration \/ reg.at \in {"setStatus", "sendStatus"}
    BY <2>1 DEF ResetStep, TypeInv, PlacesTyped, Registrations
  <2> QED
    BY <2>1, <2>2, <2>3 DEF LinkedInv, Cleared, Resetting
<1>5. ASSUME Resetting, NEW at \in {"clearSecurities", "clearSymbols"}, cb' = [cb EXCEPT !.at = at]
      PROVE  cb'.of = cb.of /\ cb'.at = at
  <2>1. cb \in Resets
    BY <1>5 DEF TypeInv, PlacesTyped, Callbacks, Resetting, Idle
  <2> QED
    BY <1>5, <2>1 DEF Resets
<1>6. CASE Withdraw
  <2>1. /\ Resetting /\ cb' = [cb EXCEPT !.at = "clearSecurities"] /\ reg' = reg /\ torn' = torn
        /\ md'.pendingSecDefs = md.pendingSecDefs /\ md'.pendingOutcomes = md.pendingOutcomes
        /\ md'.activeOutcomes = md.activeOutcomes
    BY <1>6, WithdrawStep DEF Keeps, MdFields
  <2>2. cb'.of = cb.of /\ cb'.at = "clearSecurities"
    BY <1>5, <2>1
  <2> QED
    BY <2>1, <2>2 DEF LinkedInv, Cleared, Resetting
<1>7. CASE ClearSecurities
  <2>1. /\ Resetting /\ cb' = [cb EXCEPT !.at = "clearSymbols"] /\ reg' = reg /\ torn' = torn
        /\ md'.pendingSecDefs = md.pendingSecDefs /\ md'.pendingOutcomes = md.pendingOutcomes
        /\ md'.activeOutcomes = md.activeOutcomes /\ DOMAIN md'.securities = {}
    BY <1>7, ClearSecuritiesStep DEF Keeps, MdFields
  <2>2. cb'.of = cb.of /\ cb'.at = "clearSymbols"
    BY <1>5, <2>1
  <2> QED
    BY <2>1, <2>2 DEF LinkedInv, Cleared, Resetting
<1>8. CASE ClearSymbols
  <2>1. /\ Resetting /\ cb.at = "clearSymbols" /\ cb' = Idle /\ reg' = reg /\ torn' = torn
        /\ DOMAIN md'.symbolToId = {} /\ md'.securities = md.securities
        /\ md'.pendingSecDefs = md.pendingSecDefs /\ md'.pendingOutcomes = md.pendingOutcomes
        /\ md'.activeOutcomes = md.activeOutcomes
    BY <1>8, ClearSymbolsStep DEF Keeps, MdFields
  <2>2. ~Resetting'
    BY <2>1 DEF Resetting, Idle
  <2> QED
    BY <2>1, <2>2 DEF LinkedInv, Cleared, Linked, NoRegistration
<1>9. CASE PassBook \/ PassBbo
  <2>1. cb.of \in {"book", "bbo"} /\ cb' = Idle /\ Elsewhere
    BY <1>9, PassBookStep, PassBboStep
  <2>2. /\ Keeps(md, md', {"heard", "pendingSecDefs", "dropped", "conn"})
        /\ md'.pendingSecDefs = md.pendingSecDefs \/ DOMAIN md'.pendingSecDefs = {}
    BY <1>9, PassBookStep, PassBboStep DEF Keeps, MdFields
  <2>3. /\ md'.securities = md.securities /\ md'.symbolToId = md.symbolToId
        /\ md'.pendingOutcomes = md.pendingOutcomes /\ md'.activeOutcomes = md.activeOutcomes
    BY <2>2 DEF Keeps, MdFields
  <2>4. ~Resetting /\ ~Resetting'
    BY <2>1 DEF Resetting, Idle
  <2>5. Linked(md, reg) => Linked(md', reg')
    BY <2>1, <2>2, <2>3, LinkedKept DEF Elsewhere
  <2> QED
    BY <1>2, <2>1, <2>4, <2>5 DEF Elsewhere
<1>10. ASSUME NEW coin \in Symbols, ExpireOutcomes(coin) PROVE LinkedInv'
  <2>1. /\ cb = Idle /\ cb' = cb /\ Elsewhere
        /\ Expired(md, md', Over(md, now), IdsOver(md, now))
    BY <1>10, ExpireStep
  <2>2. md'.pendingSecDefs = md.pendingSecDefs /\ md'.pendingOutcomes = md.pendingOutcomes
    BY <2>1 DEF Expired, Keeps, MdFields
  <2>3. PICK over, ids : over = Over(md, now) /\ ids = IdsOver(md, now)
    OBVIOUS
  <2>4. /\ over \subseteq md.activeOutcomes /\ ids = {a.id : a \in over}
        /\ \A a \in md.activeOutcomes, b \in over : a.coin = b.coin => a \in over
    BY <2>3 DEF Over, IdsOver
  <2>5. Linked(md, reg) => Linked(md', reg)
    BY <2>1, <2>2, <2>3, <2>4, ExpireLinked
  <2> QED
    BY <1>2, <2>1, <2>5 DEF Elsewhere, Resetting, Idle
<1>11. ASSUME NEW coin \in Symbols, PromptBook(coin) \/ SlowBook(coin) PROVE LinkedInv'
  <2>1. /\ cb = Idle /\ Elsewhere /\ IsRegistered(md, coin) /\ BookStarted(md, md', IdOf(md, coin))
        /\ cb' = Idle \/ cb' = [of |-> "book", id |-> IdOf(md, coin)]
    BY <1>11, PromptBookStep, SlowBookStep
  <2>2. Linked(md, reg) => Linked(md', reg')
    BY <2>1, BookLinked DEF Elsewhere
  <2>3. ~Resetting /\ ~Resetting'
    BY <2>1 DEF Resetting, Idle
  <2> QED
    BY <1>2, <2>1, <2>2, <2>3 DEF Elsewhere
<1>12. ASSUME NEW coin \in Symbols, Bbo(coin) PROVE LinkedInv'
  <2>1. /\ cb = Idle /\ cb' = [of |-> "bbo", id |-> IdOf(md, coin)] /\ Elsewhere
        /\ Keeps(md, md', {"pendingRefetch"})
    BY <1>12, BboStep
  <2>2. /\ md'.securities = md.securities /\ md'.symbolToId = md.symbolToId
        /\ md'.pendingSecDefs = md.pendingSecDefs /\ md'.pendingOutcomes = md.pendingOutcomes
        /\ md'.activeOutcomes = md.activeOutcomes
    BY <2>1 DEF Keeps, MdFields
  <2>3. ~Resetting /\ ~Resetting'
    BY <2>1 DEF Resetting, Idle
  <2>4. Linked(md, reg) => Linked(md', reg')
    BY <2>1, <2>2, LinkedKept DEF Elsewhere
  <2> QED
    BY <1>2, <2>1, <2>3, <2>4 DEF Elsewhere
<1>13. ASSUME NEW coin \in Symbols, TradeArrives(coin) PROVE LinkedInv'
  <2>1. cb' = cb /\ Elsewhere /\ Keeps(md, md', {"heard"})
    BY <1>13, TradeStep
  <2> QED
    BY <1>1, <2>1 DEF Keeps, MdFields, Elsewhere
<1>14. ASSUME NEW coin \in Symbols, CreateNext(coin) PROVE LinkedInv'
  <2>1. /\ reg = NoRegistration /\ cb' = cb
        /\ \/ Resetting /\ torn' = "torn"
           \/ ~Resetting /\ torn' = torn
    BY <1>14, CreateNextStep
  <2>2. Resetting' <=> Resetting
    BY <2>1 DEF Resetting
  <2>3. CASE /\ coin \in DOMAIN md.symbolToId
             /\ reg' = [at |-> "hold", coin |-> coin, id |-> md.symbolToId[coin]]
             /\ Keeps(md, md', {"pendingRefetch"})
    <3>1. /\ md'.securities = md.securities /\ md'.symbolToId = md.symbolToId
          /\ md'.pendingSecDefs = md.pendingSecDefs /\ md'.pendingOutcomes = md.pendingOutcomes
          /\ md'.activeOutcomes = md.activeOutcomes
      BY <2>3 DEF Keeps, MdFields
    <3>2. reg'.at = "hold" /\ reg'.coin = coin /\ reg'.id = md.symbolToId[coin]
      BY <2>3
    <3>3. Linked(md, reg) => Linked(md', reg')
      BY <2>1, <2>3, <3>1, <3>2 DEF Linked, NoRegistration
    <3> QED
      BY <1>2, <2>1, <2>2, <3>3 DEF LinkedInv
  <2>4. ASSUME NEW id \in Free(md), coin \notin DOMAIN md.symbolToId, id = FirstFree(md, Hash[coin]),
               reg' = [at |-> "link", coin |-> coin, id |-> id],
               Keeps(md, md', {"securities"}),
               DOMAIN md'.securities = DOMAIN md.securities \cup {id},
               md'.securities[id] = [symbol |-> coin, status |-> "NULL"],
               \A i \in DOMAIN md.securities \ {id} : md'.securities[i] = md.securities[i]
        PROVE  LinkedInv'
    <3> SUFFICES ASSUME Linked(md, reg) PROVE Linked(md', reg')
      BY <1>2, <2>1, <2>2 DEF LinkedInv
    <3>1. /\ md'.symbolToId = md.symbolToId
          /\ md'.pendingSecDefs = md.pendingSecDefs /\ md'.pendingOutcomes = md.pendingOutcomes
          /\ md'.activeOutcomes = md.activeOutcomes
      BY <2>4 DEF Keeps, MdFields
    <3>2. reg'.at = "link" /\ reg'.coin = coin /\ reg'.id = id /\ md'.securities[id].symbol = coin
      BY <2>4
    <3>3. Hash[coin] \notin DOMAIN md.securities
      <4> SUFFICES ASSUME Hash[coin] \in DOMAIN md.securities PROVE FALSE
        OBVIOUS
      <4>1. md.securities[Hash[coin]].symbol = coin
        BY SymbolAtHash DEF TypeInv
      <4> QED
        BY <2>1, <2>4, <4>1 DEF Linked, NoRegistration
    <3>4. id = Hash[coin]
      BY <2>4, <3>3, HashIsId, FirstFreeIsHash DEF Free
    <3>5. /\ id \notin DOMAIN md.securities /\ DOMAIN md'.securities = DOMAIN md.securities \cup {id}
          /\ \A i \in DOMAIN md.securities : md'.securities[i].symbol = md.securities[i].symbol
      BY <2>4 DEF Free
    <3>6. \A i \in DOMAIN md'.securities :
            /\ Hash[md'.securities[i].symbol] = i
            /\ md'.securities[i].symbol \in DOMAIN md'.symbolToId \/ coin = md'.securities[i].symbol
      BY <2>1, <3>1, <3>2, <3>4, <3>5 DEF Linked, NoRegistration
    <3>7. coin \notin DOMAIN md'.symbolToId
      BY <2>4, <3>1
    <3> QED
      BY <3>1, <3>2, <3>4, <3>5, <3>6, <3>7 DEF Linked
  <2> QED
    BY <1>14, <2>3, <2>4, CreateNextStep
<1>15. CASE Link
  <2>1. /\ reg \in Registrations /\ reg.at = "link" /\ reg' = [reg EXCEPT !.at = "hold"]
        /\ cb' = cb /\ torn' = torn /\ Keeps(md, md', {"symbolToId"})
        /\ md'.symbolToId = Put(md.symbolToId, reg.coin, reg.id)
    BY <1>15, LinkStep
  <2>2. /\ md'.securities = md.securities
        /\ md'.pendingSecDefs = md.pendingSecDefs /\ md'.pendingOutcomes = md.pendingOutcomes
        /\ md'.activeOutcomes = md.activeOutcomes
    BY <2>1 DEF Keeps, MdFields
  <2>3. reg'.at = "hold" /\ reg'.coin = reg.coin /\ reg'.id = reg.id
    BY <2>1 DEF Registrations
  <2>4. /\ DOMAIN md'.symbolToId = DOMAIN md.symbolToId \cup {reg.coin}
        /\ md'.symbolToId[reg.coin] = reg.id
        /\ \A c \in DOMAIN md.symbolToId : c # reg.coin => md'.symbolToId[c] = md.symbolToId[c]
    BY <2>1 DEF Put
  <2>5. Linked(md, reg) => Linked(md', reg')
    BY <2>1, <2>2, <2>3, <2>4 DEF Linked
  <2>6. torn # "torn" => ~Resetting
    BY <2>1 DEF LinkedInv, Cleared, NoRegistration
  <2>7. Resetting' <=> Resetting
    BY <2>1 DEF Resetting
  <2> QED
    BY <2>1, <2>5, <2>6, <2>7 DEF LinkedInv
<1>16. CASE HoldDefinition
  <2>1. /\ reg \in Registrations /\ reg.at = "hold" /\ reg' = [reg EXCEPT !.at = "setStatus"]
        /\ cb' = cb /\ torn' = torn
        /\ Keeps(md, md', {"pendingSecDefs", "pendingOutcomes", "dropped"})
    BY <1>16, HoldStep
  <2>2. /\ md'.securities = md.securities /\ md'.symbolToId = md.symbolToId
        /\ md'.activeOutcomes = md.activeOutcomes
    BY <2>1 DEF Keeps, MdFields
  <2>3. reg'.at = "setStatus"
    BY <2>1 DEF Registrations
  <2>4. \A id \in DOMAIN md'.pendingSecDefs :
          \/ id \in DOMAIN md.pendingSecDefs /\ md'.pendingSecDefs[id] = md.pendingSecDefs[id]
          \/ reg.coin \in Perps /\ id = reg.id /\ md'.pendingSecDefs[id] = reg.coin
    BY <1>16, HoldStep DEF Put
  <2>5. \A id \in DOMAIN md'.pendingOutcomes :
          \/ id \in DOMAIN md.pendingOutcomes /\ md'.pendingOutcomes[id] = md.pendingOutcomes[id]
          \/ id = reg.id /\ md'.pendingOutcomes[id] = reg.coin
    BY <1>16, HoldStep DEF Put
  <2>6. Linked(md, reg) => Linked(md', reg')
    BY <2>1, <2>2, <2>3, <2>4, <2>5 DEF Linked
  <2>7. torn # "torn" => ~Resetting
    BY <2>1 DEF LinkedInv, Cleared, NoRegistration
  <2>8. Resetting' <=> Resetting
    BY <2>1 DEF Resetting
  <2> QED
    BY <2>1, <2>6, <2>7, <2>8 DEF LinkedInv
<1>17. CASE SetPending \/ SendPending
  <2>1. /\ reg \in Registrations /\ reg.at \in {"setStatus", "sendStatus"}
        /\ cb' = cb /\ torn' = torn
        /\ reg' = NoRegistration \/ reg' = [reg EXCEPT !.at = "sendStatus"]
        /\ Keeps(md, md', {"securities", "heard"})
        /\ DOMAIN md'.securities = DOMAIN md.securities
        /\ \A id \in DOMAIN md.securities : md'.securities[id].symbol = md.securities[id].symbol
    BY <1>17, SetPendingStep, SendPendingStep DEF Keeps, MdFields
  <2>2. /\ md'.symbolToId = md.symbolToId
        /\ md'.pendingSecDefs = md.pendingSecDefs /\ md'.pendingOutcomes = md.pendingOutcomes
        /\ md'.activeOutcomes = md.activeOutcomes
    BY <2>1 DEF Keeps, MdFields
  <2>3. reg' = NoRegistration \/ reg'.at = "sendStatus"
    BY <2>1 DEF Registrations
  <2>4. Linked(md, reg) => Linked(md', reg')
    BY <2>1, <2>2, <2>3, LinkedKept DEF NoRegistration
  <2>5. Resetting' <=> Resetting
    BY <2>1 DEF Resetting
  <2>6. Cleared(md, reg, cb) => Cleared(md', reg', cb')
    BY <2>1, <2>2, <2>3 DEF Cleared
  <2> QED
    BY <2>1, <2>4, <2>5, <2>6 DEF LinkedInv
<1>18. CASE Quiet
  BY <1>1, <1>18 DEF Quiet, Keeps, MdFields
<1> QED
  BY <1>3, <1>4, <1>6, <1>7, <1>8, <1>9, <1>10, <1>11, <1>12, <1>13, <1>14, <1>15, <1>16, <1>17, <1>18,
     Steps, QuietStep DEF Message

LinkedAlways == TypeInv /\ ConnectionInv /\ LinkedInv

LEMMA AlwaysLinked == ASSUME LossesNoticed, DistinctHashes PROVE Spec => []LinkedAlways
<1>1. Init => LinkedAlways
  BY InitTyped, InitConnection, InitLinked DEF LinkedAlways
<1>2. LinkedAlways /\ [Next]_vars => LinkedAlways'
  BY TypeInvStep, ConnectionStep, LinkedStep DEF LinkedAlways
<1> QED
  BY <1>1, <1>2, PTL DEF Spec

(* Where every loss is reported and hashes differ: symbols and ids name    *)
(* each other, whatever is lost, answered late, expired and registered     *)
(* again, and wherever the two threads meet, unless a registration got     *)
(* into the last reset.                                                    *)
THEOREM IdsAlwaysInverse == ASSUME LossesNoticed, DistinctHashes PROVE Spec => []IdsInverse
<1>1. LinkedAlways => IdsInverse
  <2> SUFFICES ASSUME LinkedAlways, torn # "torn", ~Resetting, reg.at # "link" PROVE Inverse(md)
    BY DEF IdsInverse, MapsAtRest
  <2>1. Linked(md, reg) /\ Well(md)
    BY DEF LinkedAlways, LinkedInv, TypeInv
  <2>2. ASSUME NEW c \in DOMAIN md.symbolToId
        PROVE  /\ md.symbolToId[c] \in DOMAIN md.securities
               /\ md.securities[md.symbolToId[c]].symbol = c
    <3>1. c \in Symbols
      BY <2>1 DEF Well, HyperliquidTypeOK, ProcessorTypeOK, IsMap
    <3>2. md.symbolToId[c] = Hash[c] /\ Hash[c] \in DOMAIN md.securities
      BY <2>1 DEF Linked
    <3> QED
      BY <2>1, <3>1, <3>2, SymbolAtHash
  <2>3. ASSUME NEW id \in DOMAIN md.securities
        PROVE  /\ md.securities[id].symbol \in DOMAIN md.symbolToId
               /\ md.symbolToId[md.securities[id].symbol] = id
    BY <2>1 DEF Linked
  <2> QED
    BY <2>2, <2>3 DEF Inverse
<1> QED
  BY <1>1, AlwaysLinked, PTL

-----------------------------------------------------------------------------
(* What is defined                                                         *)
NothingStale(s) ==
  \A id \in DOMAIN s.heard.defs :
    id \in DOMAIN s.securities /\ s.securities[id].symbol = s.heard.defs[id].marketSymbol

DefinitionsInv ==
  torn = "never" => /\ Resetting /\ cb.at # "withdraw" => DOMAIN md.heard.defs = {}
                    /\ ~Resetting \/ cb.at = "withdraw" => NothingStale(md)

LEMMA StaleKept ==
  ASSUME NEW s, NEW t, NothingStale(s), t.heard.defs = s.heard.defs,
         \A id \in DOMAIN s.securities :
           id \in DOMAIN t.securities /\ t.securities[id].symbol = s.securities[id].symbol
  PROVE  NothingStale(t)
BY DEF NothingStale

(* A book brings definitions of securities that are there.                 *)
LEMMA EmittedThere ==
  ASSUME DistinctHashes, NEW s, Well(s), NEW r, Linked(s, r), NEW K, NEW id \in DOMAIN Emitted(s, K)
  PROVE  /\ id \in DOMAIN s.securities
         /\ s.securities[id].symbol = Emitted(s, K)[id].marketSymbol
<1>1. id \in DOMAIN s.pendingSecDefs /\ Emitted(s, K)[id].marketSymbol = s.pendingSecDefs[id]
  BY DEF Emitted, AssetDefs, Only
<1>2. s.pendingSecDefs[id] \in Symbols
  BY <1>1, HyperliquidProcessorAssumption DEF Well, HyperliquidTypeOK, IsMap
<1>3. id \in DOMAIN s.securities /\ Hash[s.pendingSecDefs[id]] = id
  BY <1>1 DEF Linked
<1> QED
  BY <1>1, <1>2, <1>3, SymbolAtHash

LEMMA OutcomeThere ==
  ASSUME DistinctHashes, NEW s, Well(s), NEW r, Linked(s, r), NEW coin, IsRegistered(s, coin),
         NEW id \in DOMAIN EmittedOutcome(s, IdOf(s, coin))
  PROVE  /\ id = IdOf(s, coin) /\ id \in DOMAIN s.securities
         /\ s.securities[id].symbol = EmittedOutcome(s, IdOf(s, coin))[id].marketSymbol
         /\ EmittedOutcome(s, IdOf(s, coin))[id] = [symbol |-> OutcomeSymbol[coin], marketSymbol |-> coin]
         /\ coin \in Outcomes /\ id \in DOMAIN s.pendingOutcomes /\ s.pendingOutcomes[id] = coin
<1>1. /\ id = IdOf(s, coin) /\ id \in DOMAIN s.pendingOutcomes
      /\ EmittedOutcome(s, IdOf(s, coin))[id]
           = [symbol |-> OutcomeSymbol[s.pendingOutcomes[id]], marketSymbol |-> s.pendingOutcomes[id]]
  BY DEF EmittedOutcome, OutcomeDefs, Only
<1>2. s.pendingOutcomes[id] \in Symbols /\ s.pendingOutcomes[id] \in Outcomes
  BY <1>1, HyperliquidProcessorAssumption DEF Well, HyperliquidTypeOK, IsMap
<1>3. coin \in DOMAIN s.symbolToId /\ coin \in Symbols /\ id = s.symbolToId[coin]
  BY <1>1 DEF IsRegistered, IdOf, Well, HyperliquidTypeOK, ProcessorTypeOK, IsMap
<1>4. id = Hash[coin] /\ id \in DOMAIN s.securities /\ Hash[s.pendingOutcomes[id]] = id
  BY <1>1, <1>3 DEF Linked
<1>5. s.pendingOutcomes[id] = coin
  BY <1>2, <1>3, <1>4 DEF DistinctHashes
<1>6. s.securities[id].symbol = coin
  BY <1>3, <1>4, SymbolAtHash
<1> QED
  BY <1>1, <1>2, <1>4, <1>5, <1>6

LEMMA BookDefines ==
  ASSUME DistinctHashes, NEW s, Well(s), NEW r, Linked(s, r), NEW coin, IsRegistered(s, coin),
         NEW t, BookStarted(s, t, IdOf(s, coin)), NothingStale(s)
  PROVE  NothingStale(t)
<1>1. PICK i : i = IdOf(s, coin)
  OBVIOUS
<1>2. PICK g, h, K : /\ ShapedHeard(g) /\ g.defs = s.heard.defs
                     /\ h = HearAdds(HearAdds(g, Emitted(s, K)), EmittedOutcome(s, i))
                     /\ t.heard.defs = h.defs
  BY <1>1 DEF BookStarted
<1>3. PICK A, O : A = Emitted(s, K) /\ O = EmittedOutcome(s, i)
  OBVIOUS
<1>4. PICK k : k = HearAdds(g, A)
  OBVIOUS
<1>5. /\ ShapedHeard(k)
      /\ k.defs = [id \in DOMAIN g.defs \cup DOMAIN A |-> IF id \in DOMAIN A THEN A[id] ELSE g.defs[id]]
  BY <1>2, <1>4, HearAddsEffect
<1>h. h = HearAdds(k, O)
  BY <1>2, <1>3, <1>4
<1>6. h.defs = [id \in DOMAIN k.defs \cup DOMAIN O |-> IF id \in DOMAIN O THEN O[id] ELSE k.defs[id]]
  BY <1>5, <1>h, HearAddsEffect
<1>7. \A id \in DOMAIN t.heard.defs :
        \/ id \in DOMAIN s.heard.defs /\ t.heard.defs[id] = s.heard.defs[id]
        \/ id \in DOMAIN A /\ t.heard.defs[id] = A[id]
        \/ id \in DOMAIN O /\ t.heard.defs[id] = O[id]
  BY <1>2, <1>5, <1>6
<1>8. \A id \in DOMAIN A : id \in DOMAIN s.securities /\ s.securities[id].symbol = A[id].marketSymbol
  BY <1>3, EmittedThere
<1>9. \A id \in DOMAIN O : id \in DOMAIN s.securities /\ s.securities[id].symbol = O[id].marketSymbol
  BY <1>1, <1>3, OutcomeThere
<1>10. \A id \in DOMAIN t.heard.defs :
         id \in DOMAIN s.securities /\ s.securities[id].symbol = t.heard.defs[id].marketSymbol
  BY <1>7, <1>8, <1>9 DEF NothingStale
<1>11. /\ DOMAIN t.securities = DOMAIN s.securities
       /\ \A id \in DOMAIN s.securities : t.securities[id].symbol = s.securities[id].symbol
  BY DEF BookStarted
<1> QED
  BY <1>10, <1>11 DEF NothingStale

LEMMA InitDefinitions == Init => DefinitionsInv
BY DEF Init, HyperliquidInit, DefinitionsInv, NothingStale, NothingHeard, NoEntries, Resetting, Idle

LEMMA DefinitionsStep ==
  DistinctHashes /\ LinkedAlways /\ LinkedAlways' /\ DefinitionsInv /\ [Next]_vars => DefinitionsInv'
<1> SUFFICES ASSUME DistinctHashes, LinkedAlways, LinkedAlways', DefinitionsInv, [Next]_vars
             PROVE  DefinitionsInv'
  OBVIOUS
<1>0. TypeInv /\ ConnectionInv /\ LinkedInv /\ Well(md)
  BY DEF LinkedAlways, TypeInv
<1>1. ASSUME md'.heard.defs = md.heard.defs, Resetting' <=> Resetting, Resetting => cb'.at = cb.at,
             torn' = "never" => torn = "never",
             torn' = "never" =>
               \A id \in DOMAIN md.securities :
                 id \in DOMAIN md'.securities /\ md'.securities[id].symbol = md.securities[id].symbol
      PROVE  DefinitionsInv'
  <2>1. torn' = "never" /\ NothingStale(md) => NothingStale(md')
    BY <1>1, StaleKept
  <2> QED
    BY <1>1, <2>1 DEF DefinitionsInv
<1>2. ASSUME Keeps(md, md', {"conn", "heard", "dropped", "pendingRefetch"}), md'.heard.defs = md.heard.defs,
             cb' = cb, torn' = torn
      PROVE  DefinitionsInv'
  <2>1. md'.securities = md.securities /\ (Resetting' <=> Resetting)
    BY <1>2 DEF Keeps, MdFields, Resetting
  <2> QED
    BY <1>1, <1>2, <2>1
<1>3. CASE Connected
  <2>2. cb'.of # "connect"
    BY DEF LinkedAlways, ConnectionInv
  <2>3. ~ResetStep("connect")
    BY <2>2 DEF ResetStep
  <2>4. /\ Keeps(md, md', {"conn", "heard", "dropped"}) /\ KeepsHeard(md.heard, md'.heard, {"conn"})
        /\ cb' = cb /\ torn' = torn
    BY <1>0, <1>3, <2>3, ConnectedStep
  <2>5. md'.heard.defs = md.heard.defs
    BY <2>4 DEF KeepsHeard, HeardFields
  <2> QED
    BY <1>2, <2>4, <2>5 DEF Keeps
<1>4. CASE Disconnected
  <2>1. /\ cb = Idle /\ ResetStep("disconnect")
        /\ md'.heard = md.heard /\ md'.securities = md.securities
    BY <1>0, <1>4, DisconnectedStep DEF Keeps, MdFields
  <2>2. cb' = [of |-> "disconnect", at |-> "withdraw"] /\ (torn' = "never" => torn = "never")
    BY <2>1 DEF ResetStep
  <2>3. ~Resetting /\ cb'.at = "withdraw"
    BY <2>1, <2>2 DEF Resetting, Idle
  <2>4. NothingStale(md) => NothingStale(md')
    BY <2>1, StaleKept
  <2> QED
    BY <2>2, <2>3, <2>4 DEF DefinitionsInv
<1>5. CASE Withdraw
  <2>1. /\ Resetting /\ cb.at = "withdraw" /\ cb' = [cb EXCEPT !.at = "clearSecurities"] /\ torn' = torn
        /\ md'.heard.defs = Erase(md.heard.defs, DOMAIN md.securities)
    BY <1>0, <1>5, WithdrawStep
  <2>2. cb \in Resets
    BY <1>0, <2>1 DEF TypeInv, PlacesTyped, Callbacks, Resetting, Idle
  <2>3. cb'.of = cb.of /\ cb'.at = "clearSecurities"
    BY <2>1, <2>2 DEF Resets
  <2>4. torn = "never" => DOMAIN md'.heard.defs = {}
    BY <2>1 DEF DefinitionsInv, NothingStale, Erase
  <2> QED
    BY <2>1, <2>3, <2>4 DEF DefinitionsInv, Resetting
<1>6. CASE ClearSecurities
  <2>1. /\ Resetting /\ cb.at = "clearSecurities" /\ cb' = [cb EXCEPT !.at = "clearSymbols"]
        /\ torn' = torn /\ md'.heard = md.heard
    BY <1>0, <1>6, ClearSecuritiesStep DEF Keeps, MdFields
  <2>2. cb \in Resets
    BY <1>0, <2>1 DEF TypeInv, PlacesTyped, Callbacks, Resetting, Idle
  <2>3. cb'.of = cb.of /\ cb'.at = "clearSymbols"
    BY <2>1, <2>2 DEF Resets
  <2> QED
    BY <2>1, <2>3 DEF DefinitionsInv, Resetting
<1>7. CASE ClearSymbols
  <2>1. /\ Resetting /\ cb.at = "clearSymbols" /\ cb' = Idle /\ torn' = torn
        /\ md'.heard.defs = md.heard.defs
    BY <1>0, <1>7, ClearSymbolsStep DEF KeepsHeard, HeardFields
  <2>2. torn' = "never" => DOMAIN md'.heard.defs = {}
    BY <2>1 DEF DefinitionsInv
  <2> QED
    BY <2>1, <2>2 DEF DefinitionsInv, NothingStale, Resetting, Idle
<1>8. CASE PassBook \/ PassBbo
  <2>1. cb.of \in {"book", "bbo"} /\ cb' = Idle /\ Elsewhere
    BY <1>0, <1>8, PassBookStep, PassBboStep
  <2>2. md'.securities = md.securities /\ md'.heard.defs = md.heard.defs
    BY <1>0, <1>8, PassBookStep, PassBboStep DEF Keeps, MdFields, KeepsHeard, HeardFields
  <2>3. ~Resetting /\ ~Resetting'
    BY <2>1 DEF Resetting, Idle
  <2> QED
    BY <1>1, <2>1, <2>2, <2>3 DEF Elsewhere
<1>9. ASSUME NEW coin \in Symbols, ExpireOutcomes(coin) PROVE DefinitionsInv'
  <2>1. /\ cb = Idle /\ cb' = cb /\ Elsewhere
        /\ Expired(md, md', Over(md, now), IdsOver(md, now))
    BY <1>0, <1>9, ExpireStep
  <2>2. PICK ids : ids = IdsOver(md, now)
    OBVIOUS
  <2>3. /\ DOMAIN md'.securities = DOMAIN md.securities \ ids
        /\ \A id \in DOMAIN md'.securities : md'.securities[id].symbol = md.securities[id].symbol
        /\ md'.heard.defs = Erase(md.heard.defs, ids)
    BY <2>1, <2>2 DEF Expired
  <2>4. NothingStale(md) => NothingStale(md')
    BY <2>3 DEF NothingStale, Erase
  <2> QED
    BY <2>1, <2>4 DEF DefinitionsInv, Resetting, Elsewhere, Idle
<1>10. ASSUME NEW coin \in Symbols, PromptBook(coin) \/ SlowBook(coin) PROVE DefinitionsInv'
  <2>1. /\ cb = Idle /\ Elsewhere /\ IsRegistered(md, coin) /\ BookStarted(md, md', IdOf(md, coin))
        /\ cb' = Idle \/ cb' = [of |-> "book", id |-> IdOf(md, coin)]
    BY <1>0, <1>10, PromptBookStep, SlowBookStep
  <2>2. ~Resetting /\ ~Resetting'
    BY <2>1 DEF Resetting, Idle
  <2>3. torn = "never" => Linked(md, reg)
    BY <1>0, <2>2 DEF LinkedInv
  <2>4. torn = "never" => NothingStale(md')
    BY <1>0, <2>1, <2>2, <2>3, BookDefines DEF DefinitionsInv
  <2> QED
    BY <2>1, <2>2, <2>4 DEF DefinitionsInv, Elsewhere
<1>11. ASSUME NEW coin \in Symbols, Bbo(coin) PROVE DefinitionsInv'
  <2>1. /\ cb = Idle /\ cb' = [of |-> "bbo", id |-> IdOf(md, coin)] /\ Elsewhere
        /\ md'.securities = md.securities /\ md'.heard = md.heard
    BY <1>0, <1>11, BboStep DEF Keeps, MdFields
  <2>2. ~Resetting /\ ~Resetting'
    BY <2>1 DEF Resetting, Idle
  <2> QED
    BY <1>1, <2>1, <2>2 DEF Elsewhere
<1>12. ASSUME NEW coin \in Symbols, TradeArrives(coin) PROVE DefinitionsInv'
  <2>1. /\ cb' = cb /\ Elsewhere /\ Keeps(md, md', {"heard"}) /\ md'.heard.defs = md.heard.defs
    BY <1>0, <1>12, TradeStep DEF KeepsHeard, HeardFields
  <2> QED
    BY <1>2, <2>1 DEF Keeps, MdFields, Elsewhere
<1>13. ASSUME NEW coin \in Symbols, CreateNext(coin) PROVE DefinitionsInv'
  <2>1. cb' = cb /\ (torn' = "never" => torn = "never") /\ md'.heard = md.heard
    BY <1>0, <1>13, CreateNextStep DEF Keeps, MdFields
  <2>2. Resetting' <=> Resetting
    BY <2>1 DEF Resetting
  <2>3. \A id \in DOMAIN md.securities :
          id \in DOMAIN md'.securities /\ md'.securities[id] = md.securities[id]
    BY <1>0, <1>13, CreateNextStep DEF Keeps, MdFields, Free
  <2> QED
    BY <1>1, <2>1, <2>2, <2>3
<1>14. CASE Link \/ HoldDefinition \/ SetPending \/ SendPending
  <2>1. /\ cb' = cb /\ torn' = torn
        /\ \A id \in DOMAIN md.securities :
             id \in DOMAIN md'.securities /\ md'.securities[id].symbol = md.securities[id].symbol
    BY <1>0, <1>14, LinkStep, HoldStep, SetPendingStep, SendPendingStep DEF Keeps, MdFields
  <2>2. md'.heard.defs = md.heard.defs
    BY <1>0, <1>14, LinkStep, HoldStep, SetPendingStep, SendPendingStep
       DEF Keeps, MdFields, KeepsHeard, HeardFields
  <2>3. Resetting' <=> Resetting
    BY <2>1 DEF Resetting
  <2> QED
    BY <1>1, <2>1, <2>2, <2>3
<1>15. CASE Quiet
  BY <1>2, <1>15 DEF Quiet, Keeps, MdFields
<1> QED
  BY <1>0, <1>3, <1>4, <1>5, <1>6, <1>7, <1>8, <1>9, <1>10, <1>11, <1>12, <1>13, <1>14, <1>15,
     Steps, QuietStep DEF Message

LEMMA AlwaysDefined ==
  ASSUME LossesNoticed, DistinctHashes PROVE Spec => [](LinkedAlways /\ DefinitionsInv)
BY AlwaysLinked, InitDefinitions, DefinitionsStep, PTL DEF Spec

(* Where every loss is reported and hashes differ, no consumer keeps a     *)
(* definition that the process withdrew or gave to another security, as    *)
(* long as no registration gets into a reset.                              *)
THEOREM DistinctHashesKeepDefinitions ==
  ASSUME LossesNoticed, DistinctHashes PROVE Spec => []NoStaleDefinitions
<1>1. DefinitionsInv => NoStaleDefinitions
  BY DEF DefinitionsInv, NoStaleDefinitions, NothingStale
<1> QED
  BY <1>1, AlwaysDefined, PTL

-----------------------------------------------------------------------------
(* Prices                                                                  *)
TornInv == md.heard.stray \subseteq Ids /\ (torn = "torn" => raced = Ids)

LEMMA InitTorn == Init => TornInv
BY DEF Init, HyperliquidInit, NothingHeard, TornInv

LEMMA TornStep == TypeInv /\ TornInv /\ [Next]_vars => TornInv'
<1> SUFFICES ASSUME TypeInv, TornInv, [Next]_vars PROVE TornInv'
  OBVIOUS
<1>0. raced \subseteq Ids
  BY DEF TypeInv, PlacesTyped
<1>1. ASSUME torn' = torn, raced' = raced, md'.heard.stray \subseteq Ids PROVE TornInv'
  BY <1>1 DEF TornInv
<1>2. ASSUME Keeps(md, md', {"securities", "symbolToId", "conn", "pendingSecDefs", "pendingOutcomes",
                             "activeOutcomes", "dropped", "pendingRefetch"})
      PROVE  md'.heard.stray \subseteq Ids
  BY <1>2 DEF Keeps, MdFields, TornInv
<1>3. ASSUME NEW changed, KeepsHeard(md.heard, md'.heard, changed), "stray" \notin changed
      PROVE  md'.heard.stray \subseteq Ids
  BY <1>3 DEF KeepsHeard, HeardFields, TornInv
<1>4. ASSUME NEW of, ResetStep(of), md'.heard.stray \subseteq Ids PROVE TornInv'
  BY <1>4 DEF ResetStep, TornInv
<1>5. CASE Connected
  <2>1. md'.heard.stray \subseteq Ids
    BY <1>2, <1>3, <1>5, ConnectedStep DEF Keeps
  <2> QED
    BY <1>1, <1>4, <1>5, <2>1, ConnectedStep
<1>6. CASE Disconnected
  BY <1>2, <1>4, <1>6, DisconnectedStep DEF Keeps
<1>7. CASE Withdraw
  BY <1>1, <1>7, WithdrawStep DEF TornInv
<1>8. CASE ClearSecurities
  BY <1>1, <1>2, <1>8, ClearSecuritiesStep DEF Keeps
<1>9. CASE ClearSymbols
  BY <1>1, <1>3, <1>9, ClearSymbolsStep
<1>10. ASSUME NEW id \in Ids, Prices(id), torn = "torn" PROVE raced' = Ids
  BY <1>0, <1>10 DEF Prices, TornInv
<1>11. CASE PassBook
  <2>1. cb.id \in Ids /\ Prices(cb.id) /\ torn' = torn /\ BookPassed(md, md', cb.id)
    BY <1>11, PassBookStep DEF Elsewhere
  <2> QED
    BY <1>10, <2>1 DEF BookPassed, TornInv
<1>12. CASE PassBbo
  <2>1. /\ cb.id \in Ids /\ torn' = torn /\ raced' = raced
        /\ md'.heard.stray = IF cb.id \in md.heard.books THEN {} ELSE {cb.id}
    BY <1>12, PassBboStep DEF Elsewhere
  <2> QED
    BY <1>1, <2>1
<1>13. ASSUME NEW coin \in Symbols, ExpireOutcomes(coin) PROVE TornInv'
  BY <1>1, <1>3, <1>13, ExpireStep DEF Expired, Elsewhere
<1>14. ASSUME NEW coin \in Symbols, PromptBook(coin) PROVE TornInv'
  <2>1. PICK id : id = IdOf(md, coin)
    OBVIOUS
  <2>2. id \in Ids /\ Prices(id) /\ torn' = torn /\ BookPassed(md, md', id)
    BY <1>14, <2>1, PromptBookStep DEF Elsewhere
  <2> QED
    BY <1>10, <2>2 DEF BookPassed, TornInv
<1>15. ASSUME NEW coin \in Symbols, SlowBook(coin) \/ TradeArrives(coin) PROVE TornInv'
  <2>1. PICK id : id = IdOf(md, coin)
    OBVIOUS
  <2>2. /\ id \in Ids /\ torn' = torn /\ (raced' = raced \cup {id} \/ raced' = raced)
        /\ md'.heard.stray \subseteq md.heard.stray \cup {id}
    BY <1>15, <2>1, SlowBookStep, TradeStep DEF Elsewhere
  <2> QED
    BY <2>2 DEF TornInv
<1>16. ASSUME NEW coin \in Symbols, Bbo(coin) PROVE TornInv'
  BY <1>1, <1>2, <1>16, BboStep DEF Keeps, Elsewhere
<1>17. ASSUME NEW coin \in Symbols, CreateNext(coin) PROVE TornInv'
  <2>1. Keeps(md, md', {"securities", "pendingRefetch"})
    BY <1>17, CreateNextStep DEF Keeps
  <2>2. md'.heard.stray \subseteq Ids
    BY <1>2, <2>1 DEF Keeps
  <2>3. (torn' = "torn" /\ raced' = Ids) \/ (torn' = torn /\ raced' = raced)
    BY <1>17, CreateNextStep
  <2> QED
    BY <2>2, <2>3 DEF TornInv
<1>18. CASE Link \/ HoldDefinition \/ SetPending
  BY <1>1, <1>2, <1>18, LinkStep, HoldStep, SetPendingStep DEF Keeps
<1>19. CASE SendPending
  <2>1. /\ md'.heard.stray \subseteq Ids /\ reg.id \in Ids /\ torn' = torn
        /\ raced' = raced \cup {reg.id} \/ raced' = raced
    BY <1>3, <1>19, SendPendingStep DEF Registrations
  <2> QED
    BY <2>1 DEF TornInv
<1>20. CASE Quiet
  BY <1>1, <1>2, <1>20 DEF Quiet, Keeps
<1> QED
  BY <1>5, <1>6, <1>7, <1>8, <1>9, <1>11, <1>12, <1>13, <1>14, <1>15, <1>16, <1>17, <1>18, <1>19, <1>20,
     Steps, QuietStep DEF Message

Quoted == {"PENDING_SNAPSHOT", "ONLINE"}

HasStatus(s, id, status) == id \in DOMAIN s.securities /\ s.securities[id].status = status

(* Of a security that the REST thread leaves alone: an update can be       *)
(* passed on where its full book was sent, or is being sent.               *)
UpdatesInv ==
  /\ md.heard.stray \subseteq raced
  /\ cb.of = "bbo" => cb.id \in md.heard.books \cup raced
  /\ \A id \in Ids : HasStatus(md, id, "ONLINE") =>
       \/ id \in md.heard.books \/ id \in raced
       \/ cb.of = "book" /\ cb.id = id
  /\ reg.at = "sendStatus" /\ HasStatus(md, reg.id, "ONLINE") => reg.id \in raced

(* And consumers were told of what it waits for.                           *)
Told(s, r, c) ==
  /\ \A id \in DOMAIN s.securities :
       /\ s.securities[id].status \in Quoted =>
            (r.at = "sendStatus" /\ r.id = id) \/ LastStatus(s.heard, id) \in Quoted
       /\ s.securities[id].status \in Quoted \/ (r # NoRegistration /\ r.id = id)
  /\ r.at = "sendStatus" /\ r.id \in DOMAIN s.securities => s.securities[r.id].status \in Quoted
  /\ c.of = "book" => c.id \in DOMAIN s.securities

PricesInv == UpdatesInv /\ (torn # "torn" /\ ~Resetting => Told(md, reg, cb))

LEMMA InitPrices == Init => PricesInv
BY DEF Init, HyperliquidInit, PricesInv, UpdatesInv, HasStatus, Told, NothingHeard, NoEntries, Idle,
       NoRegistration

(* A price of a security that no thread registers is in place.             *)
LEMMA InPlace ==
  ASSUME DistinctHashes, TypeInv, torn # "torn", ~Resetting, LinkedInv, PricesInv,
         NEW coin \in Symbols, IsRegistered(md, coin), ~IsRegistering(IdOf(md, coin))
  PROVE  /\ IdOf(md, coin) \in DOMAIN md.securities
         /\ md.securities[IdOf(md, coin)].status \in Quoted
         /\ LastStatus(md.heard, IdOf(md, coin)) \in Quoted
<1>1. Linked(md, reg) /\ Told(md, reg, cb)
  BY DEF LinkedInv, PricesInv
<1>2. PICK id : id = IdOf(md, coin)
  OBVIOUS
<1>3. id \in DOMAIN md.securities
  BY <1>1, <1>2 DEF Linked, IsRegistered, IdOf
<1>4. ~(reg # NoRegistration /\ reg.id = id)
  BY <1>2 DEF IsRegistering
<1>5. reg.at = "sendStatus" => reg # NoRegistration
  BY DEF NoRegistration
<1> QED
  BY <1>1, <1>2, <1>3, <1>4, <1>5 DEF Told

LEMMA BookStartedStatus ==
  ASSUME NEW s, NEW t, NEW id, BookStarted(s, t, id)
  PROVE  /\ DOMAIN t.securities = DOMAIN s.securities
         /\ \A i \in DOMAIN s.securities :
              /\ i # id => t.securities[i].status = s.securities[i].status
              /\ s.securities[i].status \in Quoted => t.securities[i].status \in Quoted
              /\ \/ t.securities[i].status = s.securities[i].status
                 \/ s.securities[i].status \in Quoted
              /\ i = id /\ s.securities[i].status = "PENDING_SNAPSHOT" =>
                   LastStatus(t.heard, i) = "ONLINE"
         /\ \A i : LastStatus(s.heard, i) \in Quoted => LastStatus(t.heard, i) \in Quoted
         /\ \A i : i # id => LastStatus(t.heard, i) = LastStatus(s.heard, i)
<1>1. \A i : i \in FirstBook(s, id) <=>
               i = id /\ i \in DOMAIN s.securities /\ s.securities[i].status = "PENDING_SNAPSHOT"
  BY DEF FirstBook
<1>2. /\ DOMAIN t.securities = DOMAIN s.securities
      /\ \A i \in DOMAIN s.securities :
           /\ i \in FirstBook(s, id) => t.securities[i].status = "ONLINE"
           /\ i \notin FirstBook(s, id) => t.securities[i].status = s.securities[i].status
      /\ \A i \in FirstBook(s, id) : LastStatus(t.heard, i) = "ONLINE"
      /\ \A i : i \notin FirstBook(s, id) => LastStatus(t.heard, i) = LastStatus(s.heard, i)
  BY DEF BookStarted
<1> QED
  BY <1>1, <1>2 DEF Quoted

LEMMA BookTold ==
  ASSUME NEW s, NEW t, NEW id, BookStarted(s, t, id), NEW r, NEW c, NEW d, Told(s, r, c),
         d.of = "book" => d.id \in DOMAIN s.securities
  PROVE  Told(t, r, d)
BY BookStartedStatus DEF Told

LEMMA PricesStep ==
  /\ DistinctHashes /\ LinkedAlways /\ LinkedAlways' /\ TornInv /\ TornInv' /\ PricesInv
  /\ [Next]_vars
  => PricesInv'
<1> SUFFICES ASSUME DistinctHashes, LinkedAlways, LinkedAlways', TornInv, TornInv', PricesInv,
                    [Next]_vars
             PROVE  PricesInv'
  OBVIOUS
<1>0. TypeInv /\ TypeInv' /\ LinkedInv /\ LinkedInv' /\ Well(md) /\ Well(md') /\ raced \subseteq Ids
  BY DEF LinkedAlways, TypeInv, PlacesTyped
<1>1. ASSUME raced' = Ids PROVE UpdatesInv'
  <2>1. cb'.of = "bbo" => cb'.id \in Ids
    BY <1>0, PricedCallback DEF TypeInv, PlacesTyped, Callbacks, Idle, Resets
  <2>2. reg'.at = "sendStatus" => reg'.id \in Ids
    BY <1>0 DEF TypeInv, PlacesTyped, Registrations, NoRegistration
  <2> QED
    BY <1>1, <2>1, <2>2 DEF UpdatesInv, TornInv
<1>2. CASE torn' = "torn"
  BY <1>1, <1>2 DEF PricesInv, TornInv
<1>3. ASSUME torn' # "torn", raced' = raced, cb' = cb, reg' = reg, torn' = torn,
             md'.securities = md.securities, md'.heard.stray = md.heard.stray,
             md'.heard.books = md.heard.books, md'.heard.status = md.heard.status
      PROVE  PricesInv'
  BY <1>3 DEF PricesInv, UpdatesInv, HasStatus, Told, LastStatus, Resetting
<1>4. CASE torn' # "torn" /\ Quiet
  <2>1. md'.securities = md.securities /\ md'.heard = md.heard
    BY <1>4 DEF Quiet, Keeps, MdFields
  <2> QED
    BY <1>3, <1>4, <2>1 DEF Quiet
<1>5. CASE torn' # "torn" /\ Connected
  <2>1. cb'.of # "connect"
    BY DEF LinkedAlways, ConnectionInv
  <2>2. ~ResetStep("connect")
    BY <2>1 DEF ResetStep
  <2>3. /\ Keeps(md, md', {"conn", "heard", "dropped"}) /\ KeepsHeard(md.heard, md'.heard, {"conn"})
        /\ cb' = cb /\ torn' = torn /\ reg' = reg /\ raced' = raced
    BY <1>0, <1>5, <2>2, ConnectedStep
  <2>4. /\ md'.securities = md.securities /\ md'.heard.stray = md.heard.stray
        /\ md'.heard.books = md.heard.books /\ md'.heard.status = md.heard.status
    BY <2>3 DEF Keeps, MdFields, KeepsHeard, HeardFields
  <2> QED
    BY <1>3, <1>5, <2>3, <2>4
<1>6. CASE torn' # "torn" /\ Disconnected
  <2>1. /\ cb = Idle /\ ResetStep("disconnect")
        /\ md'.heard = md.heard /\ md'.securities = md.securities
    BY <1>0, <1>6, DisconnectedStep DEF Keeps, MdFields
  <2>2. reg' = reg /\ raced' = raced /\ cb' = [of |-> "disconnect", at |-> "withdraw"]
    BY <1>6, <2>1 DEF ResetStep
  <2>3. Resetting' /\ cb'.of # "bbo" /\ cb'.of # "book" /\ cb.of # "book"
    BY <2>1, <2>2 DEF Resetting, Idle
  <2> QED
    BY <2>1, <2>2, <2>3 DEF PricesInv, UpdatesInv, HasStatus
<1>7. ASSUME Resetting, NEW at \in {"clearSecurities", "clearSymbols"}, cb' = [cb EXCEPT !.at = at]
      PROVE  Resetting' /\ cb'.of # "bbo" /\ cb'.of # "book"
  <2>1. cb \in Resets
    BY <1>0, <1>7 DEF TypeInv, PlacesTyped, Callbacks, Resetting, Idle
  <2> QED
    BY <1>7, <2>1 DEF Resets, Resetting
<1>8. CASE torn' # "torn" /\ (Withdraw \/ ClearSecurities)
  <2>1. /\ Resetting /\ reg' = reg /\ raced' = raced /\ md'.heard.stray = md.heard.stray
        /\ \/ cb' = [cb EXCEPT !.at = "clearSecurities"]
           \/ cb' = [cb EXCEPT !.at = "clearSymbols"]
    BY <1>0, <1>8, WithdrawStep, ClearSecuritiesStep DEF Keeps, MdFields
  <2>2. \A id \in DOMAIN md'.securities : md'.securities[id].status = "OFFLINE"
    BY <1>0, <1>8, WithdrawStep, ClearSecuritiesStep
  <2>3. Resetting' /\ cb'.of # "bbo" /\ cb'.of # "book"
    BY <1>7, <2>1
  <2> QED
    BY <2>1, <2>2, <2>3 DEF PricesInv, UpdatesInv, HasStatus
<1>9. CASE torn' # "torn" /\ ClearSymbols
  <2>1. /\ Resetting /\ cb.at = "clearSymbols" /\ cb' = Idle /\ reg' = reg /\ raced' = raced /\ torn' = torn
        /\ md'.securities = md.securities /\ md'.heard.stray = md.heard.stray
    BY <1>0, <1>9, ClearSymbolsStep DEF Keeps, MdFields, KeepsHeard, HeardFields
  <2>2. DOMAIN md.securities = {}
    BY <1>0, <1>9, <2>1 DEF LinkedInv, Cleared
  <2> QED
    BY <2>1, <2>2 DEF PricesInv, UpdatesInv, HasStatus, Told, Idle
<1>10. ASSUME torn' # "torn", torn' = torn, NEW id \in Ids, Prices(id), BookPassed(md, md', id),
              reg' = reg, cb' = Idle,
              ~IsRegistering(id) => LastStatus(md'.heard, id) \in Quoted,
              cb.of = "book" => cb.id = id,
              \A i \in Ids : i # id /\ HasStatus(md', i, "ONLINE") => HasStatus(md, i, "ONLINE")
       PROVE  UpdatesInv'
  <2>1. raced' = IF IsRegistering(id) THEN raced \cup {id} ELSE raced \ {id}
    BY <1>10 DEF Prices
  <2>2. /\ md'.heard.books = md.heard.books \cup {id} /\ md'.heard.stray \subseteq {id}
        /\ ~IsRegistering(id) => md'.heard.stray = {}
    BY <1>10 DEF BookPassed, Quoted
  <2>3. md'.heard.stray \subseteq raced'
    BY <2>1, <2>2
  <2>4. \A i \in Ids : HasStatus(md', i, "ONLINE") => i \in md'.heard.books \/ i \in raced'
    BY <1>10, <2>1, <2>2 DEF PricesInv, UpdatesInv
  <2>5. ASSUME reg.at = "sendStatus", HasStatus(md', reg.id, "ONLINE") PROVE reg.id \in raced'
    <3>1. reg # NoRegistration
      BY <2>5 DEF NoRegistration
    <3>2. reg.id \in Ids
      BY <1>0, <3>1, RegistrationsHere
    <3>3. CASE reg.id = id
      BY <2>1, <3>1, <3>3 DEF IsRegistering
    <3>4. CASE reg.id # id
      BY <1>10, <2>1, <2>5, <3>2, <3>4 DEF PricesInv, UpdatesInv
    <3> QED
      BY <3>3, <3>4
  <2>6. cb'.of # "bbo"
    BY <1>10 DEF Idle
  <2> QED
    BY <1>10, <2>3, <2>4, <2>5, <2>6 DEF UpdatesInv
<1>11. CASE torn' # "torn" /\ PassBook
  <2>1. PICK id : id = cb.id
    OBVIOUS
  <2>2. /\ cb.of = "book" /\ id \in Ids /\ cb' = Idle /\ reg' = reg /\ torn' = torn /\ Prices(id)
        /\ md'.securities = md.securities /\ md'.heard.status = md.heard.status
        /\ BookPassed(md, md', id)
    BY <1>0, <1>11, <2>1, PassBookStep DEF Elsewhere, Keeps, MdFields, KeepsHeard, HeardFields
  <2>3. ~Resetting
    BY <2>2 DEF Resetting
  <2>4. Told(md, reg, cb)
    BY <1>11, <2>2, <2>3 DEF PricesInv
  <2>5. \A i : LastStatus(md'.heard, i) = LastStatus(md.heard, i)
    BY <2>2 DEF LastStatus
  <2>6. reg.at = "sendStatus" => reg # NoRegistration
    BY DEF NoRegistration
  <2>7. ~IsRegistering(id) => LastStatus(md'.heard, id) \in Quoted
    BY <2>1, <2>2, <2>4, <2>5, <2>6 DEF Told, IsRegistering
  <2>8. UpdatesInv'
    BY <1>10, <1>11, <2>1, <2>2, <2>7 DEF HasStatus
  <2>9. Told(md', reg', cb')
    BY <2>2, <2>4, <2>5 DEF Told, Idle
  <2> QED
    BY <2>8, <2>9 DEF PricesInv
<1>12. CASE torn' # "torn" /\ PassBbo
  <2>1. /\ cb.of = "bbo" /\ cb.id \in Ids /\ cb' = Idle /\ reg' = reg /\ torn' = torn /\ raced' = raced
        /\ md'.securities = md.securities
        /\ md'.heard.status = md.heard.status /\ md'.heard.books = md.heard.books
        /\ md'.heard.stray = IF cb.id \in md.heard.books THEN {} ELSE {cb.id}
    BY <1>0, <1>12, PassBboStep DEF Elsewhere, Keeps, MdFields, KeepsHeard, HeardFields
  <2>2. md'.heard.stray \subseteq raced
    BY <2>1 DEF PricesInv, UpdatesInv
  <2>3. UpdatesInv'
    BY <2>1, <2>2 DEF PricesInv, UpdatesInv, HasStatus, Idle
  <2>4. Told(md, reg, cb)
    BY <1>12, <2>1 DEF PricesInv, Resetting
  <2>5. Told(md', reg', cb')
    BY <2>1, <2>4 DEF Told, LastStatus, Idle
  <2> QED
    BY <2>3, <2>5 DEF PricesInv
<1>13. ASSUME torn' # "torn", NEW coin \in Symbols, ExpireOutcomes(coin) PROVE PricesInv'
  <2>1. PICK ids : ids = IdsOver(md, now)
    OBVIOUS
  <2>2. /\ cb = Idle /\ cb' = cb /\ reg' = reg /\ torn' = torn /\ raced' = raced
        /\ Expired(md, md', Over(md, now), ids)
    BY <1>0, <1>13, <2>1, ExpireStep DEF Elsewhere
  <2>3. /\ DOMAIN md'.securities = DOMAIN md.securities \ ids
        /\ \A id \in DOMAIN md'.securities : md'.securities[id].status = md.securities[id].status
        /\ md.heard.books \subseteq md'.heard.books \cup ids
        /\ \A id : id \notin ids => LastStatus(md'.heard, id) = LastStatus(md.heard, id)
        /\ md'.heard.stray = md.heard.stray
    BY <2>2 DEF Expired, KeepsHeard, HeardFields
  <2>4. UpdatesInv'
    BY <2>2, <2>3 DEF PricesInv, UpdatesInv, HasStatus, Idle
  <2>5. Told(md, reg, cb)
    BY <1>13, <2>2 DEF PricesInv, Resetting, Idle
  <2>6. Told(md', reg', cb')
    BY <2>2, <2>3, <2>5 DEF Told, Idle
  <2> QED
    BY <2>4, <2>6 DEF PricesInv
<1>14. ASSUME torn' # "torn", NEW coin \in Symbols, PromptBook(coin) PROVE PricesInv'
  <2>1. PICK id : id = IdOf(md, coin)
    OBVIOUS
  <2>2. /\ cb = Idle /\ cb' = Idle /\ reg' = reg /\ torn' = torn /\ id \in Ids /\ Prices(id)
        /\ IsRegistered(md, coin) /\ BookStarted(md, md', id) /\ BookPassed(md, md', id)
    BY <1>0, <1>14, <2>1, PromptBookStep DEF Elsewhere
  <2>3. ~Resetting
    BY <2>2 DEF Resetting, Idle
  <2>4. ~IsRegistering(id) => LastStatus(md.heard, id) \in Quoted
    BY <1>0, <1>14, <2>1, <2>2, <2>3, InPlace
  <2>5. ~IsRegistering(id) => LastStatus(md'.heard, id) \in Quoted
    BY <2>2, <2>4, BookStartedStatus
  <2>6. \A i \in Ids : i # id /\ HasStatus(md', i, "ONLINE") => HasStatus(md, i, "ONLINE")
    BY <2>2, BookStartedStatus DEF HasStatus
  <2>7. UpdatesInv'
    BY <1>10, <1>14, <2>2, <2>5, <2>6 DEF Idle
  <2>8. Told(md, reg, cb)
    BY <1>14, <2>2, <2>3 DEF PricesInv
  <2>9. Told(md', reg', cb')
    BY <2>2, <2>8, BookTold DEF Idle
  <2> QED
    BY <2>7, <2>9 DEF PricesInv
<1>15. ASSUME torn' # "torn", NEW coin \in Symbols, SlowBook(coin) PROVE PricesInv'
  <2>1. PICK id : id = IdOf(md, coin)
    OBVIOUS
  <2>2. /\ cb = Idle /\ reg' = reg /\ torn' = torn /\ id \in Ids
        /\ raced' = IF IsRegistering(id) THEN raced \cup {id} ELSE raced
        /\ IsRegistered(md, coin) /\ BookStarted(md, md', id)
        /\ md'.heard.books = md.heard.books /\ md'.heard.stray = md.heard.stray
    BY <1>0, <1>15, <2>1, SlowBookStep DEF Elsewhere
  <2>3. cb' = [of |-> "book", id |-> id]
    BY <1>0, <1>15, <2>1, SlowBookStep
  <2>4. cb'.of = "book" /\ cb'.id = id
    BY <2>3
  <2>5. ~Resetting
    BY <2>2 DEF Resetting, Idle
  <2>6. \A i \in Ids : i # id /\ HasStatus(md', i, "ONLINE") => HasStatus(md, i, "ONLINE")
    BY <2>2, BookStartedStatus DEF HasStatus
  <2>7. ASSUME reg.at = "sendStatus", HasStatus(md', reg.id, "ONLINE") PROVE reg.id \in raced'
    <3>1. reg # NoRegistration
      BY <2>7 DEF NoRegistration
    <3>2. reg.id \in Ids
      BY <1>0, <3>1, RegistrationsHere
    <3>3. CASE reg.id = id
      BY <2>2, <3>1, <3>3 DEF IsRegistering
    <3>4. CASE reg.id # id
      BY <2>2, <2>6, <2>7, <3>2, <3>4 DEF PricesInv, UpdatesInv
    <3> QED
      BY <3>3, <3>4
  <2>8. UpdatesInv'
    BY <2>2, <2>4, <2>6, <2>7 DEF PricesInv, UpdatesInv, Idle
  <2>9. Told(md, reg, cb) /\ Linked(md, reg)
    BY <1>0, <1>15, <2>2, <2>5 DEF PricesInv, LinkedInv
  <2>10. id \in DOMAIN md.securities
    BY <2>1, <2>2, <2>9 DEF Linked, IsRegistered, IdOf
  <2>11. Told(md', reg', cb')
    BY <2>2, <2>4, <2>9, <2>10, BookTold
  <2> QED
    BY <2>8, <2>11 DEF PricesInv
<1>16. ASSUME torn' # "torn", NEW coin \in Symbols, Bbo(coin) PROVE PricesInv'
  <2>1. PICK id : id = IdOf(md, coin)
    OBVIOUS
  <2>2. /\ cb = Idle /\ reg' = reg /\ torn' = torn /\ raced' = raced /\ id \in Ids
        /\ HasStatus(md, id, "ONLINE")
        /\ md'.securities = md.securities /\ md'.heard = md.heard
    BY <1>0, <1>16, <2>1, BboStep DEF Elsewhere, Keeps, MdFields, HasStatus
  <2>3. cb' = [of |-> "bbo", id |-> id]
    BY <1>0, <1>16, <2>1, BboStep
  <2>4. cb'.of = "bbo" /\ cb'.id = id
    BY <2>3
  <2>5. id \in md.heard.books \cup raced
    BY <2>2 DEF PricesInv, UpdatesInv, Idle
  <2>6. UpdatesInv'
    BY <2>2, <2>4, <2>5 DEF PricesInv, UpdatesInv, HasStatus, Idle
  <2>7. Told(md, reg, cb)
    BY <1>16, <2>2 DEF PricesInv, Resetting, Idle
  <2>8. Told(md', reg', cb')
    BY <2>2, <2>4, <2>7 DEF Told
  <2> QED
    BY <2>6, <2>8 DEF PricesInv
<1>17. ASSUME torn' # "torn", NEW coin \in Symbols, TradeArrives(coin) PROVE PricesInv'
  <2>1. PICK id : id = IdOf(md, coin)
    OBVIOUS
  <2>2. /\ cb = Idle /\ cb' = cb /\ reg' = reg /\ torn' = torn /\ id \in Ids
        /\ raced' = IF IsRegistering(id) THEN raced \cup {id} ELSE raced
        /\ IsRegistered(md, coin)
        /\ md'.securities = md.securities
        /\ md'.heard.status = md.heard.status /\ md'.heard.books = md.heard.books
        /\ md'.heard.stray = IF LastStatus(md.heard, id) \in Quoted THEN {} ELSE {id}
    BY <1>0, <1>17, <2>1, TradeStep DEF Elsewhere, Keeps, MdFields, KeepsHeard, HeardFields, Quoted
  <2>3. ~Resetting
    BY <2>2 DEF Resetting, Idle
  <2>4. ~IsRegistering(id) => LastStatus(md.heard, id) \in Quoted
    BY <1>0, <1>17, <2>1, <2>2, <2>3, InPlace
  <2>5. md'.heard.stray \subseteq raced'
    BY <2>2, <2>4
  <2>6. UpdatesInv'
    BY <2>2, <2>5 DEF PricesInv, UpdatesInv, HasStatus
  <2>7. Told(md, reg, cb)
    BY <1>17, <2>2, <2>3 DEF PricesInv
  <2>8. Told(md', reg', cb')
    BY <2>2, <2>7 DEF Told, LastStatus
  <2> QED
    BY <2>6, <2>8 DEF PricesInv
<1>18. ASSUME torn' # "torn", NEW coin \in Symbols, CreateNext(coin) PROVE PricesInv'
  <2>1. /\ reg = NoRegistration /\ cb' = cb /\ ~Resetting /\ torn' = torn /\ raced' = raced
        /\ md'.heard = md.heard
    BY <1>0, <1>18, CreateNextStep DEF Keeps, MdFields
  <2>2. Told(md, reg, cb)
    BY <1>18, <2>1 DEF PricesInv
  <2>3. reg'.at \in {"link", "hold"} /\ reg' # NoRegistration
    <3>1. reg'.at \in {"link", "hold"}
      BY <1>0, <1>18, CreateNextStep
    <3> QED
      BY <3>1 DEF NoRegistration
  <2>4. /\ DOMAIN md.securities \subseteq DOMAIN md'.securities
        /\ \A id \in DOMAIN md'.securities :
             \/ id \in DOMAIN md.securities /\ md'.securities[id] = md.securities[id]
             \/ reg'.id = id /\ md'.securities[id].status = "NULL"
    <3>1. CASE Keeps(md, md', {"pendingRefetch"})
      BY <3>1 DEF Keeps, MdFields
    <3>2. ASSUME NEW id, reg' = [at |-> "link", coin |-> coin, id |-> id],
                 DOMAIN md'.securities = DOMAIN md.securities \cup {id},
                 md'.securities[id] = [symbol |-> coin, status |-> "NULL"],
                 \A i \in DOMAIN md.securities \ {id} : md'.securities[i] = md.securities[i]
          PROVE  <2>4!1 /\ <2>4!2
      <4>1. reg'.id = id /\ md'.securities[id].status = "NULL"
        BY <3>2
      <4> QED
        BY <3>2, <4>1
    <3> QED
      BY <1>0, <1>18, <3>1, <3>2, CreateNextStep
  <2>5. \A id \in Ids : HasStatus(md', id, "ONLINE") => HasStatus(md, id, "ONLINE")
    BY <2>4 DEF HasStatus
  <2>6. UpdatesInv'
    BY <2>1, <2>3, <2>5 DEF PricesInv, UpdatesInv
  <2>7. Told(md', reg', cb')
    BY <2>1, <2>2, <2>3, <2>4 DEF Told, Quoted, NoRegistration
  <2> QED
    BY <2>6, <2>7 DEF PricesInv
<1>19. CASE torn' # "torn" /\ (Link \/ HoldDefinition)
  <2>1. /\ reg \in Registrations /\ reg.at # "sendStatus" /\ reg # NoRegistration
        /\ cb' = cb /\ torn' = torn /\ raced' = raced
        /\ md'.securities = md.securities /\ md'.heard = md.heard
        /\ reg' = [reg EXCEPT !.at = "hold"] \/ reg' = [reg EXCEPT !.at = "setStatus"]
    BY <1>0, <1>19, LinkStep, HoldStep DEF Keeps, MdFields, NoRegistration
  <2>2. reg'.at # "sendStatus" /\ reg' # NoRegistration /\ reg'.id = reg.id
    BY <2>1 DEF Registrations, NoRegistration
  <2>3. UpdatesInv'
    BY <2>1, <2>2 DEF PricesInv, UpdatesInv, HasStatus
  <2>4. Told(md, reg, cb) => Told(md', reg', cb')
    BY <2>1, <2>2 DEF Told
  <2> QED
    BY <2>1, <2>3, <2>4 DEF PricesInv, Resetting
<1>20. CASE torn' # "torn" /\ SetPending
  <2>1. /\ reg \in Registrations /\ reg.at = "setStatus" /\ reg # NoRegistration /\ reg.id \in Ids
        /\ cb' = cb /\ torn' = torn /\ raced' = raced /\ md'.heard = md.heard
        /\ \/ reg' = [reg EXCEPT !.at = "sendStatus"]
           \/ /\ reg' = NoRegistration
              /\ reg.id \in DOMAIN md.securities => md.securities[reg.id].status = "PENDING_SNAPSHOT"
        /\ DOMAIN md'.securities = DOMAIN md.securities
        /\ \A id \in DOMAIN md.securities :
             /\ id = reg.id => md'.securities[id].status = "PENDING_SNAPSHOT"
             /\ id # reg.id => md'.securities[id].status = md.securities[id].status
    BY <1>0, <1>20, SetPendingStep DEF Keeps, MdFields, NoRegistration, Registrations
  <2>2. \/ reg'.at = "sendStatus" /\ reg'.id = reg.id /\ reg' # NoRegistration
        \/ /\ reg' = NoRegistration /\ reg'.at # "sendStatus"
           /\ reg.id \in DOMAIN md.securities => md.securities[reg.id].status = "PENDING_SNAPSHOT"
    BY <2>1 DEF Registrations, NoRegistration
  <2>3. ~HasStatus(md', reg.id, "ONLINE")
    BY <2>1 DEF HasStatus
  <2>4. \A id \in Ids : HasStatus(md', id, "ONLINE") => HasStatus(md, id, "ONLINE")
    BY <2>1 DEF HasStatus
  <2>5. UpdatesInv'
    BY <2>1, <2>2, <2>3, <2>4 DEF PricesInv, UpdatesInv
  <2>6. Told(md, reg, cb) => Told(md', reg', cb')
    BY <2>1, <2>2 DEF Told, Quoted
  <2> QED
    BY <2>1, <2>5, <2>6 DEF PricesInv, Resetting
<1>21. CASE torn' # "torn" /\ SendPending
  <2>1. /\ reg.at = "sendStatus" /\ reg # NoRegistration /\ reg.id \in Ids
        /\ reg' = NoRegistration /\ cb' = cb /\ torn' = torn
        /\ raced' = IF cb.of = "bbo" /\ cb.id = reg.id THEN raced \cup {reg.id} ELSE raced
        /\ md'.securities = md.securities /\ md'.heard.stray = md.heard.stray
        /\ md'.heard.books = md.heard.books \ {reg.id}
        /\ LastStatus(md'.heard, reg.id) = "PENDING_SNAPSHOT"
        /\ \A id : id # reg.id => LastStatus(md'.heard, id) = LastStatus(md.heard, id)
    BY <1>0, <1>21, SendPendingStep
       DEF Keeps, MdFields, KeepsHeard, HeardFields, NoRegistration, Registrations
  <2>2. UpdatesInv'
    BY <2>1 DEF PricesInv, UpdatesInv, HasStatus, NoRegistration
  <2>3. Told(md, reg, cb) => Told(md', reg', cb')
    BY <2>1 DEF Told, Quoted, NoRegistration
  <2> QED
    BY <2>1, <2>2, <2>3 DEF PricesInv, Resetting
<1> QED
  BY <1>0, <1>2, <1>4, <1>5, <1>6, <1>8, <1>9, <1>11, <1>12, <1>13, <1>14, <1>15, <1>16, <1>17, <1>18,
     <1>19, <1>20, <1>21, Steps, QuietStep DEF Message

LEMMA AlwaysQuoted ==
  ASSUME LossesNoticed, DistinctHashes PROVE Spec => [](LinkedAlways /\ TornInv /\ PricesInv)
<1>1. Init => TornInv /\ PricesInv
  BY InitTorn, InitPrices
<1>2. LinkedAlways /\ TornInv /\ [Next]_vars => TornInv'
  BY TornStep DEF LinkedAlways
<1> QED
  BY <1>1, <1>2, AlwaysLinked, PricesStep, PTL DEF Spec

(* Where every loss is reported and hashes differ, no price that consumers *)
(* get is out of place, but of securities that the REST thread registers   *)
(* in the midst of their prices, until their next full book.               *)
THEOREM PricesAlwaysInPlace ==
  ASSUME LossesNoticed, DistinctHashes PROVE Spec => []PricesInPlace
<1>1. PricesInv => PricesInPlace
  BY DEF PricesInv, UpdatesInv, PricesInPlace
<1> QED
  BY <1>1, AlwaysQuoted, PTL
=============================================================================
