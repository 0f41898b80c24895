----------------------- MODULE DeribitMarketDataProofs -----------------------
(***************************************************************************)
(* Proofs about DeribitMarketData: for any instruments, lists and hashes,  *)
(* and however often sessions end, consumers are told of exactly the       *)
(* securities there are, and get no price out of place.                    *)
(*                                                                         *)
(* The processor keeps no record of what it sent.  The invariant says that *)
(* its maps are one: what they hold was told, with the status they hold,   *)
(* and a security that is ONLINE was told its book.                        *)
(***************************************************************************)
EXTENDS DeribitMarketData, MessageProcessorProofs

AllFields == Fields \cup {"conn", "heard", "pendingLists"}

HeardFields == {"defs", "names", "status", "conn", "books", "stray"}

Shaped(s) == AllFields \subseteq DOMAIN s /\ HeardFields \subseteq DOMAIN s.heard

DefsTold(s) ==
  /\ DOMAIN s.heard.defs = DOMAIN s.securities
  /\ \A id \in DOMAIN s.securities : s.heard.defs[id].symbol = s.securities[id].symbol

StatusTold(s, id) ==
  /\ s.securities[id].status \in {"PENDING_SNAPSHOT", "ONLINE"}
  /\ id \in DOMAIN s.heard.status
  /\ s.heard.status[id] = s.securities[id].status
  /\ s.securities[id].status = "ONLINE" => id \in s.heard.books

AllTold(s) == \A id \in DOMAIN s.securities : StatusTold(s, id)

NoneStray(s) == s.heard.stray = {}

Told(s) == Good(s) /\ Shaped(s) /\ DefsTold(s) /\ AllTold(s) /\ NoneStray(s)

DeribitInv == Told(md) /\ list.todo \subseteq Symbols

-----------------------------------------------------------------------------
LEMMA InitTold == Told(DeribitInit)
BY DEF DeribitInit, Told, Good, Shaped, DefsTold, AllTold, NoneStray, Fields, AllFields, HeardFields,
       NoEntries, NothingHeard, IsMap, Inverse

(* The status of the connection and the pending lists have no part in it.  *)
LEMMA OtherFields ==
  ASSUME NEW s, Told(s), NEW requests, NEW conn
  PROVE  Told([s EXCEPT !.pendingLists = requests]) /\ Told(UpdateConnectionStatus(s, conn))
<1>1. Told([s EXCEPT !.pendingLists = requests])
  <2> DEFINE t == [s EXCEPT !.pendingLists = requests]
  <2>1. /\ DOMAIN t = DOMAIN s
        /\ t.securities = s.securities /\ t.symbolToId = s.symbolToId /\ t.heard = s.heard
    BY DEF Told, Shaped, AllFields, Fields
  <2> HIDE DEF t
  <2>2. Told(t)
    BY <2>1, SameMaps DEF Told, Shaped, DefsTold, AllTold, StatusTold, NoneStray, Good
  <2>3. QED
    BY <2>2 DEF t
<1>2. Told(UpdateConnectionStatus(s, conn))
  <2> DEFINE t == UpdateConnectionStatus(s, conn)
  <2>1. /\ DOMAIN t = DOMAIN s
        /\ t.securities = s.securities /\ t.symbolToId = s.symbolToId
        /\ t.heard = [s.heard EXCEPT !.conn = conn]
    BY DEF Told, Shaped, AllFields, Fields, UpdateConnectionStatus, HearConnection
  <2>2. /\ DOMAIN t.heard = DOMAIN s.heard
        /\ t.heard.defs = s.heard.defs /\ t.heard.status = s.heard.status
        /\ t.heard.books = s.heard.books /\ t.heard.stray = s.heard.stray
    BY <2>1 DEF Told, Shaped, HeardFields
  <2> HIDE DEF t
  <2>3. Told(t)
    BY <2>1, <2>2, SameMaps DEF Told, Shaped, DefsTold, AllTold, StatusTold, NoneStray, Good
  <2>4. QED
    BY <2>3 DEF t
<1>3. QED
  BY <1>1, <1>2

(* When a state is invalidated, everything that was told is withdrawn.     *)
LEMMA InvalidateTold ==
  ASSUME NEW s, Told(s)
  PROVE  Told(InvalidateState(s))
<1> DEFINE u == RemoveDefinitions(s, DOMAIN s.securities)
           v == UpdateSecurityStatus(u, DOMAIN u.securities, "OFFLINE")
           w == UpdateConnectionStatus(v, "OFFLINE")
           t == InvalidateState(s)
<1>0. t = [w EXCEPT !.securities = NoEntries, !.symbolToId = NoEntries]
  BY DEF InvalidateState, WithdrawAll, OfflineOnly
<1> HIDE DEF t
<1>1. /\ DOMAIN u = DOMAIN s /\ u.securities = s.securities
      /\ DOMAIN u.heard = DOMAIN s.heard
      /\ u.heard.defs = Erase(s.heard.defs, DOMAIN s.securities)
      /\ u.heard.stray = s.heard.stray
  <2>1. u = [s EXCEPT !.heard = HearRemove(@, DOMAIN s.securities)]
    BY DEF RemoveDefinitions
  <2> HIDE DEF u
  <2>2. /\ DOMAIN u = DOMAIN s /\ u.securities = s.securities
        /\ u.heard = HearRemove(s.heard, DOMAIN s.securities)
    BY <2>1 DEF Told, Shaped, AllFields
  <2>3. QED
    BY <2>2 DEF Told, Shaped, HeardFields, HearRemove
<1>2. DOMAIN u.heard.defs = {}
  BY <1>1 DEF Told, DefsTold, Erase
<1> HIDE DEF u
<1>3. /\ DOMAIN v = DOMAIN u
      /\ DOMAIN v.heard = DOMAIN u.heard
      /\ v.heard.defs = u.heard.defs /\ v.heard.stray = u.heard.stray
  BY <1>1 DEF Told, Shaped, AllFields, HeardFields, UpdateSecurityStatus, SetStatus, Changed,
              HearStatus
<1> HIDE DEF v
<1>4. /\ DOMAIN t = DOMAIN v
      /\ t.securities = NoEntries
      /\ t.heard = [v.heard EXCEPT !.conn = "OFFLINE"]
  <2>1. DOMAIN w = DOMAIN v /\ w.heard = [v.heard EXCEPT !.conn = "OFFLINE"]
    BY <1>1, <1>3 DEF Told, Shaped, AllFields, UpdateConnectionStatus, HearConnection
  <2> HIDE DEF w
  <2>2. QED
    BY <1>0, <1>1, <1>3, <2>1 DEF Told, Shaped, AllFields, Fields
<1>5. /\ DOMAIN t.heard = DOMAIN v.heard
      /\ t.heard.defs = v.heard.defs /\ t.heard.stray = v.heard.stray
  BY <1>1, <1>3, <1>4 DEF Told, Shaped, HeardFields
<1>6. Good(t)
  BY InvalidateStateGood DEF Told, t
<1>7. Told(t)
  BY <1>1, <1>2, <1>3, <1>4, <1>5, <1>6
     DEF Told, Shaped, DefsTold, AllTold, NoneStray, NoEntries
<1>8. QED
  BY <1>7 DEF t

(* A change of status is told; a security may be told to wait whenever it  *)
(* is defined, and ONLINE when its book was sent.                          *)
LEMMA StatusChangeTold ==
  ASSUME NEW s, Good(s), Shaped(s), DefsTold(s), NoneStray(s),
         NEW id \in DOMAIN s.securities, NEW status \in {"PENDING_SNAPSHOT", "ONLINE"},
         \A x \in DOMAIN s.securities \ {id} : StatusTold(s, x),
         s.securities[id].status = status => StatusTold(s, id),
         status = "ONLINE" => id \in s.heard.books
  PROVE  Told(UpdateSecurityStatus(s, {id}, status))
<1> DEFINE changed == {x \in {id} \cap DOMAIN s.securities : s.securities[x].status # status}
           t == UpdateSecurityStatus(s, {id}, status)
<1>1. Good(t) /\ DOMAIN t = DOMAIN s
  BY UpdateSecurityStatusGood DEF Statuses
<1>2. /\ t.securities = [x \in DOMAIN s.securities |->
                           IF x \in changed THEN [s.securities[x] EXCEPT !.status = status]
                                            ELSE s.securities[x]]
      /\ t.heard = HearStatus(s.heard, changed, status)
  BY DEF Shaped, AllFields, Fields, UpdateSecurityStatus, SetStatus, Changed
<1>3. changed = IF s.securities[id].status = status THEN {} ELSE {id}
  OBVIOUS
<1> HIDE DEF changed, t
<1>4. /\ DOMAIN t.heard = DOMAIN s.heard
      /\ t.heard.defs = s.heard.defs /\ t.heard.stray = s.heard.stray
      /\ t.heard.status = [x \in DOMAIN s.heard.status \cup changed |->
                             IF x \in changed THEN status ELSE s.heard.status[x]]
      /\ t.heard.books = IF status = "ONLINE" THEN s.heard.books ELSE s.heard.books \ changed
  BY <1>2 DEF Shaped, HeardFields, HearStatus
<1>5. \A x \in DOMAIN s.securities : s.securities[x] \in Securities
  BY DEF Good, IsMap
<1>6. \A x \in DOMAIN s.securities :
        /\ t.securities[x].symbol = s.securities[x].symbol
        /\ t.securities[x].status = IF x \in changed THEN status ELSE s.securities[x].status
  BY <1>2, <1>5 DEF Securities
<1>7. ASSUME NEW x \in DOMAIN s.securities
      PROVE  StatusTold(t, x)
  <2>1. CASE x \in changed
    BY <1>3, <1>4, <1>6, <2>1 DEF StatusTold
  <2>2. CASE x \notin changed
    <3>1. StatusTold(s, x)
      BY <1>3, <2>2
    <3>2. QED
      BY <1>4, <1>6, <2>2, <3>1 DEF StatusTold
  <2>3. QED
    BY <2>1, <2>2
<1>8. DOMAIN t.securities = DOMAIN s.securities
  BY <1>2
<1>9. Told(t)
  BY <1>1, <1>4, <1>6, <1>7, <1>8 DEF Told, Shaped, DefsTold, AllTold, NoneStray
<1>10. QED
  BY <1>9 DEF t

(* A security that is told: what is said of it is not out of place.        *)
LEMMA PriceTold ==
  ASSUME NEW s, Told(s), NEW id \in DOMAIN s.securities
  PROVE  /\ HearPrice(s.heard, id).stray = {}
         /\ HearPrice(s.heard, id) = [s.heard EXCEPT !.stray = s.heard.stray]
<1>1. StatusTold(s, id)
  BY DEF Told, AllTold
<1>2. LastStatus(s.heard, id) \in {"PENDING_SNAPSHOT", "ONLINE"}
  BY <1>1 DEF StatusTold, LastStatus
<1>3. HearPrice(s.heard, id) = [s.heard EXCEPT !.stray = s.heard.stray]
  BY <1>2 DEF HearPrice, Placed, Told, NoneStray
<1>4. HearPrice(s.heard, id).stray = s.heard.stray
  BY <1>3 DEF Told, Shaped, HeardFields
<1>5. QED
  BY <1>3, <1>4 DEF Told, NoneStray

(* Changing only what was heard of books keeps a state told, if no book is *)
(* forgotten.                                                              *)
LEMMA MoreBooksTold ==
  ASSUME NEW s, Told(s), NEW h, DOMAIN h = DOMAIN s.heard,
         h.defs = s.heard.defs, h.status = s.heard.status, h.stray = s.heard.stray,
         s.heard.books \subseteq h.books
  PROVE  /\ Told([s EXCEPT !.heard = h])
         /\ [s EXCEPT !.heard = h].heard = h
         /\ [s EXCEPT !.heard = h].securities = s.securities
         /\ [s EXCEPT !.heard = h].symbolToId = s.symbolToId
<1> DEFINE t == [s EXCEPT !.heard = h]
<1>1. /\ DOMAIN t = DOMAIN s
      /\ t.securities = s.securities /\ t.symbolToId = s.symbolToId /\ t.heard = h
  BY DEF Told, Shaped, AllFields, Fields
<1> HIDE DEF t
<1>2. Good(t)
  BY <1>1, SameMaps DEF Told, Shaped, AllFields
<1>3. Told(t)
  BY <1>1, <1>2 DEF Told, Shaped, DefsTold, AllTold, StatusTold, NoneStray
<1>4. QED
  BY <1>1, <1>3 DEF t

(* A registered symbol stands for a security.                              *)
LEMMA RegisteredHasId ==
  ASSUME NEW s, Told(s), NEW symbol, IsRegistered(s, symbol)
  PROVE  IdOf(s, symbol) \in DOMAIN s.securities
BY DEF Told, Good, Inverse, IsRegistered, IdOf

-----------------------------------------------------------------------------
(* The messages of a session, one lemma for each.                          *)
LEMMA OnLogonTold == ASSUME NEW s, Told(s) PROVE Told(OnLogon(s))
<1>1. Told(InvalidateState(s))
  BY InvalidateTold
<1> DEFINE t == IF s.conn = "ONLINE" THEN InvalidateState(s) ELSE s
<1>2. Told(t)
  BY <1>1
<1> HIDE DEF t
<1>3. Told([t EXCEPT !.pendingLists = {}])
  BY <1>2, OtherFields
<1>4. Told(UpdateConnectionStatus([t EXCEPT !.pendingLists = {}], "STARTING"))
  BY <1>3, OtherFields
<1>5. QED
  BY <1>4 DEF OnLogon, t

LEMMA OnInstrumentTold ==
  ASSUME NEW s, Told(s), NEW l, NEW symbol \in Symbols, CanCreate(s, symbol)
  PROVE  Told(OnInstrument(s, l, symbol))
<1> DEFINE t == CreateSecurity(s, symbol)
           id == IdOf(t, symbol)
           def == [symbol |-> symbol, marketSymbol |-> symbol, terms |-> Terms(l, symbol)]
           h == HearAdds(t.heard, [i \in {id} |-> def])
           u == [t EXCEPT !.heard = h]
<1>1. Good(t) /\ DOMAIN t = DOMAIN s /\ symbol \in DOMAIN t.symbolToId
  BY CreateSecurityGood DEF Told
<1>2. /\ t.heard = s.heard
      /\ \/ t = s
         \/ \E i \in Ids : /\ i \notin DOMAIN s.securities
                           /\ t.securities = Put(s.securities, i, [symbol |-> symbol, status |-> "NULL"])
                           /\ t.symbolToId = Put(s.symbolToId, symbol, i)
  <2>1. CASE symbol \in DOMAIN s.symbolToId
    BY <2>1 DEF CreateSecurity
  <2>2. CASE symbol \notin DOMAIN s.symbolToId
    <3>1. Hash[symbol] \in Ids
      BY MessageProcessorAssumption DEF Ids
    <3>2. FirstFree(s, Hash[symbol]) \in Free(s)
      BY <2>2, <3>1, FirstFreeIsFree DEF CanCreate
    <3> DEFINE i == FirstFree(s, Hash[symbol])
    <3>3. i \in Ids /\ i \notin DOMAIN s.securities
      BY <3>2 DEF Free
    <3> HIDE DEF i
    <3>4. /\ t.heard = s.heard
          /\ t.securities = Put(s.securities, i, [symbol |-> symbol, status |-> "NULL"])
          /\ t.symbolToId = Put(s.symbolToId, symbol, i)
      BY <2>2 DEF CreateSecurity, AddSecurity, LinkSymbol, i, Told, Shaped, AllFields, Fields
    <3>5. QED
      BY <3>3, <3>4
  <2>3. QED
    BY <2>1, <2>2
<1> HIDE DEF t
<1>3. id \in DOMAIN t.securities /\ t.securities[id].symbol = symbol
  BY <1>1 DEF Good, Inverse, IdOf
<1>4. \A x \in DOMAIN t.securities \ {id} :
        x \in DOMAIN s.securities /\ t.securities[x] = s.securities[x]
  BY <1>1, <1>2 DEF IdOf, Put
<1>5. t.securities[id].status = "PENDING_SNAPSHOT" =>
        id \in DOMAIN s.securities /\ t.securities[id] = s.securities[id]
  <2>1. CASE t = s
    BY <1>3, <2>1
  <2>2. CASE \E i \in Ids : /\ t.securities = Put(s.securities, i, [symbol |-> symbol, status |-> "NULL"])
                           /\ t.symbolToId = Put(s.symbolToId, symbol, i)
    BY <2>2 DEF IdOf, Put
  <2>3. QED
    BY <1>2, <2>1, <2>2
<1>6. DOMAIN t.securities = DOMAIN s.securities \cup {id}
  BY <1>1, <1>2, <1>3 DEF IdOf, Put
<1> HIDE DEF id
<1>7. def.symbol = symbol
  OBVIOUS
<1> HIDE DEF def
<1>8. /\ DOMAIN h = DOMAIN s.heard
      /\ h.defs = [x \in DOMAIN s.heard.defs \cup {id} |-> IF x \in {id} THEN def ELSE s.heard.defs[x]]
      /\ h.status = s.heard.status /\ h.books = s.heard.books /\ h.stray = s.heard.stray
  BY <1>2 DEF HearAdds, Told, Shaped, HeardFields
<1> HIDE DEF h
<1>9. /\ DOMAIN u = DOMAIN s
      /\ u.securities = t.securities /\ u.symbolToId = t.symbolToId /\ u.heard = h
  BY <1>1 DEF Told, Shaped, AllFields, Fields
<1>10. /\ \A x \in DOMAIN u.securities \ {id} : StatusTold(u, x)
       /\ u.securities[id].status = "PENDING_SNAPSHOT" => StatusTold(u, id)
  <2> HIDE DEF u
  <2>1. ASSUME NEW x \in DOMAIN s.securities, t.securities[x] = s.securities[x]
        PROVE  StatusTold(u, x)
    BY <1>8, <1>9, <2>1 DEF Told, AllTold, StatusTold
  <2>2. ASSUME NEW x \in DOMAIN u.securities \ {id}
        PROVE  StatusTold(u, x)
    <3>1. x \in DOMAIN s.securities /\ t.securities[x] = s.securities[x]
      BY <1>4, <1>9
    <3>2. QED
      BY <2>1, <3>1
  <2>3. ASSUME u.securities[id].status = "PENDING_SNAPSHOT"
        PROVE  StatusTold(u, id)
    <3>1. id \in DOMAIN s.securities /\ t.securities[id] = s.securities[id]
      BY <1>5, <1>9, <2>3
    <3>2. QED
      BY <2>1, <3>1
  <2>4. QED
    BY <2>2, <2>3
<1>11. Good(u) /\ Shaped(u) /\ NoneStray(u)
  <2> HIDE DEF u
  <2>1. QED
    BY <1>1, <1>8, <1>9, SameMaps DEF Told, Shaped, NoneStray, AllFields
<1>12. DefsTold(u)
  <2> HIDE DEF u
  <2>1. DOMAIN h.defs = DOMAIN s.securities \cup {id}
    BY <1>8 DEF Told, DefsTold
  <2>2. h.defs[id].symbol = u.securities[id].symbol
    BY <1>3, <1>7, <1>8, <1>9
  <2>3. ASSUME NEW x \in DOMAIN u.securities \ {id}
        PROVE  h.defs[x].symbol = u.securities[x].symbol
    <3>1. x \in DOMAIN s.securities /\ u.securities[x] = s.securities[x]
      BY <1>4, <1>9
    <3>2. h.defs[x] = s.heard.defs[x]
      BY <1>8, <3>1 DEF Told, DefsTold
    <3>3. QED
      BY <3>1, <3>2 DEF Told, DefsTold
  <2>4. QED
    BY <1>6, <1>9, <2>1, <2>2, <2>3 DEF DefsTold
<1>13. id \in DOMAIN u.securities
  BY <1>3, <1>9
<1>14. OnInstrument(s, l, symbol) = UpdateSecurityStatus(u, {id}, "PENDING_SNAPSHOT")
  BY DEF OnInstrument, t, id, def, h
<1> HIDE DEF u
<1>15. Told(UpdateSecurityStatus(u, {id}, "PENDING_SNAPSHOT"))
  BY <1>10, <1>11, <1>12, <1>13, StatusChangeTold
<1>16. QED
  BY <1>14, <1>15

LEMMA OnListDoneTold == ASSUME NEW s, Told(s), NEW l PROVE Told(OnListDone(s, l))
<1> DEFINE t == [s EXCEPT !.pendingLists = @ \ {l}]
<1>1. Told(t)
  BY OtherFields
<1> HIDE DEF t
<1>2. Told(UpdateConnectionStatus(t, "ONLINE"))
  BY <1>1, OtherFields
<1>3. QED
  BY <1>1, <1>2 DEF OnListDone, FirstListDone, t

LEMMA OnSnapshotTold ==
  ASSUME NEW s, Told(s), NEW symbol, NEW entries PROVE Told(OnSnapshot(s, symbol, entries))
<1>1. CASE ~(IsRegistered(s, symbol) /\ entries \in {"book", "deep"})
  BY <1>1 DEF OnSnapshot
<1>2. CASE IsRegistered(s, symbol) /\ entries \in {"book", "deep"}
  <2> DEFINE id == IdOf(s, symbol)
             h == HearBook(s.heard, id)
             book == [s EXCEPT !.heard = h]
             rest == IF entries = "deep" THEN [book EXCEPT !.heard = HearUpdate(@, id)] ELSE book
  <2>1. id \in DOMAIN s.securities
    BY <1>2, RegisteredHasId
  <2> HIDE DEF id
  <2>2. /\ DOMAIN h = DOMAIN s.heard
        /\ h.defs = s.heard.defs /\ h.status = s.heard.status /\ h.stray = s.heard.stray
        /\ s.heard.books \subseteq h.books /\ id \in h.books
    <3> DEFINE g == [s.heard EXCEPT !.stray = s.heard.stray]
    <3>1. HearPrice(s.heard, id) = g
      BY <2>1, PriceTold
    <3>2. /\ DOMAIN g = DOMAIN s.heard
          /\ g.defs = s.heard.defs /\ g.status = s.heard.status
          /\ g.books = s.heard.books /\ g.stray = s.heard.stray
      BY DEF Told, Shaped, HeardFields
    <3>3. HeardFields \subseteq DOMAIN s.heard
      BY DEF Told, Shaped
    <3> HIDE DEF g
    <3>4. h = [g EXCEPT !.books = g.books \cup {id}]
      BY <3>1 DEF HearBook
    <3>5. QED
      BY <3>2, <3>3, <3>4 DEF HeardFields
  <2> HIDE DEF h
  <2>3. Told(book) /\ book.heard = h /\ book.securities = s.securities
    BY <2>2, MoreBooksTold
  <2> HIDE DEF book
  <2>4. HearUpdate(h, id) = [h EXCEPT !.stray = h.stray]
    BY <2>2 DEF HearUpdate, Placed, Told, NoneStray
  <2> DEFINE g == HearUpdate(h, id)
  <2>5. /\ DOMAIN g = DOMAIN book.heard
        /\ g.defs = book.heard.defs /\ g.status = book.heard.status /\ g.stray = book.heard.stray
        /\ book.heard.books \subseteq g.books /\ id \in g.books
    BY <2>2, <2>3, <2>4 DEF Told, Shaped, HeardFields
  <2>6. rest = IF entries = "deep" THEN [book EXCEPT !.heard = g] ELSE book
    BY <2>3
  <2> HIDE DEF g, rest
  <2>7. Told(rest) /\ id \in rest.heard.books /\ rest.securities = s.securities
    BY <2>2, <2>3, <2>5, <2>6, MoreBooksTold
  <2>8. Told(UpdateSecurityStatus(rest, {id}, "ONLINE"))
    BY <2>1, <2>7, StatusChangeTold DEF Told, AllTold
  <2>9. OnSnapshot(s, symbol, entries) = UpdateSecurityStatus(rest, {id}, "ONLINE")
    BY <1>2 DEF OnSnapshot, rest, g, book, h, id
  <2>10. QED
    BY <2>8, <2>9
<1>3. QED
  BY <1>1, <1>2

LEMMA OnIncrementTold ==
  ASSUME NEW s, Told(s), NEW symbol, NEW entry PROVE Told(OnIncrement(s, symbol, entry))
<1>1. CASE ~TakesUpdates(s, symbol)
  BY <1>1 DEF OnIncrement
<1>2. CASE TakesUpdates(s, symbol)
  <2> DEFINE id == IdOf(s, symbol)
  <2>1. id \in DOMAIN s.securities
    BY <1>2, RegisteredHasId DEF TakesUpdates
  <2>2. id \in s.heard.books
    BY <1>2, <2>1 DEF TakesUpdates, StatusOf, Told, AllTold, StatusTold
  <2> HIDE DEF id
  <2>3. HearTrade(s.heard, id) = [s.heard EXCEPT !.stray = s.heard.stray]
    BY <2>1, PriceTold DEF HearTrade
  <2>4. HearUpdate(s.heard, id) = [s.heard EXCEPT !.stray = s.heard.stray]
    BY <2>2 DEF HearUpdate, Placed, Told, NoneStray
  <2> DEFINE h == IF entry = "quote" THEN HearUpdate(s.heard, id) ELSE HearTrade(s.heard, id)
  <2>5. /\ DOMAIN h = DOMAIN s.heard
        /\ h.defs = s.heard.defs /\ h.status = s.heard.status /\ h.stray = s.heard.stray
        /\ s.heard.books \subseteq h.books
    BY <2>3, <2>4 DEF Told, Shaped, HeardFields
  <2>6. OnIncrement(s, symbol, entry) = [s EXCEPT !.heard = h]
    BY <1>2 DEF OnIncrement, id
  <2> HIDE DEF h
  <2>7. QED
    BY <2>5, <2>6, MoreBooksTold
<1>3. QED
  BY <1>1, <1>2

-----------------------------------------------------------------------------
(* One step per action.                                                    *)
LEMMA DeribitInvStep == DeribitInv /\ [Next]_vars => DeribitInv'
<1> SUFFICES ASSUME DeribitInv, [Next]_vars PROVE DeribitInv'
  OBVIOUS
<1> USE DEF DeribitInv
<1>1. CASE Logon
  <2>1. Told(OnLogon(md))
    BY OnLogonTold
  <2> HIDE DEF DeribitInv
  <2>2. Told(AddPendingLists(OnLogon(md), Requests))
    BY <2>1, OtherFields DEF AddPendingLists
  <2>3. QED
    BY <1>1, <2>2 DEF Logon, DeribitInv
<1>2. CASE Logout
  BY <1>2, InvalidateTold DEF Logout, SessionEnds, OnLogout
<1>3. CASE ConnectionBreaks
  BY <1>3 DEF ConnectionBreaks, SessionEnds
<1>4. ASSUME NEW request \in Requests, SecurityListArrives(request) PROVE DeribitInv'
  <2>1. AnswerOf[request] \subseteq Symbols
    BY DeribitMarketDataAssumption
  <2>2. md' = md /\ list'.todo \subseteq AnswerOf[request]
    BY <1>4 DEF SecurityListArrives
  <2>3. QED
    BY <2>1, <2>2
<1>5. CASE SecurityListDone
  <2>1. Told(md')
    BY <1>5, OnListDoneTold DEF SecurityListDone
  <2>2. QED
    BY <1>5, <2>1 DEF SecurityListDone, NoList
<1>6. ASSUME NEW symbol \in Symbols, Instrument(symbol) PROVE DeribitInv'
  <2>1. Told(md')
    BY <1>6, OnInstrumentTold DEF Instrument
  <2>2. list'.todo \subseteq Symbols
    BY <1>6 DEF Instrument
  <2>3. QED
    BY <2>1, <2>2
<1>7. ASSUME NEW symbol \in Symbols, NEW entries \in Snapshots, SnapshotArrives(symbol, entries)
      PROVE  DeribitInv'
  BY <1>7, OnSnapshotTold DEF SnapshotArrives
<1>8. ASSUME NEW symbol \in Symbols, NEW entry \in {"quote", "trade"}, IncrementArrives(symbol, entry)
      PROVE  DeribitInv'
  BY <1>8, OnIncrementTold DEF IncrementArrives
<1>9. ASSUME NEW symbol \in Symbols, Expires(symbol) PROVE DeribitInv'
  BY <1>9 DEF Expires
<1>10. CASE UNCHANGED vars
  BY <1>10 DEF vars
<1>11. QED
  BY <1>1, <1>2, <1>3, <1>4, <1>5, <1>6, <1>7, <1>8, <1>9, <1>10 DEF Next

LEMMA DeribitInvariant == Spec => []DeribitInv
<1>1. Init => DeribitInv
  BY InitTold DEF Init, DeribitInv, NoList
<1>2. QED
  BY <1>1, DeribitInvStep, PTL DEF Spec

(* For all instruments and hashes: the process finds every security by its *)
(* id and by its symbol, and no two share either.                          *)
THEOREM IdsAlwaysInverse == Spec => []IdsInverse
<1>1. DeribitInv => IdsInverse
  BY DEF DeribitInv, Told, Good, IdsInverse
<1>2. QED
  BY <1>1, DeribitInvariant, PTL

(* Consumers have the definitions of the securities there are, and no      *)
(* other, at every moment: in the middle of a list, after sessions that    *)
(* ended in a Logout and after those that just broke.                      *)
THEOREM DefinitionsAlwaysMatch == Spec => []DefinitionsMatch
<1>1. DeribitInv => DefinitionsMatch
  BY DEF DeribitInv, Told, DefsTold, DefinitionsMatch
<1>2. QED
  BY <1>1, DeribitInvariant, PTL

(* However the snapshots and updates of two subscriptions to one symbol    *)
(* come, and whatever an earlier session left: no update before its full   *)
(* book, and no price of a security that was taken away.                   *)
THEOREM PricesAlwaysInPlace == Spec => []PricesInPlace
<1>1. DeribitInv => PricesInPlace
  BY DEF DeribitInv, Told, NoneStray, PricesInPlace
<1>2. QED
  BY <1>1, DeribitInvariant, PTL
-----------------------------------------------------------------------------
(* What each message does to the connection status, the pending lists and  *)
(* the symbols that are registered.                                        *)
LEMMA StatusLeaves ==
  ASSUME NEW s, Shaped(s), NEW ids, NEW status
  PROVE  /\ UpdateSecurityStatus(s, ids, status).conn = s.conn
         /\ UpdateSecurityStatus(s, ids, status).pendingLists = s.pendingLists
         /\ UpdateSecurityStatus(s, ids, status).symbolToId = s.symbolToId
BY DEF UpdateSecurityStatus, SetStatus, Changed, Shaped, AllFields, Fields

LEMMA HeardLeaves ==
  ASSUME NEW s, Shaped(s), NEW h
  PROVE  /\ DOMAIN [s EXCEPT !.heard = h] = DOMAIN s
         /\ [s EXCEPT !.heard = h].heard = h
         /\ [s EXCEPT !.heard = h].conn = s.conn
         /\ [s EXCEPT !.heard = h].pendingLists = s.pendingLists
         /\ [s EXCEPT !.heard = h].symbolToId = s.symbolToId
BY DEF Shaped, AllFields, Fields

LEMMA ConnectionSet ==
  ASSUME NEW s, Shaped(s), NEW conn
  PROVE  /\ UpdateConnectionStatus(s, conn).conn = conn
         /\ UpdateConnectionStatus(s, conn).pendingLists = s.pendingLists
         /\ UpdateConnectionStatus(s, conn).symbolToId = s.symbolToId
BY DEF UpdateConnectionStatus, Shaped, AllFields, Fields

LEMMA ListsSet ==
  ASSUME NEW s, Shaped(s), NEW requests
  PROVE  /\ Shaped([s EXCEPT !.pendingLists = requests])
         /\ [s EXCEPT !.pendingLists = requests].pendingLists = requests
         /\ [s EXCEPT !.pendingLists = requests].conn = s.conn
         /\ [s EXCEPT !.pendingLists = requests].symbolToId = s.symbolToId
BY DEF Shaped, AllFields, Fields

LEMMA LogonStarts ==
  ASSUME NEW s, Told(s)
  PROVE  /\ AddPendingLists(OnLogon(s), Requests).conn = "STARTING"
         /\ AddPendingLists(OnLogon(s), Requests).pendingLists = Requests
<1> DEFINE t == IF s.conn = "ONLINE" THEN InvalidateState(s) ELSE s
           u == [t EXCEPT !.pendingLists = {}]
           v == UpdateConnectionStatus(u, "STARTING")
           w == [v EXCEPT !.pendingLists = v.pendingLists \cup Requests]
<1>1. Told(t)
  BY InvalidateTold
<1> HIDE DEF t
<1>2. Shaped(u) /\ u.pendingLists = {} /\ Told(u)
  BY <1>1, ListsSet, OtherFields DEF Told
<1> HIDE DEF u
<1>3. v.conn = "STARTING" /\ v.pendingLists = {} /\ Told(v)
  BY <1>2, ConnectionSet, OtherFields
<1> HIDE DEF v
<1>4. w.conn = v.conn /\ w.pendingLists = v.pendingLists \cup Requests
  BY <1>3, ListsSet DEF Told
<1> HIDE DEF w
<1>5. AddPendingLists(OnLogon(s), Requests) = w
  BY DEF AddPendingLists, OnLogon, t, u, v, w
<1>6. QED
  BY <1>3, <1>4, <1>5

LEMMA LogoutLeaves ==
  ASSUME NEW s, Told(s)
  PROVE  OnLogout(s).conn = "OFFLINE" /\ OnLogout(s).pendingLists = s.pendingLists
<1> DEFINE u == RemoveDefinitions(s, DOMAIN s.securities)
           v == UpdateSecurityStatus(u, DOMAIN u.securities, "OFFLINE")
           w == UpdateConnectionStatus(v, "OFFLINE")
<1>1. DOMAIN u = DOMAIN s /\ u.pendingLists = s.pendingLists
  BY HeardLeaves DEF RemoveDefinitions, Told
<1> HIDE DEF u
<1>2. DOMAIN v = DOMAIN u /\ v.pendingLists = u.pendingLists
  BY <1>1 DEF UpdateSecurityStatus, SetStatus, Changed, Told, Shaped, AllFields, Fields
<1> HIDE DEF v
<1>3. DOMAIN w = DOMAIN v /\ w.pendingLists = v.pendingLists /\ w.conn = "OFFLINE"
  BY <1>1, <1>2 DEF UpdateConnectionStatus, Told, Shaped, AllFields, Fields
<1> HIDE DEF w
<1>4. OnLogout(s) = [w EXCEPT !.securities = NoEntries, !.symbolToId = NoEntries]
  BY DEF OnLogout, InvalidateState, WithdrawAll, OfflineOnly, u, v, w
<1>5. QED
  BY <1>1, <1>2, <1>3, <1>4

LEMMA InstrumentLeaves ==
  ASSUME NEW s, Told(s), NEW l, NEW symbol \in Symbols, CanCreate(s, symbol)
  PROVE  /\ OnInstrument(s, l, symbol).conn = s.conn
         /\ OnInstrument(s, l, symbol).pendingLists = s.pendingLists
         /\ DOMAIN OnInstrument(s, l, symbol).symbolToId = DOMAIN s.symbolToId \cup {symbol}
<1> DEFINE t == CreateSecurity(s, symbol)
           id == IdOf(t, symbol)
           def == [symbol |-> symbol, marketSymbol |-> symbol, terms |-> Terms(l, symbol)]
           h == HearAdds(t.heard, [i \in {id} |-> def])
           u == [t EXCEPT !.heard = h]
           v == UpdateSecurityStatus(u, {id}, "PENDING_SNAPSHOT")
<1>1. /\ DOMAIN t = DOMAIN s /\ t.heard = s.heard
      /\ t.conn = s.conn /\ t.pendingLists = s.pendingLists
      /\ DOMAIN t.symbolToId = DOMAIN s.symbolToId \cup {symbol}
  <2>1. CASE symbol \in DOMAIN s.symbolToId
    BY <2>1 DEF CreateSecurity
  <2>2. CASE symbol \notin DOMAIN s.symbolToId
    BY <2>2 DEF CreateSecurity, AddSecurity, LinkSymbol, Put, Told, Shaped, AllFields, Fields
  <2>3. QED
    BY <2>1, <2>2
<1> HIDE DEF t
<1>2. Shaped(t)
  BY <1>1 DEF Told, Shaped
<1> HIDE DEF h
<1>3. /\ DOMAIN u = DOMAIN t
      /\ u.conn = t.conn /\ u.pendingLists = t.pendingLists /\ u.symbolToId = t.symbolToId
  BY <1>2, HeardLeaves
<1>4. OnInstrument(s, l, symbol) = v
  BY DEF OnInstrument, t, id, def, h
<1> HIDE DEF u, id
<1>5. v.conn = u.conn /\ v.pendingLists = u.pendingLists /\ v.symbolToId = u.symbolToId
  BY <1>2, <1>3 DEF UpdateSecurityStatus, SetStatus, Changed, Shaped, AllFields, Fields
<1> HIDE DEF v
<1>6. QED
  BY <1>1, <1>3, <1>4, <1>5

LEMMA ListDoneLeaves ==
  ASSUME NEW s, Told(s), NEW l
  PROVE  /\ OnListDone(s, l).pendingLists = s.pendingLists \ {l}
         /\ OnListDone(s, l).symbolToId = s.symbolToId
         /\ OnListDone(s, l).conn = IF s.pendingLists \ {l} = {} THEN "ONLINE" ELSE s.conn
<1> DEFINE t == [s EXCEPT !.pendingLists = s.pendingLists \ {l}]
<1>1. /\ Shaped(t) /\ t.pendingLists = s.pendingLists \ {l}
      /\ t.conn = s.conn /\ t.symbolToId = s.symbolToId
  BY ListsSet DEF Told
<1>2. OnListDone(s, l) = IF s.pendingLists \ {l} = {} THEN UpdateConnectionStatus(t, "ONLINE") ELSE t
  BY DEF OnListDone, FirstListDone
<1> HIDE DEF t
<1>3. QED
  BY <1>1, <1>2, ConnectionSet

LEMMA SnapshotLeaves ==
  ASSUME NEW s, Told(s), NEW symbol, NEW entries
  PROVE  /\ OnSnapshot(s, symbol, entries).conn = s.conn
         /\ OnSnapshot(s, symbol, entries).pendingLists = s.pendingLists
         /\ OnSnapshot(s, symbol, entries).symbolToId = s.symbolToId
<1> DEFINE id == IdOf(s, symbol)
           h == HearBook(s.heard, id)
           book == [s EXCEPT !.heard = h]
           g == HearUpdate(book.heard, id)
           deep == [book EXCEPT !.heard = g]
           rest == IF entries = "deep" THEN deep ELSE book
           t == UpdateSecurityStatus(rest, {id}, "ONLINE")
<1> HIDE DEF h
<1>1. /\ DOMAIN book = DOMAIN s /\ book.conn = s.conn
      /\ book.pendingLists = s.pendingLists /\ book.symbolToId = s.symbolToId
  BY HeardLeaves DEF Told
<1> HIDE DEF book, g
<1>2. /\ DOMAIN deep = DOMAIN book /\ deep.conn = book.conn
      /\ deep.pendingLists = book.pendingLists /\ deep.symbolToId = book.symbolToId
  BY <1>1 DEF Told, Shaped, AllFields, Fields
<1>3. OnSnapshot(s, symbol, entries) \in {s, t}
  BY DEF OnSnapshot, book, h, g
<1> HIDE DEF deep
<1>4. /\ DOMAIN rest = DOMAIN s /\ rest.conn = s.conn
      /\ rest.pendingLists = s.pendingLists /\ rest.symbolToId = s.symbolToId
  BY <1>1, <1>2
<1> HIDE DEF rest, id
<1>5. t.conn = s.conn /\ t.pendingLists = s.pendingLists /\ t.symbolToId = s.symbolToId
  BY <1>4 DEF UpdateSecurityStatus, SetStatus, Changed, Told, Shaped, AllFields, Fields
<1>6. QED
  BY <1>3, <1>5

LEMMA IncrementLeaves ==
  ASSUME NEW s, Told(s), NEW symbol, NEW entry
  PROVE  /\ OnIncrement(s, symbol, entry).conn = s.conn
         /\ OnIncrement(s, symbol, entry).pendingLists = s.pendingLists
         /\ OnIncrement(s, symbol, entry).symbolToId = s.symbolToId
BY HeardLeaves DEF OnIncrement, Told

-----------------------------------------------------------------------------
(* ONLINE means complete.  The list in hand counts as pending until its    *)
(* loop is over, and what a list asked for is registered or still in its   *)
(* loop.                                                                   *)
ListTyped == list \in [of : Requests \cup {"none"}, todo : SUBSET Symbols]

OthersTyped ==
  /\ session \in {"up", "down"}
  /\ due \subseteq Symbols /\ streaming \subseteq Symbols /\ listed \subseteq Symbols
  /\ losses \in 0 .. MaxLosses
  /\ announced \subseteq Symbols /\ hollow \subseteq Symbols

Lists ==
  /\ md.conn \in Connections
  /\ md.pendingLists \subseteq Requests
  /\ unanswered \subseteq Requests
  /\ list # NoList => list.of \in Requests /\ list.of \notin unanswered
  /\ session = "down" => list = NoList /\ unanswered = {}

Pending ==
  session = "up" =>
    /\ unanswered \subseteq md.pendingLists
    /\ list # NoList => list.of \in md.pendingLists
    /\ md.conn = "ONLINE" => md.pendingLists = {}

Announced ==
  session = "up" => announced \subseteq DOMAIN md.symbolToId \cup list.todo

ListInv == DeribitInv /\ ListTyped /\ OthersTyped /\ Lists /\ Pending /\ Announced

LEMMA ListTypedStep == DeribitInv /\ ListTyped /\ OthersTyped /\ [Next]_vars => ListTyped'
<1> SUFFICES ASSUME DeribitInv, ListTyped, OthersTyped, [Next]_vars PROVE ListTyped'
  OBVIOUS
<1>1. ASSUME list' = NoList PROVE ListTyped'
  BY <1>1 DEF ListTyped, NoList
<1>2. ASSUME list' = list PROVE ListTyped'
  BY <1>2 DEF ListTyped
<1>3. ASSUME NEW request \in Requests, SecurityListArrives(request) PROVE ListTyped'
  <2>1. AnswerOf[request] \subseteq Symbols
    BY DeribitMarketDataAssumption
  <2>2. PICK answer \in {AnswerOf[request] \cap listed} :
          list' = [of |-> request, todo |-> {symbol \in answer : Wanted(request, symbol)}]
    BY <1>3 DEF SecurityListArrives
  <2> DEFINE todo == {symbol \in answer : Wanted(request, symbol)}
  <2>3. todo \in SUBSET Symbols
    BY <2>1
  <2> HIDE DEF todo
  <2>4. list' = [of |-> request, todo |-> todo]
    BY <2>2 DEF todo
  <2>5. QED
    BY <2>3, <2>4 DEF ListTyped
<1>4. ASSUME NEW symbol \in Symbols, Instrument(symbol) PROVE ListTyped'
  <2>1. list' = [list EXCEPT !.todo = list.todo \ {symbol}]
    BY <1>4 DEF Instrument
  <2>2. list.todo \ {symbol} \in SUBSET Symbols
    BY DEF ListTyped
  <2>3. QED
    BY <2>1, <2>2 DEF ListTyped
<1>5. CASE Logon
  BY <1>2, <1>5 DEF Logon
<1>6. CASE Logout \/ ConnectionBreaks
  BY <1>2, <1>6 DEF Logout, ConnectionBreaks, SessionEnds
<1>7. CASE SecurityListDone
  BY <1>1, <1>7 DEF SecurityListDone
<1>8. ASSUME NEW symbol \in Symbols, NEW entries, SnapshotArrives(symbol, entries) PROVE ListTyped'
  BY <1>2, <1>8 DEF SnapshotArrives
<1>9. ASSUME NEW symbol \in Symbols, NEW entry, IncrementArrives(symbol, entry) PROVE ListTyped'
  BY <1>2, <1>9 DEF IncrementArrives
<1>10. CASE (\E symbol \in Symbols : Expires(symbol)) \/ UNCHANGED vars
  BY <1>2, <1>10 DEF Expires, vars
<1>11. QED
  BY <1>3, <1>4, <1>5, <1>6, <1>7, <1>8, <1>9, <1>10 DEF Next

LEMMA OthersTypedStep == ListTyped /\ OthersTyped /\ [Next]_vars => OthersTyped'
<1> SUFFICES ASSUME ListTyped, OthersTyped, [Next]_vars PROVE OthersTyped'
  OBVIOUS
<1> USE DEF OthersTyped
<1>1. CASE Logon
  BY <1>1 DEF Logon
<1>2. CASE Logout \/ ConnectionBreaks
  <2>1. /\ losses < MaxLosses /\ losses' = losses + 1 /\ session' = "down"
        /\ due' = {} /\ streaming' = {}
        /\ UNCHANGED <<listed, announced, hollow>>
    BY <1>2 DEF Logout, ConnectionBreaks, SessionEnds
  <2>2. losses' \in 0 .. MaxLosses
    BY <2>1, DeribitMarketDataAssumption
  <2>3. QED
    BY <2>1, <2>2
<1>3. ASSUME NEW request \in Requests, SecurityListArrives(request) PROVE OthersTyped'
  <2>1. PICK answer \in {AnswerOf[request] \cap listed} :
          /\ due' = due \cup {symbol \in answer : Subscribed(request, symbol)}
          /\ list'.todo \subseteq answer
    BY <1>3 DEF SecurityListArrives
  <2>2. announced' = announced \cup list'.todo /\ UNCHANGED <<session, streaming, listed, losses, hollow>>
    BY <1>3 DEF SecurityListArrives
  <2>3. QED
    BY <2>1, <2>2
<1>4. CASE SecurityListDone \/ (\E symbol \in Symbols : Instrument(symbol)) \/ UNCHANGED vars
  BY <1>4 DEF SecurityListDone, Instrument, vars, exchangeVars, historyVars
<1>5. ASSUME NEW symbol \in Symbols, NEW entries, SnapshotArrives(symbol, entries) PROVE OthersTyped'
  BY <1>5 DEF SnapshotArrives
<1>6. ASSUME NEW symbol \in Symbols, NEW entry, IncrementArrives(symbol, entry) PROVE OthersTyped'
  BY <1>6 DEF IncrementArrives, exchangeVars, historyVars
<1>7. CASE \E symbol \in Symbols : Expires(symbol)
  BY <1>7 DEF Expires, historyVars
<1>8. QED
  BY <1>1, <1>2, <1>3, <1>4, <1>5, <1>6, <1>7 DEF Next

LEMMA ListInvStep == ListInv /\ [Next]_vars => ListInv'
<1> SUFFICES ASSUME ListInv, [Next]_vars PROVE (Lists /\ Pending /\ Announced)'
  BY DeribitInvStep, ListTypedStep, OthersTypedStep DEF ListInv
<1> USE DEF ListInv
<1>0. Told(md)
  BY DEF DeribitInv
<1>1. CASE Logon
  <2>1. md'.conn = "STARTING" /\ md'.pendingLists = Requests
    BY <1>0, <1>1, LogonStarts DEF Logon
  <2>2. list = NoList /\ list' = NoList /\ unanswered' = Requests /\ announced' = {}
    BY <1>1 DEF Logon, Lists
  <2>3. session' = "up"
    BY <1>1 DEF Logon
  <2>4. QED
    BY <2>1, <2>2, <2>3 DEF Lists, Pending, Announced, Connections
<1>2. CASE Logout \/ ConnectionBreaks
  <2>1. session' = "down" /\ list' = NoList /\ unanswered' = {}
    BY <1>2 DEF Logout, ConnectionBreaks, SessionEnds
  <2>2. md'.pendingLists = md.pendingLists /\ md'.conn \in {"OFFLINE", md.conn}
    BY <1>0, <1>2, LogoutLeaves DEF Logout, ConnectionBreaks
  <2>3. QED
    BY <2>1, <2>2 DEF Lists, Pending, Announced, Connections
<1>3. ASSUME NEW request \in Requests, SecurityListArrives(request)
      PROVE  (Lists /\ Pending /\ Announced)'
  <2>1. /\ list = NoList /\ request \in unanswered /\ unanswered' = unanswered \ {request}
        /\ list'.of = request /\ announced' = announced \cup list'.todo
        /\ UNCHANGED <<md, session>>
    BY <1>3 DEF SecurityListArrives
  <2>2. list.todo = {}
    BY <2>1 DEF NoList
  <2>3. session = "down" => list' = NoList
    <3>1. session = "down" => unanswered = {}
      BY DEF Lists
    <3>2. QED
      BY <2>1, <3>1
  <2>4. QED
    BY <2>1, <2>2, <2>3 DEF Lists, Pending, Announced
<1>4. CASE SecurityListDone
  <2>1. /\ list # NoList /\ list.todo = {} /\ md' = OnListDone(md, list.of) /\ list' = NoList
        /\ UNCHANGED <<session, unanswered, announced>>
    BY <1>4 DEF SecurityListDone, exchangeVars, historyVars
  <2>2. /\ md'.pendingLists = md.pendingLists \ {list.of}
        /\ md'.symbolToId = md.symbolToId
        /\ md'.conn = IF md.pendingLists \ {list.of} = {} THEN "ONLINE" ELSE md.conn
    BY <1>0, <2>1, ListDoneLeaves
  <2>3. list'.todo = {}
    BY <2>1 DEF NoList
  <2>4. Lists'
    BY <2>1, <2>2 DEF Lists, Connections
  <2>5. Pending'
    BY <2>1, <2>2 DEF Lists, Pending
  <2>6. Announced'
    BY <2>1, <2>2, <2>3 DEF Announced
  <2>7. QED
    BY <2>4, <2>5, <2>6
<1>5. ASSUME NEW symbol \in Symbols, Instrument(symbol) PROVE (Lists /\ Pending /\ Announced)'
  <2>1. /\ symbol \in list.todo /\ list' = [list EXCEPT !.todo = @ \ {symbol}]
        /\ md' = OnInstrument(md, list.of, symbol) /\ CanCreate(md, symbol)
        /\ UNCHANGED <<session, unanswered, announced>>
    BY <1>5 DEF Instrument, exchangeVars, historyVars
  <2>2. /\ md'.conn = md.conn /\ md'.pendingLists = md.pendingLists
        /\ DOMAIN md'.symbolToId = DOMAIN md.symbolToId \cup {symbol}
    BY <1>0, <2>1, InstrumentLeaves
  <2>3. list # NoList
    BY <2>1 DEF NoList
  <2>4. list'.of = list.of /\ list'.todo = list.todo \ {symbol}
    BY <2>1 DEF ListTyped
  <2>5. QED
    BY <2>1, <2>2, <2>3, <2>4 DEF Lists, Pending, Announced
<1>6. ASSUME NEW symbol \in Symbols, NEW entries \in Snapshots, SnapshotArrives(symbol, entries)
      PROVE  (Lists /\ Pending /\ Announced)'
  <2>1. md' = OnSnapshot(md, symbol, entries) /\ UNCHANGED <<list, session, unanswered, announced>>
    BY <1>6 DEF SnapshotArrives
  <2>2. md'.conn = md.conn /\ md'.pendingLists = md.pendingLists /\ md'.symbolToId = md.symbolToId
    BY <1>0, <2>1, SnapshotLeaves
  <2>3. QED
    BY <2>1, <2>2 DEF Lists, Pending, Announced
<1>7. ASSUME NEW symbol \in Symbols, NEW entry \in {"quote", "trade"}, IncrementArrives(symbol, entry)
      PROVE  (Lists /\ Pending /\ Announced)'
  <2>1. md' = OnIncrement(md, symbol, entry) /\ UNCHANGED <<list, session, unanswered, announced>>
    BY <1>7 DEF IncrementArrives, exchangeVars, historyVars
  <2>2. md'.conn = md.conn /\ md'.pendingLists = md.pendingLists /\ md'.symbolToId = md.symbolToId
    BY <1>0, <2>1, IncrementLeaves
  <2>3. QED
    BY <2>1, <2>2 DEF Lists, Pending, Announced
<1>8. CASE (\E symbol \in Symbols : Expires(symbol)) \/ UNCHANGED vars
  BY <1>8 DEF Expires, Lists, Pending, Announced, vars, exchangeVars, historyVars
<1>9. QED
  BY <1>1, <1>2, <1>3, <1>4, <1>5, <1>6, <1>7, <1>8 DEF Next

LEMMA InitListInv == Init => ListInv
<1> SUFFICES ASSUME Init PROVE ListInv
  OBVIOUS
<1>1. DeribitInv
  BY InitTold DEF Init, DeribitInv, NoList
<1>2. ListTyped
  BY DEF Init, ListTyped, NoList
<1>3. OthersTyped
  BY DeribitMarketDataAssumption DEF Init, OthersTyped
<1>4. Lists /\ Pending /\ Announced
  BY DEF Init, Lists, Pending, Announced, DeribitInit, Connections, NoList
<1>5. QED
  BY <1>1, <1>2, <1>3, <1>4 DEF ListInv

(* The processor's maps, the list in hand and the session keep their       *)
(* types, for any instruments and however often sessions end.              *)
THEOREM TypeCorrect == Spec => []TypeOK
<1>1. ListInv => TypeOK
  <2> SUFFICES ASSUME ListInv PROVE TypeOK
    OBVIOUS
  <2>1. ProcessorTypeOK(md)
    BY DEF ListInv, DeribitInv, Told, Good, Lists, ProcessorTypeOK, Securities
  <2>2. DeribitTypeOK(md) /\ unanswered \subseteq Requests
    BY <2>1 DEF ListInv, Lists, DeribitTypeOK
  <2>3. QED
    BY <2>2 DEF ListInv, ListTyped, OthersTyped, TypeOK
<1>2. QED
  BY <1>1, InitListInv, ListInvStep, PTL DEF Spec

(* However the answers to the requests of a session come, and whatever is  *)
(* defined in the midst of them: while the session is up, ONLINE means     *)
(* that nothing is left to answer, and that consumers have the definition  *)
(* of everything the answers were to define.                               *)
THEOREM OnlineMeansComplete == Spec => []OnlineIsComplete
<1>1. Init => ListInv
  BY InitListInv
<1>2. ListInv => OnlineIsComplete
  <2> SUFFICES ASSUME ListInv, session = "up", md.conn = "ONLINE"
               PROVE  /\ unanswered = {}
                      /\ \A symbol \in announced :
                           IsRegistered(md, symbol) /\ IdOf(md, symbol) \in DOMAIN md.heard.defs
    BY DEF OnlineIsComplete
  <2>1. Told(md)
    BY DEF ListInv, DeribitInv
  <2>2. unanswered = {} /\ list = NoList
    BY DEF ListInv, Pending
  <2>3. list.todo = {}
    BY <2>2 DEF NoList
  <2>4. announced \subseteq DOMAIN md.symbolToId
    BY <2>3 DEF ListInv, Announced
  <2>5. \A symbol \in announced : IsRegistered(md, symbol)
    BY <2>4 DEF IsRegistered
  <2>6. \A symbol \in announced : IdOf(md, symbol) \in DOMAIN md.securities
    BY <2>1, <2>5, RegisteredHasId
  <2>7. QED
    BY <2>1, <2>2, <2>5, <2>6 DEF Told, DefsTold
<1>3. QED
  BY <1>1, <1>2, ListInvStep, PTL DEF Spec
=============================================================================
