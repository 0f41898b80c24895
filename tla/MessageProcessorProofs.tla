----------------------- MODULE MessageProcessorProofs -----------------------
(***************************************************************************)
(* Lemmas about MessageProcessor: whatever it does to its maps of          *)
(* securities, ids and symbols go on naming each other, however many       *)
(* symbols hash to the same id.                                            *)
(***************************************************************************)
EXTENDS MessageProcessor, TLAPS, WellFoundedInduction

Fields == {"securities", "symbolToId"}

Securities == [symbol : Symbols, status : Statuses]

Good(s) ==
  /\ Fields \subseteq DOMAIN s
  /\ IsMap(s.securities, Ids, Securities)
  /\ IsMap(s.symbolToId, Symbols, Ids)
  /\ Inverse(s)

(* What leaves the two maps alone leaves them good.                        *)
LEMMA SameMaps ==
  ASSUME NEW s, NEW t, Good(s), Fields \subseteq DOMAIN t,
         t.securities = s.securities, t.symbolToId = s.symbolToId
  PROVE  Good(t)
BY DEF Good, Inverse

-----------------------------------------------------------------------------
(* The loop of createSecurity ends at an id that is not taken, if there is *)
(* one.                                                                    *)
LEMMA FirstFreeIsFree ==
  ASSUME NEW s, NEW hash \in Ids, Free(s) # {}
  PROVE  FirstFree(s, hash) \in Free(s)
<1> DEFINE T == {Distance(hash, id) : id \in Free(s)}
<1>1. \A id \in Free(s) : Distance(hash, id) \in Nat
  BY MessageProcessorAssumption DEF Free, Ids, Distance
<1>2. T \subseteq Nat /\ T # {}
  BY <1>1
<1>3. PICK d \in T : \A e \in T : <<e, d>> \notin OpToRel(<, Nat)
  BY <1>2, WFMin, NatLessThanWellFounded
<1>4. \A e \in T : d <= e
  <2>1. SUFFICES ASSUME NEW e \in T PROVE d <= e
    OBVIOUS
  <2>2. ~(e < d)
    BY <1>2, <1>3 DEF OpToRel
  <2> HIDE DEF T
  <2>3. QED  BY <1>2, <2>2
<1>5. \E id \in Free(s) : \A other \in Free(s) : Distance(hash, id) <= Distance(hash, other)
  BY <1>4
<1>6. QED
  BY <1>5 DEF FirstFree

(* ... which is the hash, if that is not taken.                            *)
LEMMA FirstFreeIsHash ==
  ASSUME NEW s, NEW hash \in Free(s) PROVE FirstFree(s, hash) = hash
<1>1. hash \in Ids /\ hash \in 1 .. MaxId /\ MaxId \in Nat \ {0}
  BY MessageProcessorAssumption DEF Free, Ids
<1>2. PICK id : id = FirstFree(s, hash)
  OBVIOUS
<1>3. \A other \in Free(s) : Distance(hash, other) \in Nat
  BY <1>1 DEF Free, Ids, Distance
<1>4. Distance(hash, hash) = 0
  BY <1>1 DEF Distance
<1>5. \A other \in Free(s) : Distance(hash, hash) <= Distance(hash, other)
  BY <1>3, <1>4
<1>6. id \in Free(s) /\ Distance(hash, id) <= Distance(hash, hash)
  BY <1>2, <1>5 DEF FirstFree
<1>7. id \in 1 .. MaxId /\ (id - hash) % MaxId = 0
  BY <1>3, <1>4, <1>6 DEF Free, Ids, Distance
<1>8. id = hash
  BY <1>1, <1>7, SMTT(30)
<1> QED
  BY <1>2, <1>8

(* createSecurity gives a symbol an id of its own, or the one it has.      *)
LEMMA CreateSecurityGood ==
  ASSUME NEW s, Good(s), NEW symbol \in Symbols, CanCreate(s, symbol)
  PROVE  /\ Good(CreateSecurity(s, symbol))
         /\ DOMAIN CreateSecurity(s, symbol) = DOMAIN s
         /\ symbol \in DOMAIN CreateSecurity(s, symbol).symbolToId
<1>1. CASE symbol \in DOMAIN s.symbolToId
  BY <1>1 DEF CreateSecurity
<1>2. CASE symbol \notin DOMAIN s.symbolToId
  <2> DEFINE id == FirstFree(s, Hash[symbol])
             t == CreateSecurity(s, symbol)
             new == [symbol |-> symbol, status |-> "NULL"]
  <2>1. Hash[symbol] \in Ids
    BY MessageProcessorAssumption DEF Ids
  <2>2. id \in Ids /\ id \notin DOMAIN s.securities
    BY <1>2, <2>1, FirstFreeIsFree DEF CanCreate, Free
  <2> HIDE DEF id
  <2>3. /\ DOMAIN t = DOMAIN s
        /\ t.securities = Put(s.securities, id, new)
        /\ t.symbolToId = Put(s.symbolToId, symbol, id)
    BY <1>2 DEF Good, CreateSecurity, AddSecurity, LinkSymbol, Fields, id
  <2> HIDE DEF t
  <2>4. new \in Securities /\ new.symbol = symbol
    BY DEF Securities, Statuses
  <2> HIDE DEF new
  <2>5. IsMap(t.securities, Ids, Securities) /\ IsMap(t.symbolToId, Symbols, Ids)
    BY <2>2, <2>3, <2>4 DEF Good, IsMap, Put
  <2>6. Inverse(t)
    BY <1>2, <2>2, <2>3, <2>4 DEF Good, Inverse, Put
  <2>7. Good(t) /\ symbol \in DOMAIN t.symbolToId
    BY <2>3, <2>5, <2>6 DEF Good, Put
  <2>8. QED
    BY <2>3, <2>7 DEF t
<1>3. QED
  BY <1>1, <1>2

(* A change of status is no change of names.                               *)
LEMMA UpdateSecurityStatusGood ==
  ASSUME NEW s, Good(s), NEW ids, NEW status \in Statuses
  PROVE  /\ Good(UpdateSecurityStatus(s, ids, status))
         /\ DOMAIN UpdateSecurityStatus(s, ids, status) = DOMAIN s
<1> DEFINE t == UpdateSecurityStatus(s, ids, status)
<1>1. /\ DOMAIN t = DOMAIN s
      /\ t.symbolToId = s.symbolToId
      /\ DOMAIN t.securities = DOMAIN s.securities
  BY DEF Good, UpdateSecurityStatus, SetStatus, Fields
<1>2. ASSUME NEW id \in DOMAIN s.securities
      PROVE  /\ t.securities[id] \in Securities
             /\ t.securities[id].symbol = s.securities[id].symbol
  <2>1. s.securities[id] \in Securities
    BY <1>2 DEF Good, IsMap
  <2>2. \/ t.securities[id] = s.securities[id]
        \/ t.securities[id] = [s.securities[id] EXCEPT !.status = status]
    BY <1>2 DEF Good, UpdateSecurityStatus, SetStatus, Fields
  <2>3. QED
    BY <2>1, <2>2 DEF Securities
<1> HIDE DEF t
<1>3. IsMap(t.securities, Ids, Securities) /\ IsMap(t.symbolToId, Symbols, Ids) /\ Inverse(t)
  BY <1>1, <1>2 DEF Good, IsMap, Inverse
<1>4. Good(t) /\ DOMAIN t = DOMAIN s
  BY <1>1, <1>3 DEF Good
<1>5. QED
  BY <1>4 DEF t

(* A connection status leaves the maps alone.                              *)
LEMMA UpdateConnectionStatusGood ==
  ASSUME NEW s, Good(s), NEW conn
  PROVE  /\ Good(UpdateConnectionStatus(s, conn))
         /\ DOMAIN UpdateConnectionStatus(s, conn) = DOMAIN s
BY SameMaps DEF UpdateConnectionStatus, Good, Fields

(* removeSecurity takes the symbol of every security with it.              *)
LEMMA RemoveSecurityGood ==
  ASSUME NEW s, Good(s), NEW ids
  PROVE  /\ Good(RemoveSecurity(s, ids))
         /\ DOMAIN RemoveSecurity(s, ids) = DOMAIN s
<1> DEFINE t == RemoveSecurity(s, ids)
           gone == {s.securities[id].symbol : id \in ids \cap DOMAIN s.securities}
<1>1. /\ DOMAIN t = DOMAIN s
      /\ t.securities = Erase(s.securities, ids)
      /\ t.symbolToId = Erase(s.symbolToId, gone)
  BY DEF Good, RemoveSecurity, RemoveById, RemoveDefinitions, Fields
<1> HIDE DEF t
<1>2. IsMap(t.securities, Ids, Securities) /\ IsMap(t.symbolToId, Symbols, Ids)
  BY <1>1 DEF Good, IsMap, Erase
<1>3. ASSUME NEW c \in DOMAIN t.symbolToId
      PROVE  t.symbolToId[c] \in DOMAIN t.securities /\ t.securities[t.symbolToId[c]].symbol = c
  BY <1>1 DEF Good, Inverse, Erase
<1>4. ASSUME NEW id \in DOMAIN t.securities
      PROVE  /\ t.securities[id].symbol \in DOMAIN t.symbolToId
             /\ t.symbolToId[t.securities[id].symbol] = id
  BY <1>1 DEF Good, Inverse, Erase
<1>5. Good(t) /\ DOMAIN t = DOMAIN s
  BY <1>1, <1>2, <1>3, <1>4 DEF Good, Inverse
<1>6. QED
  BY <1>5 DEF t

(* invalidateState leaves both maps empty.                                 *)
LEMMA InvalidateStateGood ==
  ASSUME NEW s, Good(s)
  PROVE  /\ Good(InvalidateState(s))
         /\ DOMAIN InvalidateState(s) = DOMAIN s
<1> DEFINE t == InvalidateState(s)
<1>1. DOMAIN t = DOMAIN s /\ t.securities = NoEntries /\ t.symbolToId = NoEntries
  BY DEF Good, InvalidateState, WithdrawAll, OfflineOnly, RemoveDefinitions,
         UpdateSecurityStatus, SetStatus, UpdateConnectionStatus, Fields
<1>2. QED
  BY <1>1 DEF Good, NoEntries, IsMap, Inverse
=============================================================================
