-------------------------- MODULE MessageProcessor --------------------------
(***************************************************************************)
(* MessageProcessor, the base of both market data processors: which        *)
(* securities there are, under which ids, and their status.  The state is  *)
(* a record s, of which these fields belong to the base class:             *)
(*                                                                         *)
(*   securities        m_securities: id -> [symbol, status]                *)
(*   symbolToId        m_symbolToSecurityId                                *)
(*   conn              m_lastConnectionStatus                              *)
(*   heard             what the messages written so far told a consumer    *)
(*                                                                         *)
(* The queue takes every message (SBEQueue says when it does not), and     *)
(* m_shouldOutput is true, as it is in the live applications.              *)
(***************************************************************************)
EXTENDS RefDataHolder, Integers

CONSTANTS
  Symbols,   (* what createSecurity can be asked for                        *)
  MaxId,     (* ids are 1 .. MaxId; 2^31 - 1 in the code                    *)
  Hash       (* hashSecurityId                                              *)

ASSUME MessageProcessorAssumption ==
  /\ MaxId \in Nat \ {0}
  /\ Hash \in [Symbols -> 1 .. MaxId]

Ids == 1 .. MaxId

Statuses == {"NULL", "PENDING_SNAPSHOT", "ONLINE", "OFFLINE"}

Connections == {"NULL", "STARTING", "ONLINE", "OFFLINE"}

ProcessorTypeOK(s) ==
  /\ IsMap(s.securities, Ids, [symbol : Symbols, status : Statuses])
  /\ IsMap(s.symbolToId, Symbols, Ids)
  /\ s.conn \in Connections

-----------------------------------------------------------------------------
(* createSecurity's loop: it tries the hash and the ids after it, MaxId    *)
(* being followed by 1, until it finds one that is not taken.  The first   *)
(* mutant does not look, the second does not come back to 1.               *)
Free(s) == Ids \ DOMAIN s.securities

Distance(from, to) == (to - from) % MaxId

HashAlone(s, hash) == hash

FirstAbove(s, hash) ==
  CHOOSE id \in hash .. 2 * MaxId :
    id \notin DOMAIN s.securities /\ hash .. id - 1 \subseteq DOMAIN s.securities

FirstFree(s, hash) ==
  CHOOSE id \in Free(s) : \A other \in Free(s) : Distance(hash, id) <= Distance(hash, other)

(* createSecurity: the security, then its symbol; there must be an id      *)
(* left, or its loop does not end.                                         *)
CanCreate(s, symbol) == symbol \in DOMAIN s.symbolToId \/ Free(s) # {}

AddSecurity(s, id, symbol) ==
  [s EXCEPT !.securities = Put(@, id, [symbol |-> symbol, status |-> "NULL"])]

LinkSymbol(s, id, symbol) == [s EXCEPT !.symbolToId = Put(@, symbol, id)]

CreateSecurity(s, symbol) ==
  IF symbol \in DOMAIN s.symbolToId THEN s
  ELSE LET id == FirstFree(s, Hash[symbol])
       IN  LinkSymbol(AddSecurity(s, id, symbol), id, symbol)

IsRegistered(s, symbol) == symbol \in DOMAIN s.symbolToId

(* getSecurityId of a registered symbol                                    *)
IdOf(s, symbol) == s.symbolToId[symbol]

StatusOf(s, id) == IF id \in DOMAIN s.securities THEN s.securities[id].status ELSE "NULL"

(* updateSecurityStatus, for a set of ids: an unknown security and one     *)
(* that has the status already are passed over; the others get it, and     *)
(* then a message is written.                                              *)
Changed(s, ids, status) == {id \in ids \cap DOMAIN s.securities : s.securities[id].status # status}

SetStatus(s, ids, status) ==
  LET old == s.securities
      changed == Changed(s, ids, status)
  IN  [s EXCEPT !.securities = [id \in DOMAIN old |->
                                  IF id \in changed THEN [old[id] EXCEPT !.status = status]
                                                    ELSE old[id]]]

UpdateSecurityStatus(s, ids, status) ==
  [SetStatus(s, ids, status) EXCEPT !.heard = HearStatus(@, Changed(s, ids, status), status)]

UpdateConnectionStatus(s, conn) ==
  [s EXCEPT !.conn = conn, !.heard = HearConnection(@, conn)]

RemoveDefinitions(s, ids) == [s EXCEPT !.heard = HearRemove(@, ids)]

(* removeSecurity, for a set of ids.  The mutant forgets the security and  *)
(* not its symbol.                                                         *)
RemoveById(s, ids) ==
  [RemoveDefinitions(s, ids) EXCEPT !.securities = Erase(s.securities, ids)]

RemoveSecurity(s, ids) ==
  [RemoveById(s, ids) EXCEPT
     !.symbolToId =
        Erase(s.symbolToId, {s.securities[id].symbol : id \in ids \cap DOMAIN s.securities})]

(* invalidateState: every security is told OFFLINE and withdrawn (the      *)
(* mutant does not withdraw them), and then both maps are cleared.         *)
OfflineOnly(s) ==
  UpdateConnectionStatus(UpdateSecurityStatus(s, DOMAIN s.securities, "OFFLINE"), "OFFLINE")

WithdrawAll(s) == OfflineOnly(RemoveDefinitions(s, DOMAIN s.securities))

InvalidateState(s) ==
  [WithdrawAll(s) EXCEPT !.securities = NoEntries, !.symbolToId = NoEntries]

-----------------------------------------------------------------------------
(* Symbols and ids name each other: no two securities share an id, and     *)
(* none is left that cannot be found.                                      *)
Inverse(s) ==
  /\ \A c \in DOMAIN s.symbolToId :
       s.symbolToId[c] \in DOMAIN s.securities /\ s.securities[s.symbolToId[c]].symbol = c
  /\ \A id \in DOMAIN s.securities :
       /\ s.securities[id].symbol \in DOMAIN s.symbolToId
       /\ s.symbolToId[s.securities[id].symbol] = id
=============================================================================
