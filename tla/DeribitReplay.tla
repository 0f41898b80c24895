---------------------------- MODULE DeribitReplay ----------------------------
(***************************************************************************)
(* A replay of Deribit data: DeribitPersister records the messages of its  *)
(* FIX sessions, and MarketdataHistoricalRunner reads them into a          *)
(* DeribitMessageProcessor, by way of FileMessageProcessor, whose fast     *)
(* paths do what the processor does.                                       *)
(*                                                                         *)
(* The processor is prepared from the last Logon of the previous day's     *)
(* file to its end, with its output off, or else by the first Logon.       *)
(***************************************************************************)
EXTENDS DeribitMessageProcessor, HistoricalRunner

LOCAL Sets == INSTANCE FiniteSetsExt
LOCAL Seqs == INSTANCE SequencesExt

CONSTANTS
  AnswerOf,    (* the symbols in the answer to each request                 *)
  MaxTroubles  (* bound: sessions that break, and restarts of the persister *)

ASSUME DeribitReplayAssumption ==
  /\ AnswerOf \in [Requests -> SUBSET Symbols]
  /\ MaxTroubles \in Nat

VARIABLES
  session,      (* the persister's session: up or down                      *)
  unsent,       (* the requests of getSymbols it has still to send          *)
  unanswered,   (* those sent and not answered                              *)
  due,          (* symbols subscribed to whose snapshot has not come        *)
  streaming,    (* symbols it has come of                                   *)
  troubles,     (* history: for the bound                                   *)
  hasSeenLogon  (* m_hasSeenLogon                                           *)

persisterVars == <<session, unsent, unanswered, due, streaming, troubles>>

vars == <<recordVars, md, stage, optionVars, currentDate, pos, persisterVars, hasSeenLogon>>

Line(type) == [type |-> type]
Of(type, list) == [type |-> type, list |-> list]
Snapshot(symbol, entries) == [type |-> "Snapshot", symbol |-> symbol, entries |-> entries]
Increment(symbol, entry) == [type |-> "Increment", symbol |-> symbol, entry |-> entry]

Lines ==
  {Line("Logon"), Line("Logout")}
    \cup [type : {"Request", "List"}, list : Requests]
    \cup [type : {"Snapshot"}, symbol : Symbols, entries : Snapshots]
    \cup [type : {"Increment"}, symbol : Symbols, entry : {"quote", "trade"}]

(* What is compared with the live processor: whether it passed on a price  *)
(* of the line, and which securities its consumers have, on which terms.   *)
Passes(s, line) ==
  \/ line.type = "Snapshot" /\ line.entries \in {"book", "deep"} /\ IsRegistered(s, line.symbol)
  \/ line.type = "Increment" /\ TakesUpdates(s, line.symbol)

TermsDefined(s) ==
  {[symbol |-> s.heard.defs[id].symbol, terms |-> s.heard.defs[id].terms] : id \in DOMAIN s.heard.defs}

Marks ==
  [passed : BOOLEAN, defined : SUBSET [symbol : Symbols, terms : {"SPOT", "LINEAR", "INVERSE"}]]

Init ==
  /\ RunnerInit
  /\ live = DeribitInit /\ md = DeribitInit
  /\ session = "down" /\ unsent = {} /\ unanswered = {} /\ due = {} /\ streaming = {}
  /\ troubles = 0
  /\ hasSeenLogon = FALSE

TypeOK ==
  /\ RunnerTypeOK(Lines, Marks)
  /\ DeribitTypeOK(live) /\ DeribitTypeOK(md)
  /\ session \in {"up", "down"}
  /\ unsent \subseteq Requests /\ unanswered \subseteq Requests
  /\ due \subseteq Symbols /\ streaming \subseteq Symbols
  /\ troubles \in 0 .. MaxTroubles
  /\ hasSeenLogon \in BOOLEAN

-----------------------------------------------------------------------------
(* DeribitPersister: messages are recorded as they come and before they    *)
(* are sent.  What a live processor makes of each is DeribitMarketData's.  *)
Records(line, s) ==
  WriteToLog(line, s, [passed |-> Passes(live, line), defined |-> TermsDefined(s)])

OnList(s, list) ==
  OnListDone(Sets!FoldSet(LAMBDA symbol, t : OnInstrument(t, list, symbol), s,
                          {symbol \in AnswerOf[list] : Wanted(list, symbol)}), list)

RecordLogon ==
  /\ session = "down"
  /\ Records(Line("Logon"), OnLogon(live))
  /\ session' = "up" /\ unsent' = Requests
  /\ UNCHANGED <<unanswered, due, streaming, troubles, hasSeenLogon>>

(* getSymbols sends its requests one by one, in an order of its own.       *)
RecordRequest(list) ==
  /\ list \in unsent /\ list = CHOOSE next \in unsent : TRUE
  /\ Records(Of("Request", list), AddPendingLists(live, {list}))
  /\ unsent' = unsent \ {list}
  /\ unanswered' = unanswered \cup {list}
  /\ UNCHANGED <<session, due, streaming, troubles, hasSeenLogon>>

RecordList(list) ==
  /\ unsent = {} /\ list \in unanswered
  /\ Records(Of("List", list), OnList(live, list))
  /\ unanswered' = unanswered \ {list}
  /\ due' = due \cup {symbol \in AnswerOf[list] : ~NotForPerpOnly(list, symbol) /\ ~OtherSpot(symbol)}
  /\ UNCHANGED <<session, unsent, streaming, troubles, hasSeenLogon>>

RecordSnapshot(symbol, entries) ==
  /\ symbol \in due
  /\ Records(Snapshot(symbol, entries), OnSnapshot(live, symbol, entries))
  /\ due' = due \ {symbol} /\ streaming' = streaming \cup {symbol}
  /\ UNCHANGED <<session, unsent, unanswered, troubles, hasSeenLogon>>

RecordIncrement(symbol, entry) ==
  /\ symbol \in streaming
  /\ Records(Increment(symbol, entry), OnIncrement(live, symbol, entry))
  /\ UNCHANGED <<persisterVars, hasSeenLogon>>

SessionOver ==
  /\ session = "up"
  /\ session' = "down"
  /\ unsent' = {} /\ unanswered' = {} /\ due' = {} /\ streaming' = {}
  /\ UNCHANGED hasSeenLogon

RecordLogout ==
  /\ unsent = {}
  /\ SessionOver
  /\ Records(Line("Logout"), OnLogout(live))
  /\ UNCHANGED troubles

(* A connection that breaks leaves no line, nor does a persister that dies *)
(* with the live processor.                                                *)
SessionBreaks ==
  /\ stage = "recording"
  /\ troubles < MaxTroubles
  /\ troubles' = troubles + 1
  /\ SessionOver
  /\ live' \in {live, DeribitInit}
  /\ UNCHANGED <<files, today, md, stage, optionVars, currentDate, pos>>

-----------------------------------------------------------------------------
(* FileMessageProcessor: everything before the first Logon is passed over. *)
(* A recorded request is awaited (the mutant overlooks it).                *)
RequestIgnored(s, list) == s

OnRequest(s, list) == AddPendingLists(s, {list})

(* The processor's own handlers, once more, on text.                       *)
ProcessSnapshotFast(s, line) == OnSnapshot(s, line.symbol, line.entries)

ProcessIncrementalFast(s, line) == OnIncrement(s, line.symbol, line.entry)

Process(s, line) ==
  CASE line.type = "Logon" -> OnLogon(s)
    [] line.type = "Logout" -> OnLogout(s)
    [] line.type = "Request" -> OnRequest(s, line.list)
    [] line.type = "List" -> OnList(s, line.list)
    [] line.type = "Snapshot" -> ProcessSnapshotFast(s, line)
    [] line.type = "Increment" -> ProcessIncrementalFast(s, line)

(* With the output off a snapshot takes its security ONLINE, whatever is   *)
(* in it, and increments are passed over (the mutant: both are).           *)
SnapshotIgnored(s, symbol) == s

SilentSnapshot(s, symbol) ==
  IF IsRegistered(s, symbol) THEN UpdateSecurityStatus(s, {IdOf(s, symbol)}, "ONLINE") ELSE s

Silently(s, line) ==
  [CASE line.type = "Snapshot" -> SilentSnapshot(s, line.symbol)
     [] line.type = "Increment" -> s
     [] OTHER -> Process(s, line)
   EXCEPT !.heard = s.heard]

-----------------------------------------------------------------------------
(* The runner: from the last Logon of the day before, ...                  *)
Logons(entries) == {i \in DOMAIN entries : entries[i].line.type = "Logon"}

Primed(entries) ==
  Seqs!FoldLeft(LAMBDA s, entry : Silently(s, entry.line), md,
                SubSeq(entries, Sets!Max(Logons(entries)), Len(entries)))

PrimeFromPrevious ==
  /\ stage = "priming"
  /\ IF PreviousDate \in DOMAIN files /\ Logons(files[PreviousDate]) # {}
     THEN /\ PrimesWith(Primed(files[PreviousDate]))
          /\ hasSeenLogon' = TRUE
     ELSE Exit /\ UNCHANGED hasSeenLogon
  /\ UNCHANGED persisterVars

(* ... line by line.                                                       *)
ReadLine ==
  /\ stage = "reading" /\ pos < Len(files[currentDate])
  /\ hasSeenLogon' = (hasSeenLogon \/ NextEntry.line.type = "Logon")
  /\ ReadsLine(IF hasSeenLogon' THEN Process(md, NextEntry.line) ELSE md)
  /\ UNCHANGED persisterVars

-----------------------------------------------------------------------------
Persister ==
  \/ RecordLogon \/ RecordLogout
  \/ \E list \in Requests : RecordRequest(list) \/ RecordList(list)
  \/ \E symbol \in Symbols :
       \/ \E entries \in Snapshots : RecordSnapshot(symbol, entries)
       \/ \E entry \in {"quote", "trade"} : RecordIncrement(symbol, entry)
  \/ SessionBreaks
  \/ Midnight /\ UNCHANGED <<persisterVars, hasSeenLogon>>

Runner ==
  \/ Start /\ UNCHANGED <<persisterVars, hasSeenLogon>>
  \/ PrimeFromPrevious
  \/ OpensWith(md) /\ UNCHANGED <<persisterVars, hasSeenLogon>>
  \/ NoFile /\ UNCHANGED <<persisterVars, hasSeenLogon>>
  \/ ReadLine
  \/ FileDone /\ UNCHANGED <<persisterVars, hasSeenLogon>>

Next == Persister \/ Runner

Spec == Init /\ [][Next]_vars

-----------------------------------------------------------------------------
(* Whatever day a replay starts on, and whether it is primed or waits for  *)
(* the first Logon: from then on it passes on the prices of every line     *)
(* that a live processor passed them on of, sessions that break and        *)
(* persisters that die included.                                           *)
PricesAsLive ==
  stage = "reading" /\ pos < Len(files[currentDate]) /\ hasSeenLogon =>
    (NextEntry.live.passed => Passes(md, NextEntry.line))

(* In a replay of everything, consumers have every definition, on the same *)
(* terms, that they had of a live processor after the same line.           *)
DefinedAsLive ==
  stage = "reading" /\ pos > 0 /\ fromStart /\ startDate = FirstDate =>
    files[currentDate][pos].live.defined \subseteq TermsDefined(md)
=============================================================================
