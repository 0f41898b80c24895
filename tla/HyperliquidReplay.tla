-------------------------- MODULE HyperliquidReplay --------------------------
(***************************************************************************)
(* A replay of Hyperliquid data: HyperliquidPersister records, and         *)
(* HyperliquidHistoricalRunner reads what was recorded into a              *)
(* HyperliquidMessageProcessor, by way of HyperliquidFileMessageProcessor. *)
(*                                                                         *)
(* The processor is prepared from a connect and the metadata after it,     *)
(* with its output off: those of the previous day's file, or those of the  *)
(* first file that has a connect, which is then read from its beginning.   *)
(*                                                                         *)
(* A live processor ignores data that are older than the connect before    *)
(* them; in historical mode, as here, they are taken.  The line says which *)
(* they are.                                                               *)
(***************************************************************************)
EXTENDS HyperliquidMessageProcessor, HistoricalRunner

LOCAL Sets == INSTANCE FiniteSetsExt
LOCAL Seqs == INSTANCE SequencesExt

CONSTANTS
  Dex,         (* the metadata request that lists each perpetual: metaAsync() *)
               (* or metaAsync("xyz")                                        *)
  MaxRestarts  (* bound: restarts of the persister                           *)

Requests == {"meta", "xyz", "outcomeMeta"}

ASSUME HyperliquidReplayAssumption ==
  Dex \in [Perps -> {"meta", "xyz"}] /\ MaxRestarts \in Nat

VARIABLES
  ws,           (* the persister's websocket: up or down                    *)
  asked,        (* its metadata requests under way                          *)
  subscribed,   (* the coins the exchange sends data of                     *)
  restarts,     (* how often it was started anew                            *)
  primed,       (* statePrimed                                              *)
  announced,    (* history: coins of the metadata read since the last        *)
                (* connect, with the output on                              *)
  ahead         (* history: coins of which a book was read that a live      *)
                (* processor ignores, and none since that it takes          *)

persisterVars == <<ws, asked, subscribed, restarts>>

replayVars == <<primed, announced, ahead>>

vars == <<recordVars, md, stage, optionVars, currentDate, pos, persisterVars, replayVars>>

Line(type) == [type |-> type]
Meta(type, coins) == [type |-> type, coins |-> coins]
Data(type, coin, stale) == [type |-> type, coin |-> coin, stale |-> stale]
Book(coin, priced, stale) ==
  [type |-> "l2Book", coin |-> coin, priced |-> priced, stale |-> stale]

MetaTypes == {"universe", "outcomes"}
DataTypes == {"l2Book", "bbo", "trades"}

Lines ==
  {Line("connect"), Line("disconnect")}
    \cup [type : MetaTypes, coins : SUBSET Symbols]
    \cup [type : {"bbo", "trades"}, coin : Symbols, stale : BOOLEAN]
    \cup [type : {"l2Book"}, coin : Symbols, priced : BOOLEAN, stale : BOOLEAN]

(* What is compared with the live processor: the securities' status, and   *)
(* which of them consumers have a definition of.                           *)
DefinedBy(s) == {s.heard.defs[id].marketSymbol : id \in DOMAIN s.heard.defs}

MarkOf(s) ==
  [status |-> [coin \in DOMAIN s.symbolToId |-> StatusOf(s, IdOf(s, coin))], defined |-> DefinedBy(s)]

Marks == [status : UNION {[C -> Statuses] : C \in SUBSET Symbols}, defined : SUBSET Symbols]

Init ==
  /\ RunnerInit
  /\ live = HyperliquidInit /\ md = HyperliquidInit
  /\ ws = "down" /\ asked = {} /\ subscribed = {} /\ restarts = 0
  /\ primed = FALSE /\ announced = {} /\ ahead = {}

TypeOK ==
  /\ RunnerTypeOK(Lines, Marks)
  /\ HyperliquidTypeOK(live) /\ HyperliquidTypeOK(md)
  /\ ws \in {"up", "down"} /\ asked \subseteq Requests /\ subscribed \subseteq Symbols
  /\ restarts \in 0 .. MaxRestarts
  /\ primed \in BOOLEAN /\ announced \subseteq Symbols /\ ahead \subseteq Symbols
  /\ stage = "reading" => primed

-----------------------------------------------------------------------------
(* HyperliquidFileMessageProcessor: what a line does to the processor.     *)
Process(s, line, late) ==
  CASE line.type = "connect" -> OnConnected(s)
    [] line.type = "disconnect" -> OnDisconnected(s)
    [] line.type \in MetaTypes -> Sets!FoldSet(LAMBDA coin, t : Register(t, coin), s, line.coins)
    [] line.type = "l2Book" ->
         IF IsRegistered(s, line.coin) THEN OnL2Book(s, line.coin, line.priced, late) ELSE s
    [] line.type = "bbo" -> OnBbo(s, line.coin)
    [] line.type = "trades" -> OnTrade(s, line.coin)

MayBeLate(s, line) == line.type = "l2Book" /\ s.pendingSecDefs # NoEntries

(* setShouldOutput(false): nothing is written, and an outcome that is not  *)
(* defined is not remembered.                                              *)
Silently(s, line) ==
  LET t == Process(s, line, FALSE)
  IN  [t EXCEPT !.heard = s.heard,
                !.activeOutcomes = IF line.type = "l2Book" THEN s.activeOutcomes ELSE @]

-----------------------------------------------------------------------------
(* HyperliquidPersister.  The live processor removes, with a book, the     *)
(* outcomes that have expired, and does nothing else with stale data; the  *)
(* clock counts days.                                                      *)
IsStale(line) == line.type \in DataTypes /\ line.stale

Now == Cardinality(DOMAIN files \cup {today})

Records(line) ==
  \E late \in BOOLEAN :
    LET s == IF line.type = "l2Book" THEN RemoveExpiredOutcomes(live, Now) ELSE live
        t == IF IsStale(line) THEN s ELSE Process(s, line, late)
    IN  /\ late => MayBeLate(s, line) /\ ~IsStale(line)
        /\ WriteToLog(line, t, MarkOf(t))

RecordConnect ==
  /\ ws = "down"
  /\ Records(Line("connect"))
  /\ ws' = "up" /\ asked' = Requests
  /\ UNCHANGED <<subscribed, restarts, replayVars>>

RecordDisconnect ==
  /\ ws = "up"
  /\ Records(Line("disconnect"))
  /\ ws' = "down" /\ subscribed' = {}
  /\ UNCHANGED <<asked, restarts, replayVars>>

(* An answer is recorded, and its coins are subscribed to.                 *)
Listed(r) ==
  IF r = "outcomeMeta" THEN {coin \in Outcomes : Now < Expiry[coin]}
                       ELSE {coin \in Perps : Dex[coin] = r}

RecordMeta(r) ==
  /\ r \in asked
  /\ Records(Meta(IF r = "outcomeMeta" THEN "outcomes" ELSE "universe", Listed(r)))
  /\ asked' = asked \ {r}
  /\ subscribed' = IF ws = "up" THEN subscribed \cup Listed(r) ELSE subscribed
  /\ UNCHANGED <<ws, restarts, replayVars>>

(* A confirmed subscription is recorded too; it is read like a best price  *)
(* that comes too early.                                                   *)
RecordData(coin, stale) ==
  /\ coin \in subscribed
  /\ \/ \E priced \in BOOLEAN : Records(Book(coin, priced, stale))
     \/ \E type \in {"bbo", "trades"} : Records(Data(type, coin, stale))
  /\ UNCHANGED <<persisterVars, replayVars>>

(* A persister that dies leaves no line; the file is appended to.          *)
PersisterRestarts ==
  /\ stage = "recording" /\ ws = "up" /\ restarts < MaxRestarts
  /\ restarts' = restarts + 1
  /\ live' = HyperliquidInit
  /\ ws' = "down" /\ asked' = {} /\ subscribed' = {}
  /\ UNCHANGED <<files, today, md, stage, optionVars, currentDate, pos, replayVars>>

-----------------------------------------------------------------------------
(* primeFromConnectSequence: from a connect to the first data line after   *)
(* some metadata.                                                          *)
Connects(entries) == {i \in DOMAIN entries : entries[i].line.type = "connect"}

PrimingEnd(entries, first) ==
  Sets!Min({Len(entries)} \cup
      {i \in first .. Len(entries) :
         /\ entries[i].line.type \in DataTypes
         /\ \E j \in first .. i : entries[j].line.type \in MetaTypes})

Primed(entries, first) ==
  Seqs!FoldLeft(LAMBDA s, entry : Silently(s, entry.line), md,
                SubSeq(entries, first, PrimingEnd(entries, first)))

PrimeFromPrevious ==
  /\ stage = "priming"
  /\ IF PreviousDate \in DOMAIN files /\ Connects(files[PreviousDate]) # {}
     THEN /\ PrimesWith(Primed(files[PreviousDate], Sets!Max(Connects(files[PreviousDate]))))
          /\ primed' = TRUE
     ELSE Exit /\ UNCHANGED primed
  /\ UNCHANGED <<announced, ahead, persisterVars>>

(* A file without a connect is passed over until the state is primed.      *)
OpenFile ==
  /\ IF primed THEN OpensWith(md)
     ELSE /\ FileDate \in DOMAIN files /\ Connects(files[FileDate]) # {}
          /\ OpensWith(Primed(files[FileDate], Sets!Min(Connects(files[FileDate]))))
  /\ primed' = TRUE
  /\ UNCHANGED <<announced, ahead, persisterVars>>

SkipFile ==
  /\ stage = "opening" /\ ~primed
  /\ FileDate \in DOMAIN files /\ Connects(files[FileDate]) = {}
  /\ currentDate' = [FileDate EXCEPT !.day = @ + 1]
  /\ UNCHANGED <<recordVars, md, stage, optionVars, pos, persisterVars, replayVars>>

(* The output is on again after priming (the mutant leaves it off).        *)
OutputLeftOff(line, late) == Silently(md, line)

Output(line, late) == Process(md, line, late)

Announced(line) ==
  CASE line.type \in MetaTypes -> announced \cup line.coins
    [] line.type \in {"connect", "disconnect"} -> {}
    [] OTHER -> announced

Ahead(line) ==
  CASE line.type \in MetaTypes -> ahead \ line.coins
    [] line.type = "l2Book" -> IF line.stale THEN ahead \cup {line.coin} ELSE ahead \ {line.coin}
    [] OTHER -> ahead

(* drainTimedOutSecDefs looks at the clock of the replay.                  *)
ReadLine(late) ==
  /\ stage = "reading" /\ pos < Len(files[currentDate])
  /\ late => MayBeLate(md, NextEntry.line)
  /\ ReadsLine(Output(NextEntry.line, late))
  /\ announced' = Announced(NextEntry.line) /\ ahead' = Ahead(NextEntry.line)
  /\ UNCHANGED <<primed, persisterVars>>

-----------------------------------------------------------------------------
Persister ==
  \/ RecordConnect \/ RecordDisconnect
  \/ \E r \in Requests : RecordMeta(r)
  \/ \E coin \in Symbols, stale \in BOOLEAN : RecordData(coin, stale)
  \/ PersisterRestarts
  \/ Midnight /\ UNCHANGED <<persisterVars, replayVars>>

Runner ==
  \/ Start /\ UNCHANGED <<persisterVars, replayVars>>
  \/ PrimeFromPrevious
  \/ OpenFile
  \/ SkipFile
  \/ NoFile /\ UNCHANGED <<persisterVars, replayVars>>
  \/ \E late \in BOOLEAN : ReadLine(late)
  \/ FileDone /\ UNCHANGED <<persisterVars, replayVars>>

Next == Persister \/ Runner

Spec == Init /\ [][Next]_vars

-----------------------------------------------------------------------------
(* Once a replay has read metadata of a connection, it knows their coins   *)
(* whenever a live processor knew them at the same line, with the same     *)
(* status, and of those ONLINE and defined, consumers have the definition  *)
(* from the replay too.  What the replay was primed with, restarts of the  *)
(* persister and expired outcomes make no difference, but two things do.   *)
(* Stale books, which only the replay takes: a coin may be ONLINE there    *)
(* that live still waited for, until the next book that is not stale.  And *)
(* an empty first book, with which the replay gives up the definition of a *)
(* perpetual: live may have sent it ten seconds after the metadata by its  *)
(* own clock, or ignored that book as stale and sent it with the next.     *)
SecuritiesAsLive ==
  stage = "reading" /\ pos > 0 =>
    LET mark == files[currentDate][pos].live
    IN  \A coin \in announced \cap DOMAIN mark.status :
          /\ IsRegistered(md, coin)
          /\ LET status == StatusOf(md, IdOf(md, coin))
             IN  \/ status = mark.status[coin]
                 \/ coin \in ahead /\ status = "ONLINE" /\ mark.status[coin] = "PENDING_SNAPSHOT"
          /\ mark.status[coin] = "ONLINE" /\ coin \in mark.defined =>
               coin \in DefinedBy(md) \cup md.dropped
=============================================================================
