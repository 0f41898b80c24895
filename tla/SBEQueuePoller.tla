--------------------------- MODULE SBEQueuePoller ---------------------------
(***************************************************************************)
(* SBEQueuePoller in live mode: one consumer of an SBE queue, in a process *)
(* of its own.  next() looks at the files in several separate system calls *)
(* and memory accesses, each of which is a step here; the producer may     *)
(* move between any two of them.  The mappings are shared, so a read       *)
(* through one sees the file as it is at that moment.                      *)
(***************************************************************************)
EXTENDS SBEFiles

VARIABLES
  step,           (* where next() is: "idle" between two calls, or the      *)
                  (* access it does next; "dead" after a fault              *)
  isValid,        (* m_isValid                                              *)
  filePosition,   (* m_filePosition                                         *)
  fileSize,       (* m_fileSize, the size of the data mapping; 0 = none     *)
  indexFileSize,  (* m_indexFileSize, in entries; 0 = no index mapping      *)
  committedEnd,   (* m_committedEnd                                         *)
  session,        (* history: the generation of the queue (0 for none) of   *)
                  (* the message last read at position 0                    *)
  delivered       (* history: what the listener was given since then        *)

pollerVars == <<step, isValid, filePosition, fileSize, indexFileSize,
                committedEnd, session, delivered>>

(* What the listener gets when the bytes at filePosition are not the       *)
(* message that was written there.                                         *)
Garbage == [id |-> 0, size |-> 0]

Reported == Message \cup {Garbage}

PollerTypeOK ==
  /\ step \in {"idle", "mapData", "mapIndex", "refresh", "check", "remap", "copy", "dead"}
  /\ isValid \in BOOLEAN
  /\ filePosition \in Nat
  /\ fileSize \in Nat
  /\ indexFileSize \in Nat
  /\ committedEnd \in Nat
  /\ session \in Nat
  /\ delivered \in Seq(Reported)

PollerInit ==
  /\ step = "idle"
  /\ isValid = FALSE
  /\ filePosition = 0
  /\ fileSize = 0
  /\ indexFileSize = 0
  /\ committedEnd = 0
  /\ session = 0
  /\ delivered = <<>>

-----------------------------------------------------------------------------
(* next() is called.  Without a mapping it looks whether the data file has *)
(* anything in it, as readFrom does, ...                                   *)
CallNext ==
  /\ step = "idle"
  /\ isValid \/ fileFlushed > 0
  /\ step' = IF isValid THEN "refresh" ELSE "mapData"
  /\ UNCHANGED <<isValid, filePosition, fileSize, indexFileSize, committedEnd,
                 session, delivered>>

(* ... and returns false if not.                                           *)
NothingThere ==
  /\ step = "idle"
  /\ ~isValid /\ fileFlushed = 0
  /\ UNCHANGED pollerVars

(* initializeFileMapping, the data file.  Mapping an empty file throws:    *)
(* closeResources, and next() returns.                                     *)
MapData ==
  /\ step = "mapData"
  /\ fileFlushed > 0
  /\ fileSize' = fileFlushed
  /\ filePosition' = 0
  /\ step' = "mapIndex"
  /\ UNCHANGED <<isValid, indexFileSize, committedEnd, session, delivered>>

MapDataFails ==
  /\ step = "mapData"
  /\ fileFlushed = 0
  /\ indexFileSize' = 0
  /\ committedEnd' = 0
  /\ step' = "idle"
  /\ UNCHANGED <<isValid, filePosition, fileSize, session, delivered>>

(* initializeFileMapping, the index file, if it has an entry.  next() goes *)
(* on to fillBuffer; a reset inside fillBuffer returns if there is nothing *)
(* to read and goes on with it otherwise.                                  *)
MapIndex ==
  /\ step = "mapIndex"
  /\ IF indexFlushed > 0
     THEN indexFileSize' = indexFlushed /\ committedEnd' = LastIndexEntry
     ELSE UNCHANGED <<indexFileSize, committedEnd>>
  /\ isValid' = TRUE
  /\ step' = CASE ~isValid -> "refresh"
               [] isValid /\ committedEnd' = 0 -> "idle"
               [] isValid /\ committedEnd' # 0 -> "remap"
  /\ UNCHANGED <<filePosition, fileSize, session, delivered>>

(* refreshCommittedEnd: a shorter index means the producer restarted; a    *)
(* longer one is mapped again; then the last mapped entry is read.  The    *)
(* mutant overlooks the shorter index.                                     *)
LongerIndexEnd ==
  IF indexFlushed > indexFileSize THEN LastIndexEntry ELSE committedEnd

IndexEnd ==
  CASE indexFlushed < indexFileSize -> 0
    [] indexFlushed >= indexFileSize /\ indexFlushed > 0 -> LastIndexEntry
    [] indexFlushed >= indexFileSize /\ indexFlushed = 0 -> committedEnd

RefreshCommittedEnd ==
  /\ step = "refresh"
  /\ indexFileSize' = IF indexFlushed < indexFileSize THEN 0 ELSE indexFlushed
  /\ committedEnd' = IndexEnd
  /\ step' = "check"
  /\ UNCHANGED <<isValid, filePosition, fileSize, session, delivered>>

(* fillBuffer's test for a restarted producer; the mutant also takes a     *)
(* fully read queue for one.                                               *)
TruncatedOrRead == committedEnd <= filePosition

Truncated == committedEnd < filePosition

Reset ==
  /\ step = "check"
  /\ Truncated
  /\ fileSize' = 0
  /\ filePosition' = 0
  /\ step' = CASE fileFlushed > 0 -> "mapData"
               [] fileFlushed = 0 /\ committedEnd = 0 -> "idle"
               [] fileFlushed = 0 /\ committedEnd > 0 -> "remap"
  /\ UNCHANGED <<isValid, indexFileSize, committedEnd, session, delivered>>

NoReset ==
  /\ step = "check"
  /\ ~Truncated
  /\ step' = "remap"
  /\ UNCHANGED <<isValid, filePosition, fileSize, indexFileSize, committedEnd,
                 session, delivered>>

(* The data file is mapped again when committed data lies past the         *)
(* mapping (the mutant maps it once); mapping an empty file throws out of  *)
(* next().                                                                 *)
MappedOnce == fileSize = 0

NeedsRemap == committedEnd > fileSize

AfterRemap == IF filePosition >= committedEnd THEN "idle" ELSE "copy"

Remap ==
  /\ step = "remap"
  /\ NeedsRemap => fileFlushed > 0
  /\ fileSize' = IF NeedsRemap THEN fileFlushed ELSE fileSize
  /\ step' = AfterRemap
  /\ UNCHANGED <<isValid, filePosition, indexFileSize, committedEnd, session,
                 delivered>>

RemapFails ==
  /\ step = "remap"
  /\ NeedsRemap
  /\ fileFlushed = 0
  /\ step' = "dead"
  /\ UNCHANGED <<isValid, filePosition, fileSize, indexFileSize, committedEnd,
                 session, delivered>>

-----------------------------------------------------------------------------
(* The memcpy of fillBuffer and the rest of next(): decode the header,     *)
(* check that the whole message is there, deliver it and move on.  The     *)
(* mutant's buffer is smaller than the writer's.                           *)
ShorterBuffer == BufferSize - 1

BufferLength == BufferSize

Least(a, b) == IF a <= b THEN a ELSE b

Available == Least(committedEnd - filePosition, BufferLength)

Here == file[filePosition + 1]

InFile == filePosition < fileFlushed

(* Header and lengths of a message start at filePosition.                  *)
AtMessage == InFile /\ Here.at = 1

(* All its cells are in the file and are still its own.                    *)
Intact ==
  /\ filePosition + Here.msg.size <= fileFlushed
  /\ \A k \in 1 .. Here.msg.size :
       file[filePosition + k] = [msg |-> Here.msg, at |-> k]

Deliver(m, length, generationNow) ==
  /\ filePosition' = filePosition + length
  /\ IF filePosition = 0
     THEN session' = generationNow /\ delivered' = <<m>>
     ELSE session' = session /\ delivered' = Append(delivered, m)
  /\ step' = "idle"
  /\ UNCHANGED <<isValid, fileSize, indexFileSize, committedEnd>>

(* The message fits in what was copied: dispatch it.                       *)
ReadMessage(generationNow) ==
  /\ step = "copy"
  /\ AtMessage
  /\ Here.msg.size <= Available
  /\ Deliver(IF Intact THEN Here.msg ELSE Garbage, Here.msg.size, generationNow)

(* It does not: handleBufferTooSmall, next() returns false.                *)
BufferTooSmall ==
  /\ step = "copy"
  /\ InFile
  /\ AtMessage => Here.msg.size > Available
  /\ step' = "idle"
  /\ UNCHANGED <<isValid, filePosition, fileSize, indexFileSize, committedEnd,
                 session, delivered>>

(* The bytes at filePosition are the middle of a message: whatever lengths *)
(* they spell are believed.                                                *)
ReadMiddle(generationNow) ==
  /\ step = "copy"
  /\ InFile /\ ~AtMessage
  /\ \E length \in 1 .. Available : Deliver(Garbage, length, generationNow)

(* The copy runs past the mapping or past the end of the file: it faults   *)
(* (SIGBUS) where that is another page ...                                 *)
CopyFaults ==
  /\ step = "copy"
  /\ filePosition + Available > Least(fileSize, fileFlushed)
  /\ step' = "dead"
  /\ UNCHANGED <<isValid, filePosition, fileSize, indexFileSize, committedEnd,
                 session, delivered>>

(* ... and finds the zeros that fill up the last page where it is not: a   *)
(* header with template 0 and block length 0, which next() skips.          *)
SkipZeros ==
  /\ step = "copy"
  /\ ~InFile
  /\ filePosition' = filePosition + 1
  /\ step' = "idle"
  /\ UNCHANGED <<isValid, fileSize, indexFileSize, committedEnd, session,
                 delivered>>

(* The consumer process is started again.                                  *)
PollerRestart ==
  /\ step = "dead"
  /\ step' = "idle"
  /\ isValid' = FALSE
  /\ filePosition' = 0
  /\ fileSize' = 0
  /\ indexFileSize' = 0
  /\ committedEnd' = 0
  /\ session' = 0
  /\ delivered' = <<>>

(* next(), from any point of it, against the files of generation g.        *)
PollerStep(g) ==
  \/ CallNext \/ NothingThere \/ MapData \/ MapDataFails \/ MapIndex \/ RefreshCommittedEnd
  \/ Reset \/ NoReset \/ Remap \/ RemapFails
  \/ ReadMessage(g) \/ BufferTooSmall \/ ReadMiddle(g) \/ CopyFaults \/ SkipZeros
=============================================================================
