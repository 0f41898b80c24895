--------------------------- MODULE SBEBinaryWriter ---------------------------
(***************************************************************************)
(* SBEBinaryWriter: the producer's side of an SBE queue.  Several threads  *)
(* of one process encode into one shared buffer_ and append it to the      *)
(* queue; writeMutex_ is taken by prepareMessage and given back by         *)
(* writeMessage.  A message becomes visible to other processes in two      *)
(* steps: the data is flushed, then the index entry.                       *)
(***************************************************************************)
EXTENDS SBEFiles

CONSTANTS
  Threads,         (* threads of the producer that write to the queue       *)
  NoThread,        (* the mutex is free                                     *)
  MaxGenerations   (* bound: how often openNewFile truncates the queue      *)

ASSUME SBEBinaryWriterAssumption ==
  /\ NoThread \notin Threads
  /\ MaxGenerations \in Nat \ {0}

VARIABLES
  producer,    (* "up", "down" (process gone) or "truncated": openNewFile   *)
               (* has truncated messages.sbe and not yet the index          *)
  writeMutex,  (* the thread that holds writeMutex_, or NoThread            *)
  pc,          (* where each thread is between prepareMessage and the end   *)
               (* of writeMessage                                           *)
  intent,      (* the message each thread was last asked to write           *)
  buffer,      (* buffer_: the message encoded in it, or Blank              *)
  fileGood,    (* file_.good()                                              *)
  indexGood,   (* indexFile_.good()                                         *)
  prepared,    (* how many messages were prepared so far                    *)
  generation,  (* history: how many times the queue was created             *)
  accepted     (* history: the messages written to file_ in this generation *)

writerVars == <<producer, writeMutex, pc, intent, buffer, fileGood, indexGood,
                prepared, generation, accepted>>

(* The memset of prepareMessage leaves no message in buffer_.              *)
Blank == [id |-> 0, size |-> 0]

WriterTypeOK ==
  /\ producer \in {"up", "down", "truncated"}
  /\ writeMutex \in Threads \cup {NoThread}
  /\ pc \in [Threads -> {"idle", "encoding", "encoded", "flushData", "flushIndex"}]
  /\ intent \in [Threads -> Message \cup {Blank}]
  /\ buffer \in Message \cup {Blank}
  /\ fileGood \in BOOLEAN
  /\ indexGood \in BOOLEAN
  /\ prepared \in 0 .. MaxMessages
  /\ generation \in 1 .. MaxGenerations
  /\ accepted \in Seq(Message)

WriterInit ==
  /\ producer = "up"
  /\ writeMutex = NoThread
  /\ pc = [t \in Threads |-> "idle"]
  /\ intent = [t \in Threads |-> Blank]
  /\ buffer = Blank
  /\ fileGood = TRUE
  /\ indexGood = TRUE
  /\ prepared = 0
  /\ generation = 1
  /\ accepted = <<>>

-----------------------------------------------------------------------------
(* prepareMessage blocks until the mutex is free.  The mutant does not     *)
(* wait.                                                                   *)
MutexIgnored == TRUE

MutexFree == writeMutex = NoThread

(* prepareMessage: take the lock, clear buffer_, wrap the message.         *)
PrepareMessage(t) ==
  /\ producer = "up"
  /\ pc[t] = "idle"
  /\ MutexFree
  /\ prepared < MaxMessages
  /\ writeMutex' = t
  /\ buffer' = Blank
  /\ prepared' = prepared + 1
  /\ \E s \in Sizes : intent' = [intent EXCEPT ![t] = [id |-> prepared + 1, size |-> s]]
  /\ pc' = [pc EXCEPT ![t] = "encoding"]
  /\ UNCHANGED <<producer, fileGood, indexGood, generation, accepted, fileVars>>

(* The caller's field setters write through to buffer_.                    *)
Encode(t) ==
  /\ pc[t] = "encoding"
  /\ buffer' = intent[t]
  /\ pc' = [pc EXCEPT ![t] = "encoded"]
  /\ UNCHANGED <<producer, writeMutex, intent, fileGood, indexGood, prepared,
                 generation, accepted, fileVars>>

(* writeMessage's early returns, which give the lock back and write        *)
(* nothing: the message is larger than buffer_, or file_ has failed.       *)
CannotWrite(t) == intent[t].size > BufferSize \/ ~fileGood

RefuseMessage(t) ==
  /\ pc[t] = "encoded"
  /\ CannotWrite(t)
  /\ writeMutex' = NoThread
  /\ pc' = [pc EXCEPT ![t] = "idle"]
  /\ UNCHANGED <<producer, intent, buffer, fileGood, indexGood, prepared,
                 generation, accepted, fileVars>>

(* The cells file_.write adds: as long as the caller's message, with what  *)
(* buffer_ holds by now.                                                   *)
CellsWritten(t) == [k \in 1 .. intent[t].size |-> [msg |-> buffer, at |-> k]]

(* endOffset is file_.tellp() after the write.                             *)
EndOffset(t) == Len(file) + intent[t].size

(* writeMessage up to the flushes: both streams hold the new bytes.        *)
WriteMessage(t) ==
  /\ pc[t] = "encoded"
  /\ ~CannotWrite(t)
  /\ file' = file \o CellsWritten(t)
  /\ index' = IF indexGood THEN Append(index, EndOffset(t)) ELSE index
  /\ accepted' = Append(accepted, intent[t])
  /\ pc' = [pc EXCEPT ![t] = "flushData"]
  /\ UNCHANGED <<producer, writeMutex, intent, buffer, fileGood, indexGood,
                 prepared, generation, fileFlushed, indexFlushed>>

(* What file_.flush() makes visible.  The mutant forgets the flush and     *)
(* leaves it to the next one.                                              *)
FlushForgotten == fileFlushed

DataFlushed == Len(file)

FlushData(t) ==
  /\ pc[t] = "flushData"
  /\ fileFlushed' = DataFlushed
  /\ pc' = [pc EXCEPT ![t] = "flushIndex"]
  /\ UNCHANGED <<file, index, indexFlushed, producer, writeMutex, intent, buffer,
                 fileGood, indexGood, prepared, generation, accepted>>

(* The second flush, and the unlock that ends writeMessage.                *)
FlushIndex(t) ==
  /\ pc[t] = "flushIndex"
  /\ indexFlushed' = Len(index)
  /\ writeMutex' = NoThread
  /\ pc' = [pc EXCEPT ![t] = "idle"]
  /\ UNCHANGED <<file, fileFlushed, index, producer, intent, buffer, fileGood,
                 indexGood, prepared, generation, accepted>>

(* One step of a call of prepareMessage ... writeMessage under way.        *)
WriterStep(t) ==
  Encode(t) \/ RefuseMessage(t) \/ WriteMessage(t) \/ FlushData(t) \/ FlushIndex(t)

WriterNext == \E t \in Threads : PrepareMessage(t) \/ WriterStep(t)

-----------------------------------------------------------------------------
(* What can go wrong on the producer's side.                               *)

(* file_.flush() cannot write everything, on a full disk: a part reaches   *)
(* the file, the stream turns bad, and writeMessage goes on to the index.  *)
FlushDataFails(t) ==
  /\ pc[t] = "flushData"
  /\ \E n \in fileFlushed .. Len(file) - 1 : fileFlushed' = n
  /\ fileGood' = FALSE
  /\ pc' = [pc EXCEPT ![t] = "flushIndex"]
  /\ UNCHANGED <<file, index, indexFlushed, producer, writeMutex, intent, buffer,
                 indexGood, prepared, generation, accepted>>

(* indexFile_.flush() fails: the stream turns bad, no later entry reaches  *)
(* the file, and writeMessage still returns true.                          *)
FlushIndexFails(t) ==
  /\ pc[t] = "flushIndex"
  /\ indexGood' = FALSE
  /\ writeMutex' = NoThread
  /\ pc' = [pc EXCEPT ![t] = "idle"]
  /\ UNCHANGED <<fileVars, producer, intent, buffer, fileGood, prepared,
                 generation, accepted>>

(* The producer process dies: what its streams still held is lost.         *)
Crash ==
  /\ producer # "down"
  /\ generation < MaxGenerations
  /\ producer' = "down"
  /\ file' = SubSeq(file, 1, fileFlushed)
  /\ index' = SubSeq(index, 1, indexFlushed)
  /\ writeMutex' = NoThread
  /\ pc' = [t \in Threads |-> "idle"]
  /\ UNCHANGED <<fileFlushed, indexFlushed, intent, buffer, fileGood, indexGood,
                 prepared, generation, accepted>>

(* openNewFile of the next producer process, append = false: messages.sbe  *)
(* is truncated first ...                                                  *)
OpenDataFile ==
  /\ producer = "down"
  /\ producer' = "truncated"
  /\ file' = <<>>
  /\ fileFlushed' = 0
  /\ fileGood' = TRUE
  /\ generation' = generation + 1
  /\ accepted' = <<>>
  /\ UNCHANGED <<index, indexFlushed, writeMutex, pc, intent, buffer, indexGood,
                 prepared>>

(* ... and the index after it.                                             *)
OpenIndexFile ==
  /\ producer = "truncated"
  /\ producer' = "up"
  /\ index' = <<>>
  /\ indexFlushed' = 0
  /\ indexGood' = TRUE
  /\ UNCHANGED <<file, fileFlushed, writeMutex, pc, intent, buffer, fileGood,
                 prepared, generation, accepted>>

WriterFault ==
  \/ \E t \in Threads : FlushDataFails(t) \/ FlushIndexFails(t)
  \/ Crash

Reopen == OpenDataFile \/ OpenIndexFile
=============================================================================
