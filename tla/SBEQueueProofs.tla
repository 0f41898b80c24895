--------------------------- MODULE SBEQueueProofs ---------------------------
(***************************************************************************)
(* Proofs about SBEQueue, for any number of threads, messages and sizes.   *)
(* First, while the producer stays up: type correctness, the safety        *)
(* properties that MCSBEQueue.cfg checks, and that the queue of files      *)
(* implements MessageQueue.  Second, with faults.                          *)
(*                                                                         *)
(* None of the properties is inductive.  The invariant below adds what     *)
(* they rest on: the mutex is held by the one thread inside a write        *)
(* (Exclusion), so the buffer holds that thread's message (Encoding); the  *)
(* index entries cut the data file into the accepted messages (Layout);    *)
(* only the message being written is behind in the files (Flushed); and    *)
(* the poller's cursors all sit on such cuts, in order (Cursors).          *)
(***************************************************************************)
EXTENDS SBEQueue, SequenceTheorems, TLAPS

(* The end of the n-th message.                                            *)
End(n) == IF n = 0 THEN 0 ELSE index[n]

Healthy == producer = "up" /\ fileGood /\ indexGood

Exclusion == \A t \in Threads : pc[t] # "idle" <=> writeMutex = t

Encoding ==
  \A t \in Threads :
    /\ pc[t] \in {"encoding", "encoded"} => intent[t] \in Message
    /\ pc[t] = "encoded" => buffer = intent[t]

Layout ==
  /\ Len(index) = Len(accepted)
  /\ Len(file) = End(Len(index))
  /\ \A i \in 1 .. Len(index) : index[i] = End(i - 1) + accepted[i].size
  /\ \A i, j \in 0 .. Len(index) : i < j => End(i) < End(j)
  /\ \A i \in 1 .. Len(index) : \A k \in 1 .. accepted[i].size :
       file[End(i - 1) + k] = [msg |-> accepted[i], at |-> k]
  /\ \A i \in 1 .. Len(index) : accepted[i].size <= BufferSize

Flushed ==
  /\ End(indexFlushed) <= fileFlushed
  /\ (\A t \in Threads : pc[t] # "flushData") => fileFlushed = Len(file)
  /\ (\A t \in Threads : pc[t] \notin {"flushData", "flushIndex"})
       => indexFlushed = Len(index)
  /\ indexFlushed >= Len(index) - 1

Cursors ==
  /\ indexFileSize <= indexFlushed
  /\ committedEnd = End(indexFileSize)
  /\ Len(delivered) <= indexFileSize
  /\ filePosition = End(Len(delivered))
  /\ \A i \in 1 .. Len(delivered) : delivered[i] = accepted[i]
  /\ fileSize <= fileFlushed
  /\ step \in {"mapData", "mapIndex"} => ~isValid
  /\ step \in {"refresh", "check", "remap", "copy"} => isValid
  /\ ~isValid => delivered = <<>>
  /\ step = "mapData" => fileFlushed > 0
  /\ step = "copy" => filePosition < committedEnd /\ committedEnd <= fileSize
  /\ step # "dead"

WriterInv == FilesTypeOK /\ WriterTypeOK /\ Healthy /\ Exclusion /\ Encoding /\ Layout /\ Flushed

ReaderInv == PollerTypeOK /\ Cursors

IInv == WriterInv /\ ReaderInv

-----------------------------------------------------------------------------
USE SBEFilesAssumption, SBEBinaryWriterAssumption

(* The invariant holds before the producer has written anything.           *)
LEMMA InitIInv == Init => IInv
<1> SUFFICES ASSUME Init PROVE IInv
  OBVIOUS
<1> USE DEF Init, FilesInit, WriterInit, PollerInit
<1>1. FilesTypeOK /\ WriterTypeOK
  BY DEF FilesTypeOK, WriterTypeOK
<1>2. Healthy /\ Exclusion /\ Encoding
  BY DEF Healthy, Exclusion, Encoding
<1>3. Layout /\ Flushed
  BY DEF Layout, Flushed, End
<1>4. PollerTypeOK
  <2>1. delivered \in Seq(Reported)
    OBVIOUS
  <2>2. step \in {"idle", "mapData", "mapIndex", "refresh", "check", "remap", "copy", "dead"}
    OBVIOUS
  <2>3. isValid \in BOOLEAN
    OBVIOUS
  <2> QED
    BY <2>1, <2>2, <2>3 DEF PollerTypeOK
<1>5. Cursors
  BY DEF Cursors, End
<1> QED
  BY <1>1, <1>2, <1>3, <1>4, <1>5 DEF IInv, WriterInv, ReaderInv

(* A step of the producer keeps the reader's part of the invariant if it   *)
(* only adds to the files behind what the reader can see.                  *)
LEMMA ReaderUndisturbed ==
  ASSUME IInv, UNCHANGED pollerVars,
         FilesTypeOK', WriterTypeOK',
         indexFlushed <= indexFlushed', fileFlushed <= fileFlushed',
         \A i \in 1 .. indexFlushed : index'[i] = index[i] /\ accepted'[i] = accepted[i]
  PROVE  ReaderInv'
<1>1. PollerTypeOK'
  BY DEF IInv, ReaderInv, PollerTypeOK, pollerVars
<1>3. indexFileSize \in 0 .. indexFlushed /\ Len(delivered) \in 0 .. indexFileSize
  BY DEF IInv, ReaderInv, Cursors, PollerTypeOK, WriterInv, FilesTypeOK
<1>4. Len(delivered) \in 0 .. indexFlushed /\ indexFlushed \in Nat
  BY <1>3 DEF IInv, WriterInv, FilesTypeOK
<1>5. committedEnd' = End(indexFileSize)' /\ filePosition' = End(Len(delivered))'
  BY <1>3, <1>4 DEF End, IInv, ReaderInv, Cursors, pollerVars
<1>6. \A i \in 1 .. Len(delivered') : delivered'[i] = accepted'[i]
  BY <1>3, <1>4 DEF IInv, ReaderInv, Cursors, pollerVars
<1>7. fileSize' <= fileFlushed' /\ indexFileSize' <= indexFlushed'
  BY DEF IInv, ReaderInv, Cursors, pollerVars, WriterInv, FilesTypeOK, PollerTypeOK
<1>8. step' = "mapData" => fileFlushed' > 0
  BY DEF IInv, ReaderInv, Cursors, pollerVars, WriterInv, FilesTypeOK
<1>9. Cursors'
  BY <1>5, <1>6, <1>7, <1>8 DEF IInv, ReaderInv, Cursors, pollerVars
<1> QED
  BY <1>1, <1>9 DEF ReaderInv

LEMMA PrepareStep ==
  ASSUME IInv, NEW t \in Threads, PrepareMessage(t), UNCHANGED pollerVars
  PROVE  IInv'
<1> USE DEF IInv, WriterInv, PrepareMessage, MutexFree, fileVars
<1>1. FilesTypeOK'
  BY DEF FilesTypeOK
<1>2. PICK s \in Sizes : intent' = [intent EXCEPT ![t] = [id |-> prepared + 1, size |-> s]]
  OBVIOUS
<1>3. [id |-> prepared + 1, size |-> s] \in Message
  BY DEF Message, WriterTypeOK
<1>4. WriterTypeOK'
  BY <1>2, <1>3 DEF WriterTypeOK
<1>5. Healthy' /\ Exclusion'
  BY DEF Healthy, Exclusion, WriterTypeOK
<1>6. Encoding'
  BY <1>2, <1>3 DEF Encoding, WriterTypeOK, Exclusion
<1>7. Layout'
  BY DEF Layout, End
<1>8. Flushed'
  BY DEF Flushed, End, WriterTypeOK
<1>9. ReaderInv'
  BY <1>1, <1>4, ReaderUndisturbed DEF FilesTypeOK
<1> QED
  BY <1>1, <1>4, <1>5, <1>6, <1>7, <1>8, <1>9

LEMMA EncodeStep ==
  ASSUME IInv, NEW t \in Threads, Encode(t), UNCHANGED pollerVars
  PROVE  IInv'
<1> USE DEF IInv, WriterInv, Encode, fileVars
<1>1. FilesTypeOK'
  BY DEF FilesTypeOK
<1>2. WriterTypeOK'
  BY DEF WriterTypeOK
<1>3. Healthy' /\ Exclusion'
  BY DEF Healthy, Exclusion, WriterTypeOK
<1>4. Encoding'
  BY DEF Encoding, WriterTypeOK, Exclusion
<1>5. Layout'
  BY DEF Layout, End
<1>6. Flushed'
  BY DEF Flushed, End, WriterTypeOK
<1>7. ReaderInv'
  BY <1>1, <1>2, ReaderUndisturbed DEF FilesTypeOK
<1> QED
  BY <1>1, <1>2, <1>3, <1>4, <1>5, <1>6, <1>7

LEMMA RefuseStep ==
  ASSUME IInv, NEW t \in Threads, RefuseMessage(t), UNCHANGED pollerVars
  PROVE  IInv'
<1> USE DEF IInv, WriterInv, RefuseMessage, fileVars
<1>1. FilesTypeOK'
  BY DEF FilesTypeOK
<1>2. WriterTypeOK'
  BY DEF WriterTypeOK
<1>3. Healthy' /\ Exclusion'
  BY DEF Healthy, Exclusion, WriterTypeOK
<1>4. Encoding'
  BY DEF Encoding, WriterTypeOK, Exclusion
<1>5. Layout'
  BY DEF Layout, End
<1>6. Flushed'
  BY DEF Flushed, End, WriterTypeOK
<1>7. ReaderInv'
  BY <1>1, <1>2, ReaderUndisturbed DEF FilesTypeOK
<1> QED
  BY <1>1, <1>2, <1>3, <1>4, <1>5, <1>6, <1>7

(* The ends of the messages are natural numbers, and the last is largest.  *)
LEMMA EndBounds ==
  ASSUME FilesTypeOK, Layout, NEW i \in 0 .. Len(index)
  PROVE  End(i) \in Nat /\ End(i) <= Len(file) /\ Len(index) \in Nat /\ Len(file) \in Nat
<1>1. Len(index) \in Nat /\ Len(file) \in Nat
  BY DEF FilesTypeOK
<1>2. End(i) \in Nat
  <2>1. CASE i = 0
    BY <2>1 DEF End
  <2>2. CASE i # 0
    <3>1. index \in Seq(Nat) /\ i \in 1 .. Len(index)
      BY <2>2, <1>1 DEF FilesTypeOK
    <3> QED
      BY <3>1, <2>2 DEF End
  <2> QED
    BY <2>1, <2>2
<1>3. CASE i = Len(index)
  BY <1>1, <1>2, <1>3 DEF Layout
<1>4. CASE i < Len(index)
  <2>1. End(i) < End(Len(index))
    BY <1>1, <1>4 DEF Layout
  <2> QED
    BY <1>1, <1>2, <2>1 DEF Layout
<1> QED
  BY <1>1, <1>2, <1>3, <1>4

(* writeMessage appends the thread's message as one more segment.          *)
LEMMA WriteStep ==
  ASSUME IInv, NEW t \in Threads, WriteMessage(t), UNCHANGED pollerVars
  PROVE  IInv'
<1>m. PICK m : m = intent[t]
  OBVIOUS
<1>n. PICK n : n = Len(index)
  OBVIOUS
<1>0. FilesTypeOK /\ WriterTypeOK /\ Healthy /\ Exclusion /\ Encoding /\ Layout /\ Flushed
  BY DEF IInv, WriterInv
<1>1. m \in Message /\ buffer = m /\ m.size \in Nat /\ m.size > 0 /\ m.size <= BufferSize
  <2>1. m \in Message /\ buffer = m
    BY <1>0, <1>m DEF Encoding, WriteMessage
  <2>2. m.size \in Sizes
    BY <2>1 DEF Message
  <2>3. m.size \in Nat /\ m.size > 0
    <3>1. m.size \in Nat \ {0}
      BY <2>2, SBEFilesAssumption, Zenon DEF SBEFilesAssumption
    <3> QED
      BY <3>1
  <2>4. m.size <= BufferSize
    BY <1>m, <2>3 DEF WriteMessage, CannotWrite
  <2> QED
    BY <2>1, <2>3, <2>4
<1>2. /\ CellsWritten(t) \in Seq(Cell) /\ Len(CellsWritten(t)) = m.size
      /\ \A k \in 1 .. m.size : CellsWritten(t)[k] = [msg |-> m, at |-> k]
  <2>1. CellsWritten(t) = [k \in 1 .. m.size |-> [msg |-> m, at |-> k]]
    BY <1>m, <1>1 DEF CellsWritten
  <2>2. \A k \in 1 .. m.size : [msg |-> m, at |-> k] \in Cell
    BY <1>1 DEF Cell
  <2>3. CellsWritten(t) \in [1 .. m.size -> Cell]
    BY <2>1, <2>2
  <2>4. CellsWritten(t) \in Seq(Cell)
    BY <2>3, <1>1, SeqDef
  <2>5. 1 .. Len(CellsWritten(t)) = 1 .. m.size /\ Len(CellsWritten(t)) \in Nat
    BY <2>3, <2>4, LenProperties
  <2> QED
    BY <1>1, <2>1, <2>4, <2>5
<1>3. /\ file' \in Seq(Cell)
      /\ Len(file') = Len(file) + m.size
      /\ \A k \in 1 .. Len(file) : file'[k] = file[k]
      /\ \A k \in 1 .. m.size : file'[Len(file) + k] = [msg |-> m, at |-> k]
  <2>1. file \in Seq(Cell) /\ Len(file) \in Nat
    BY <1>0 DEF FilesTypeOK
  <2>2. file' = file \o CellsWritten(t)
    BY DEF WriteMessage
  <2>3. /\ file' \in Seq(Cell)
        /\ Len(file') = Len(file) + m.size
        /\ \A i \in 1 .. Len(file) + m.size :
             file'[i] = IF i <= Len(file) THEN file[i] ELSE CellsWritten(t)[i - Len(file)]
    BY <2>1, <2>2, <1>2, ConcatProperties
  <2>4. \A k \in 1 .. m.size : (Len(file) + k) - Len(file) = k
    BY <2>1, <1>1
  <2>5. \A k \in 1 .. m.size : Len(file) + k \in 1 .. Len(file) + m.size /\ ~(Len(file) + k <= Len(file))
    BY <2>1, <1>1
  <2>6. \A k \in 1 .. m.size : file'[Len(file) + k] = CellsWritten(t)[k]
    BY <2>3, <2>4, <2>5
  <2>7. \A k \in 1 .. Len(file) : k \in 1 .. Len(file) + m.size /\ k <= Len(file)
    BY <2>1, <1>1
  <2>8. \A k \in 1 .. Len(file) : file'[k] = file[k]
    BY <2>3, <2>7
  <2> QED
    BY <1>2, <2>3, <2>6, <2>8
<1>4. /\ index' \in Seq(Nat)
      /\ Len(index') = n + 1
      /\ \A i \in 1 .. n : index'[i] = index[i]
      /\ index'[n + 1] = Len(file) + m.size
  <2>1. index \in Seq(Nat) /\ Len(file) + m.size \in Nat
    BY <1>0, <1>1 DEF FilesTypeOK
  <2>2. index' = Append(index, Len(file) + m.size)
    BY <1>0, <1>m DEF Healthy, EndOffset, WriteMessage
  <2> QED
    BY <1>n, <2>1, <2>2
<1>5. /\ accepted' \in Seq(Message)
      /\ Len(accepted') = n + 1
      /\ \A i \in 1 .. n : accepted'[i] = accepted[i]
      /\ accepted'[n + 1] = m
  <2>1. accepted \in Seq(Message) /\ Len(accepted) = n
    BY <1>0, <1>n DEF WriterTypeOK, Layout
  <2>2. accepted' = Append(accepted, m)
    BY <1>m DEF WriteMessage
  <2> QED
    BY <1>1, <2>1, <2>2
<1>6. FilesTypeOK'
  <2>1. fileFlushed \in 0 .. Len(file) /\ indexFlushed \in 0 .. n /\ n \in Nat /\ Len(file) \in Nat
    BY <1>0, <1>n DEF FilesTypeOK
  <2>2. fileFlushed' = fileFlushed /\ indexFlushed' = indexFlushed
    BY DEF WriteMessage
  <2> QED
    BY <1>1, <1>3, <1>4, <2>1, <2>2 DEF FilesTypeOK
<1>7. WriterTypeOK'
  BY <1>0, <1>n, <1>5 DEF WriterTypeOK, WriteMessage
<1>8. Healthy' /\ Exclusion' /\ Encoding'
  BY <1>0, <1>n DEF Healthy, Exclusion, Encoding, WriterTypeOK, WriteMessage
<1>9. Layout'
  <2>1. n \in Nat /\ Len(file) \in Nat
    BY <1>0, <1>n DEF FilesTypeOK
  <2>2. \A i \in 0 .. n : End(i)' = End(i)
    BY <1>4, <2>1 DEF End
  <2>3. End(n) = Len(file) /\ End(n + 1)' = Len(file) + m.size
    <3>1. End(n) = Len(file)
      BY <1>0, <1>n DEF Layout
    <3>2. n + 1 # 0
      BY <2>1
    <3> QED
      BY <1>4, <3>1, <3>2 DEF End
  <2>4. \A i \in 0 .. n : End(i) \in Nat /\ End(i) <= Len(file)
    BY <1>0, <1>n, EndBounds
  <2>5. Len(index') = Len(accepted') /\ Len(file') = End(Len(index))'
    <3>1. Len(index') # 0
      BY <1>4, <2>1
    <3> QED
      BY <1>3, <1>4, <1>5, <3>1 DEF End
  <2>6. ASSUME NEW i \in 1 .. n + 1
        PROVE  index'[i] = End(i - 1)' + accepted'[i].size
    <3>1. CASE i = n + 1
      <4>1. i - 1 = n /\ n \in 0 .. n
        BY <3>1, <2>1
      <4>2. End(i - 1)' = Len(file)
        BY <4>1, <2>2, <2>3
      <4> QED
        BY <3>1, <4>2, <1>4, <1>5
    <3>2. CASE i \in 1 .. n
      <4>1. i - 1 \in 0 .. n
        BY <3>2, <2>1
      <4>2. index[i] = End(i - 1) + accepted[i].size
        BY <1>0, <1>n, <3>2 DEF Layout
      <4> QED
        BY <3>2, <4>1, <4>2, <1>4, <1>5, <2>2
    <3> QED
      BY <3>1, <3>2, <2>1
  <2>7. ASSUME NEW i \in 0 .. n + 1, NEW j \in 0 .. n + 1, i < j
        PROVE  End(i)' < End(j)'
    <3>1. CASE j \in 0 .. n
      <4>1. i \in 0 .. n
        BY <3>1, <2>1, <2>7
      <4>2. End(i) < End(j)
        BY <1>0, <1>n, <3>1, <4>1, <2>7 DEF Layout
      <4> QED
        BY <3>1, <4>1, <4>2, <2>2
    <3>2. CASE j = n + 1
      <4>1. i \in 0 .. n
        BY <3>2, <2>1, <2>7
      <4> QED
        BY <3>2, <4>1, <1>1, <2>1, <2>2, <2>3, <2>4
    <3> QED
      BY <3>1, <3>2, <2>1
  <2>8. ASSUME NEW i \in 1 .. n + 1, NEW k \in 1 .. accepted'[i].size
        PROVE  file'[End(i - 1)' + k] = [msg |-> accepted'[i], at |-> k]
    <3>1. CASE i = n + 1
      <4>1. i - 1 = n /\ n \in 0 .. n
        BY <3>1, <2>1
      <4>2. End(i - 1)' = Len(file)
        BY <4>1, <2>2, <2>3
      <4> QED
        BY <3>1, <4>2, <1>3, <1>5
    <3>2. CASE i \in 1 .. n
      <4>1. i \in 0 .. n /\ i - 1 \in 0 .. n /\ i # 0 /\ accepted'[i] = accepted[i]
        BY <3>2, <1>5, <2>1
      <4>2. accepted[i].size \in Nat
        <5>1. accepted \in Seq(Message) /\ i \in 1 .. Len(accepted)
          BY <1>0, <1>n, <3>2 DEF WriterTypeOK, Layout
        <5>2. accepted[i] \in Message
          BY <5>1
        <5> QED
          BY <5>2 DEF Message
      <4>3. End(i) = End(i - 1) + accepted[i].size
        BY <1>0, <1>n, <3>2, <4>1 DEF Layout, End
      <4>4. End(i - 1) + k \in 1 .. Len(file)
        BY <4>1, <4>2, <4>3, <2>1, <2>4
      <4>5. file[End(i - 1) + k] = [msg |-> accepted[i], at |-> k]
        BY <1>0, <1>n, <3>2, <4>1 DEF Layout
      <4> QED
        BY <4>1, <4>4, <4>5, <1>3, <2>2
    <3> QED
      BY <3>1, <3>2, <2>1
  <2>9. \A i \in 1 .. n + 1 : accepted'[i].size <= BufferSize
    <3>1. \A i \in 1 .. n : accepted[i].size <= BufferSize
      BY <1>0, <1>n DEF Layout
    <3> QED
      BY <3>1, <1>1, <1>5, <2>1
  <2> QED
    BY <1>4, <2>5, <2>6, <2>7, <2>8, <2>9 DEF Layout
<1>10. Flushed'
  <2>1. pc[t] = "encoded" /\ pc'[t] = "flushData"
    BY <1>0, <1>n DEF WriterTypeOK, WriteMessage
  <2>2. \A u \in Threads : pc[u] \notin {"flushData", "flushIndex"}
    BY <1>0, <1>n, <2>1 DEF Exclusion, WriterTypeOK
  <2>3. indexFlushed = n /\ n \in Nat
    BY <1>0, <1>n, <2>2 DEF Flushed, FilesTypeOK
  <2>4. End(indexFlushed)' = End(indexFlushed) /\ indexFlushed' = n
    BY <1>4, <1>6, <2>3 DEF End, WriteMessage, FilesTypeOK
  <2>5. End(indexFlushed)' <= fileFlushed'
    BY <1>0, <1>n, <2>4 DEF Flushed, WriteMessage
  <2>6. indexFlushed' >= Len(index') - 1
    BY <1>4, <2>3, <2>4
  <2> QED
    BY <2>1, <2>5, <2>6 DEF Flushed
<1>11. ReaderInv'
  <2>1. indexFlushed \in 0 .. n /\ fileFlushed \in Nat /\ n \in Nat
    BY <1>0, <1>n DEF FilesTypeOK
  <2>2. indexFlushed <= indexFlushed' /\ fileFlushed <= fileFlushed'
    BY <2>1 DEF WriteMessage
  <2> QED
    BY <1>4, <1>5, <1>6, <1>7, <2>1, <2>2, ReaderUndisturbed
<1> QED
  BY <1>6, <1>7, <1>8, <1>9, <1>10, <1>11 DEF IInv, WriterInv

LEMMA FlushDataStep ==
  ASSUME IInv, NEW t \in Threads, FlushData(t), UNCHANGED pollerVars
  PROVE  IInv'
<1> USE DEF IInv, WriterInv, FlushData, DataFlushed
<1>1. FilesTypeOK' /\ fileFlushed <= fileFlushed'
  BY DEF FilesTypeOK
<1>2. WriterTypeOK'
  BY DEF WriterTypeOK
<1>3. Healthy' /\ Exclusion' /\ Encoding'
  BY DEF Healthy, Exclusion, Encoding, WriterTypeOK
<1>4. Layout'
  BY DEF Layout, End
<1>5. Flushed'
  <2>1. End(indexFlushed)' = End(indexFlushed)
    BY DEF End
  <2>2. End(indexFlushed) \in Nat /\ fileFlushed \in Nat /\ fileFlushed' \in Nat
    BY <1>1 DEF End, FilesTypeOK
  <2>3. End(indexFlushed)' <= fileFlushed'
    BY <1>1, <2>1, <2>2 DEF Flushed
  <2>4. pc'[t] = "flushIndex"
    BY DEF WriterTypeOK
  <2> QED
    BY <2>3, <2>4 DEF Flushed
<1>6. ReaderInv'
  BY <1>1, <1>2, ReaderUndisturbed DEF FilesTypeOK
<1> QED
  BY <1>1, <1>2, <1>3, <1>4, <1>5, <1>6

LEMMA FlushIndexStep ==
  ASSUME IInv, NEW t \in Threads, FlushIndex(t), UNCHANGED pollerVars
  PROVE  IInv'
<1> USE DEF IInv, WriterInv, FlushIndex
<1>1. FilesTypeOK' /\ indexFlushed <= indexFlushed'
  BY DEF FilesTypeOK
<1>2. WriterTypeOK'
  BY DEF WriterTypeOK
<1>3. Healthy' /\ Exclusion' /\ Encoding'
  BY DEF Healthy, Exclusion, Encoding, WriterTypeOK
<1>4. Layout'
  BY DEF Layout, End
<1>5. Flushed'
  <2>1. \A u \in Threads : pc[u] # "flushData"
    BY DEF Exclusion, WriterTypeOK
  <2>2. fileFlushed' = Len(file')
    BY <2>1 DEF Flushed
  <2>3. End(indexFlushed)' = Len(file)
    BY DEF End, Layout
  <2>4. Len(index) \in Nat /\ Len(file) \in Nat
    BY DEF FilesTypeOK
  <2> QED
    BY <2>2, <2>3, <2>4 DEF Flushed
<1>6. ReaderInv'
  BY <1>1, <1>2, ReaderUndisturbed DEF FilesTypeOK
<1> QED
  BY <1>1, <1>2, <1>3, <1>4, <1>5, <1>6

-----------------------------------------------------------------------------
(* The poller's steps leave the producer's part of the invariant alone.    *)
LEMMA WriterUndisturbed ==
  ASSUME IInv, UNCHANGED <<fileVars, writerVars>>
  PROVE  WriterInv'
<1> USE DEF IInv, WriterInv, fileVars, writerVars
<1>1. FilesTypeOK' /\ WriterTypeOK' /\ Healthy'
  BY DEF FilesTypeOK, WriterTypeOK, Healthy
<1>2. Exclusion' /\ Encoding'
  BY DEF Exclusion, Encoding
<1>3. Layout' /\ Flushed'
  BY DEF Layout, Flushed, End
<1> QED
  BY <1>1, <1>2, <1>3

(* How the poller's cursors lie: delivered, mapped index, index, data.     *)
LEMMA CursorOrder ==
  ASSUME IInv
  PROVE  /\ Len(delivered) \in Nat /\ indexFileSize \in Nat /\ indexFlushed \in Nat
         /\ fileFlushed \in Nat /\ Len(index) \in Nat
         /\ Len(delivered) <= indexFileSize
         /\ indexFileSize <= indexFlushed
         /\ indexFlushed <= Len(index)
         /\ fileFlushed <= Len(file)
         /\ \A i, j \in 0 .. Len(index) : i <= j => End(i) <= End(j)
         /\ \A i \in 0 .. Len(index) : End(i) \in Nat
         /\ filePosition <= committedEnd
         /\ committedEnd <= fileFlushed
         /\ End(indexFlushed) <= fileFlushed
<1>0. FilesTypeOK /\ Layout /\ Flushed /\ PollerTypeOK /\ Cursors
  BY DEF IInv, WriterInv, ReaderInv
<1>1. /\ Len(delivered) \in Nat /\ indexFileSize \in Nat /\ indexFlushed \in Nat
      /\ fileFlushed \in Nat /\ Len(index) \in Nat
      /\ indexFlushed <= Len(index) /\ fileFlushed <= Len(file)
  BY <1>0 DEF FilesTypeOK, PollerTypeOK
<1>2. Len(delivered) <= indexFileSize /\ indexFileSize <= indexFlushed
  BY <1>0 DEF Cursors
<1>3. \A i \in 0 .. Len(index) : End(i) \in Nat
  BY <1>0, EndBounds
<1>4. \A i, j \in 0 .. Len(index) : i <= j => End(i) <= End(j)
  <2> SUFFICES ASSUME NEW i \in 0 .. Len(index), NEW j \in 0 .. Len(index), i <= j
               PROVE  End(i) <= End(j)
    OBVIOUS
  <2>1. CASE i = j
    BY <2>1, <1>3
  <2>2. CASE i < j
    <3>1. End(i) < End(j)
      BY <1>0, <2>2 DEF Layout
    <3> QED
      BY <3>1, <1>3
  <2> QED
    BY <2>1, <2>2
<1>5. filePosition = End(Len(delivered)) /\ committedEnd = End(indexFileSize)
  BY <1>0 DEF Cursors
<1>6. /\ Len(delivered) \in 0 .. Len(index) /\ indexFileSize \in 0 .. Len(index)
      /\ indexFlushed \in 0 .. Len(index)
  BY <1>1, <1>2
<1>7. End(indexFlushed) <= fileFlushed
  BY <1>0 DEF Flushed
<1>8. filePosition <= committedEnd
  BY <1>2, <1>4, <1>5, <1>6
<1>9. committedEnd <= End(indexFlushed)
  BY <1>2, <1>4, <1>5, <1>6
<1>10. committedEnd <= fileFlushed
  BY <1>1, <1>3, <1>5, <1>6, <1>7, <1>9
<1> QED
  BY <1>1, <1>2, <1>3, <1>4, <1>7, <1>8, <1>10

(* When the poller copies, the next message is there, whole.               *)
LEMMA NextMessageThere ==
  ASSUME IInv, step = "copy", NEW n, n = Len(delivered)
  PROVE  /\ n \in Nat /\ n + 1 \in 1 .. Len(accepted) /\ n + 1 <= indexFileSize
         /\ accepted[n + 1] \in Message
         /\ Here = [msg |-> accepted[n + 1], at |-> 1]
         /\ AtMessage
         /\ Intact
         /\ Here.msg.size <= Available
         /\ filePosition + Here.msg.size = End(n + 1)
         /\ filePosition + Available <= committedEnd
<1>0. /\ FilesTypeOK /\ WriterTypeOK /\ Layout /\ PollerTypeOK /\ Cursors
  BY DEF IInv, WriterInv, ReaderInv
<1>1. /\ filePosition = End(n) /\ committedEnd = End(indexFileSize)
      /\ filePosition < committedEnd
      /\ filePosition \in Nat /\ committedEnd \in Nat
  BY <1>0 DEF Cursors, PollerTypeOK
<1>2. n \in Nat /\ n + 1 <= indexFileSize
  <2>1. n # indexFileSize
    BY <1>1
  <2> QED
    BY <2>1, CursorOrder
<1>3. n + 1 \in 1 .. Len(index) /\ n + 1 \in 1 .. Len(accepted) /\ n + 1 \in 0 .. Len(index)
      /\ indexFileSize \in 0 .. Len(index) /\ n + 1 # 0 /\ (n + 1) - 1 = n
  BY <1>0, <1>2, CursorOrder DEF Layout
<1>4. accepted[n + 1] \in Message
  BY <1>0, <1>3 DEF WriterTypeOK
<1> DEFINE size == accepted[n + 1].size
<1>5. size \in Nat /\ size > 0
  <2>1. size \in Sizes
    BY <1>4 DEF Message
  <2>2. size \in Nat \ {0}
    BY <2>1, SBEFilesAssumption, Zenon DEF SBEFilesAssumption
  <2> QED
    BY <2>2
<1>6. End(n + 1) = filePosition + size
  BY <1>0, <1>1, <1>3 DEF Layout, End
<1>7. End(n + 1) <= committedEnd /\ committedEnd <= fileFlushed /\ fileFlushed \in Nat
  BY <1>1, <1>2, <1>3, CursorOrder
<1>8. \A k \in 1 .. size : file[filePosition + k] = [msg |-> accepted[n + 1], at |-> k]
  BY <1>0, <1>1, <1>3 DEF Layout
<1>9. Here = [msg |-> accepted[n + 1], at |-> 1]
  BY <1>5, <1>8 DEF Here
<1>10. AtMessage
  BY <1>1, <1>7, <1>9 DEF AtMessage, InFile
<1>11. Intact
  BY <1>1, <1>5, <1>6, <1>7, <1>8, <1>9 DEF Intact
<1>12. size <= BufferSize /\ BufferSize \in Nat
  BY <1>0, <1>3, SBEFilesAssumption DEF Layout, SBEFilesAssumption
<1>13. Available \in Nat /\ size <= Available /\ filePosition + Available <= committedEnd
  BY <1>1, <1>5, <1>6, <1>7, <1>12 DEF Available, Least, BufferLength
<1> QED
  BY <1>2, <1>3, <1>4, <1>6, <1>9, <1>10, <1>11, <1>13

(* The steps of next() that look at the index and move no message.         *)
LEMMA LookStep ==
  ASSUME IInv, UNCHANGED <<fileVars, writerVars>>,
         CallNext \/ NothingThere \/ MapData \/ MapIndex \/ RefreshCommittedEnd
  PROVE  IInv' /\ delivered' = delivered
<1>0. FilesTypeOK /\ PollerTypeOK /\ Cursors
  BY DEF IInv, WriterInv, ReaderInv
<1>1. WriterInv'
  BY WriterUndisturbed
<1>2. End(indexFileSize) = committedEnd /\ UNCHANGED <<index, indexFlushed, fileFlushed, accepted>>
  BY <1>0 DEF Cursors, fileVars, writerVars
<1>3. indexFlushed \in Nat /\ indexFileSize \in Nat /\ fileFlushed \in Nat /\ End(indexFlushed) \in Nat
  BY CursorOrder
<1>4. CASE CallNext
  <2>1. PollerTypeOK'
    BY <1>0, <1>4 DEF PollerTypeOK, CallNext
  <2>2. Cursors'
    BY <1>0, <1>2, <1>3, <1>4 DEF Cursors, CallNext, End
  <2> QED
    BY <1>1, <1>4, <2>1, <2>2 DEF IInv, ReaderInv, CallNext
<1>5. CASE NothingThere
  <2>1. PollerTypeOK' /\ Cursors'
    BY <1>0, <1>2, <1>5 DEF PollerTypeOK, Cursors, NothingThere, pollerVars, End
  <2> QED
    BY <1>1, <1>5, <2>1 DEF IInv, ReaderInv, NothingThere, pollerVars
<1>6. CASE MapData
  <2>1. PollerTypeOK'
    BY <1>0, <1>3, <1>6 DEF PollerTypeOK, MapData
  <2>2. Len(delivered) = 0 /\ ~isValid
    BY <1>0, <1>6 DEF Cursors, MapData
  <2>3. Cursors'
    BY <1>0, <1>2, <1>3, <1>6, <2>2 DEF Cursors, MapData, End
  <2> QED
    BY <1>1, <1>6, <2>1, <2>3 DEF IInv, ReaderInv, MapData
<1>7. CASE MapIndex
  <2>1. ~isValid
    BY <1>0, <1>7 DEF Cursors, MapIndex
  <2>2. isValid' = TRUE /\ step' = "refresh"
    BY <1>7, <2>1 DEF MapIndex
  <2>3. UNCHANGED <<filePosition, fileSize, session, delivered>>
    BY <1>7 DEF MapIndex
  <2>4. /\ indexFileSize' \in Nat /\ committedEnd' \in Nat
        /\ indexFileSize <= indexFileSize' /\ indexFileSize' <= indexFlushed
        /\ committedEnd' = End(indexFileSize')
    <3>1. CASE indexFlushed > 0
      <4>1. indexFileSize' = indexFlushed /\ committedEnd' = End(indexFlushed)
        BY <1>3, <1>7, <3>1 DEF MapIndex, LastIndexEntry, End
      <4> QED
        BY <1>3, <4>1, CursorOrder
    <3>2. CASE ~(indexFlushed > 0)
      <4>1. UNCHANGED <<indexFileSize, committedEnd>>
        BY <1>7, <3>2 DEF MapIndex
      <4> QED
        BY <1>0, <1>2, <1>3, <4>1, CursorOrder DEF PollerTypeOK
    <3> QED
      BY <3>1, <3>2
  <2>5. PollerTypeOK'
    BY <1>0, <2>2, <2>3, <2>4 DEF PollerTypeOK
  <2>6. Len(delivered) <= indexFileSize' /\ Len(delivered) \in Nat
    BY <1>3, <2>4, CursorOrder
  <2>7. Cursors'
    BY <1>0, <1>2, <2>2, <2>3, <2>4, <2>6 DEF Cursors, End
  <2> QED
    BY <1>1, <2>3, <2>5, <2>7 DEF IInv, ReaderInv
<1>8. CASE RefreshCommittedEnd
  <2>1. UNCHANGED <<isValid, filePosition, fileSize, session, delivered>> /\ step' = "check" /\ isValid
    BY <1>0, <1>8 DEF RefreshCommittedEnd, Cursors
  <2>2. ~(indexFlushed < indexFileSize)
    BY <1>3, CursorOrder
  <2>3. indexFileSize' = indexFlushed
    BY <1>8, <2>2 DEF RefreshCommittedEnd
  <2>4. committedEnd' = End(indexFlushed)
    <3>1. CASE indexFlushed > 0
      <4>1. committedEnd' = LastIndexEntry
        BY <1>3, <1>8, <2>2, <3>1 DEF RefreshCommittedEnd, IndexEnd
      <4> QED
        BY <1>3, <3>1, <4>1 DEF LastIndexEntry, End
    <3>2. CASE indexFlushed = 0
      <4>1. committedEnd' = committedEnd /\ indexFileSize = 0
        BY <1>3, <1>8, <2>2, <3>2 DEF RefreshCommittedEnd, IndexEnd
      <4> QED
        BY <1>2, <3>2, <4>1
    <3> QED
      BY <1>3, <3>1, <3>2
  <2>5. PollerTypeOK'
    BY <1>0, <1>3, <2>1, <2>3, <2>4 DEF PollerTypeOK
  <2>6. Len(delivered) <= indexFlushed
    BY CursorOrder
  <2>7. Cursors'
    BY <1>0, <1>2, <1>3, <2>1, <2>3, <2>4, <2>6 DEF Cursors, End
  <2> QED
    BY <1>1, <2>1, <2>5, <2>7 DEF IInv, ReaderInv
<1> QED
  BY <1>4, <1>5, <1>6, <1>7, <1>8

(* The steps of fillBuffer up to the copy.                                 *)
LEMMA FillStep ==
  ASSUME IInv, UNCHANGED <<fileVars, writerVars>>, NoReset \/ Remap
  PROVE  IInv' /\ delivered' = delivered
<1>0. FilesTypeOK /\ PollerTypeOK /\ Cursors
  BY DEF IInv, WriterInv, ReaderInv
<1>1. WriterInv'
  BY WriterUndisturbed
<1>2. UNCHANGED <<index, indexFlushed, fileFlushed, accepted>>
  BY DEF fileVars, writerVars
<1>3. /\ fileFlushed \in Nat /\ fileSize \in Nat /\ committedEnd \in Nat /\ filePosition \in Nat
      /\ committedEnd <= fileFlushed
  BY <1>0, CursorOrder DEF PollerTypeOK
<1>4. CASE NoReset
  <2>1. PollerTypeOK'
    BY <1>0, <1>4 DEF PollerTypeOK, NoReset
  <2>2. Cursors'
    BY <1>0, <1>2, <1>4 DEF Cursors, NoReset, End
  <2> QED
    BY <1>1, <1>4, <2>1, <2>2 DEF IInv, ReaderInv, NoReset
<1>5. CASE Remap
  <2>1. /\ UNCHANGED <<isValid, filePosition, indexFileSize, committedEnd, session, delivered>>
        /\ isValid
    BY <1>0, <1>5 DEF Remap, Cursors
  <2>2. fileSize' \in Nat /\ fileSize' <= fileFlushed /\ committedEnd <= fileSize'
    BY <1>0, <1>3, <1>5 DEF Remap, NeedsRemap, Cursors
  <2>3. \/ step' = "idle"
        \/ step' = "copy" /\ filePosition < committedEnd
    BY <1>3, <1>5 DEF Remap, AfterRemap
  <2>4. PollerTypeOK'
    <3>1. step' \in {"idle", "mapData", "mapIndex", "refresh", "check", "remap", "copy", "dead"}
      BY <2>3
    <3> QED
      BY <1>0, <2>1, <2>2, <3>1 DEF PollerTypeOK
  <2>5. Cursors'
    <3>1. CASE step' = "idle"
      BY <1>0, <1>2, <2>1, <2>2, <3>1 DEF Cursors, End
    <3>2. CASE step' = "copy" /\ filePosition < committedEnd
      BY <1>0, <1>2, <2>1, <2>2, <3>2 DEF Cursors, End
    <3> QED
      BY <2>3, <3>1, <3>2
  <2> QED
    BY <1>1, <2>1, <2>4, <2>5 DEF IInv, ReaderInv
<1> QED
  BY <1>4, <1>5

(* Reading a message delivers the next one that was accepted.              *)
LEMMA ReadStep ==
  ASSUME IInv, UNCHANGED <<fileVars, writerVars>>, ReadMessage(generation)
  PROVE  /\ IInv'
         /\ Len(delivered) < indexFileSize
         /\ delivered' = Append(delivered, accepted[Len(delivered) + 1])
<1>0. FilesTypeOK /\ WriterTypeOK /\ PollerTypeOK /\ Cursors /\ Layout
  BY DEF IInv, WriterInv, ReaderInv
<1>1. WriterInv'
  BY WriterUndisturbed
<1>2. UNCHANGED <<index, indexFlushed, fileFlushed, accepted>>
  BY DEF fileVars, writerVars
<1>n. PICK n : n = Len(delivered)
  OBVIOUS
<1>m. PICK m : m = accepted[n + 1]
  OBVIOUS
<1>3. step = "copy" /\ isValid
  BY <1>0 DEF ReadMessage, Cursors
<1>4. /\ n \in Nat /\ n + 1 \in 1 .. Len(accepted) /\ n + 1 <= indexFileSize /\ m \in Message
      /\ Here = [msg |-> m, at |-> 1] /\ Intact
      /\ filePosition + Here.msg.size = End(n + 1)
  BY <1>n, <1>m, <1>3, NextMessageThere
<1>5. delivered \in Seq(Reported) /\ generation \in Nat /\ session \in Nat
  BY <1>0 DEF PollerTypeOK, WriterTypeOK
<1>6. Deliver(m, m.size, generation)
  BY <1>4 DEF ReadMessage
<1>7. filePosition = 0 => delivered = <<>>
  <2>1. n # 0 => End(0) < End(n)
    <3>1. n \in 0 .. Len(index) /\ 0 \in 0 .. Len(index)
      BY <1>0, <1>4 DEF Layout
    <3> QED
      BY <1>4, <3>1, <1>0 DEF Layout
  <2>2. filePosition = End(n)
    BY <1>0, <1>n DEF Cursors
  <2>3. filePosition = 0 => n = 0
    BY <2>1, <2>2 DEF End
  <2> QED
    BY <1>5, <1>n, <2>3, EmptySeq
<1>8. delivered' = Append(delivered, m)
  <2>1. CASE filePosition = 0
    BY <1>6, <1>7, <2>1 DEF Deliver
  <2>2. CASE filePosition # 0
    BY <1>6, <2>2 DEF Deliver
  <2> QED
    BY <2>1, <2>2
<1>9. /\ UNCHANGED <<isValid, fileSize, indexFileSize, committedEnd>> /\ step' = "idle"
      /\ filePosition' = End(n + 1)
      /\ session' \in Nat
  BY <1>4, <1>5, <1>6 DEF Deliver
<1>10. m \in Reported
  BY <1>4 DEF Reported
<1>11. /\ delivered' \in Seq(Reported) /\ Len(delivered') = n + 1
       /\ \A i \in 1 .. n : delivered'[i] = delivered[i]
       /\ delivered'[n + 1] = m
  BY <1>5, <1>8, <1>10, <1>n
<1>12. End(n + 1) \in Nat
  <2>1. n + 1 \in 0 .. Len(index)
    BY <1>0, <1>4 DEF Layout
  <2> QED
    BY <2>1, CursorOrder
<1>13. PollerTypeOK'
  <2>1. step' \in {"idle", "mapData", "mapIndex", "refresh", "check", "remap", "copy", "dead"}
    BY <1>9
  <2> QED
    BY <1>0, <1>9, <1>11, <1>12, <2>1 DEF PollerTypeOK
<1>14. Cursors'
  <2>1. \A i \in 1 .. n : delivered[i] = accepted[i]
    BY <1>0, <1>n DEF Cursors
  <2>2. \A i \in 1 .. n + 1 : delivered'[i] = accepted'[i]
    <3>1. n \in Nat /\ accepted' = accepted
      BY <1>2, <1>4
    <3>2. \A i \in 1 .. n : delivered'[i] = accepted'[i]
      BY <1>11, <2>1, <3>1
    <3>3. delivered'[n + 1] = accepted'[n + 1]
      BY <1>11, <1>m, <3>1
    <3>4. \A i \in 1 .. n + 1 : i \in 1 .. n \/ i = n + 1
      BY <3>1
    <3> QED
      BY <3>2, <3>3, <3>4
  <2>3. End(n + 1)' = End(n + 1) /\ End(indexFileSize)' = End(indexFileSize)
    BY <1>2, <1>9, <1>n DEF End
  <2> QED
    BY <1>0, <1>2, <1>3, <1>4, <1>9, <1>11, <2>2, <2>3 DEF Cursors, End
<1> QED
  BY <1>1, <1>4, <1>8, <1>13, <1>14, <1>n, <1>m, CursorOrder DEF IInv, ReaderInv

(* While the producer stays up, next() never comes to its error paths.     *)
LEMMA NoErrorPath ==
  ASSUME IInv
  PROVE  /\ ~MapDataFails /\ ~Reset /\ ~RemapFails
         /\ ~BufferTooSmall /\ ~ReadMiddle(generation) /\ ~CopyFaults /\ ~SkipZeros
<1>0. FilesTypeOK /\ PollerTypeOK /\ Cursors
  BY DEF IInv, WriterInv, ReaderInv
<1>1. /\ fileFlushed \in Nat /\ fileSize \in Nat /\ committedEnd \in Nat /\ filePosition \in Nat
      /\ filePosition <= committedEnd /\ committedEnd <= fileFlushed
  BY <1>0, CursorOrder DEF PollerTypeOK
<1>2. ~MapDataFails
  BY <1>0, <1>1 DEF MapDataFails, Cursors
<1>3. ~Reset
  BY <1>1 DEF Reset, Truncated
<1>4. ~RemapFails
  BY <1>1 DEF RemapFails, NeedsRemap
<1>5. CASE step # "copy"
  BY <1>2, <1>3, <1>4, <1>5 DEF BufferTooSmall, ReadMiddle, CopyFaults, SkipZeros
<1>6. CASE step = "copy"
  <2>1. /\ AtMessage /\ Here.msg.size <= Available
        /\ filePosition + Available <= committedEnd
    BY <1>6, NextMessageThere
  <2>2. Here.msg.size \in Nat
    <3>n. PICK n : n = Len(delivered)
      OBVIOUS
    <3>1. Here.msg \in Message
      BY <1>6, <3>n, NextMessageThere
    <3>2. Here.msg.size \in Sizes
      BY <3>1 DEF Message
    <3>3. Here.msg.size \in Nat \ {0}
      BY <3>2, SBEFilesAssumption, Zenon DEF SBEFilesAssumption
    <3> QED
      BY <3>3
  <2>3. Available \in Int
    BY <1>1, SBEFilesAssumption DEF Available, Least, BufferLength, SBEFilesAssumption
  <2>4. ~BufferTooSmall
    BY <2>1, <2>2, <2>3 DEF BufferTooSmall
  <2>5. ~ReadMiddle(generation)
    BY <2>1 DEF ReadMiddle
  <2>6. committedEnd <= fileSize
    BY <1>0, <1>6 DEF Cursors
  <2>7. ~CopyFaults
    BY <1>1, <2>1, <2>3, <2>6 DEF CopyFaults, Least
  <2>8. ~SkipZeros
    BY <2>1 DEF SkipZeros, AtMessage
  <2> QED
    BY <1>2, <1>3, <1>4, <2>4, <2>5, <2>7, <2>8
<1> QED
  BY <1>5, <1>6

-----------------------------------------------------------------------------
(* One step of the queue keeps the invariant.                              *)
LEMMA NextIInv ==
  ASSUME IInv, [Next]_vars
  PROVE  IInv'
<1>1. CASE Produce
  <2>1. PICK t \in Threads : PrepareMessage(t) \/ WriterStep(t)
    BY <1>1 DEF Produce, WriterNext
  <2>2. UNCHANGED pollerVars
    BY <1>1 DEF Produce
  <2>3. CASE PrepareMessage(t)
    BY <2>2, <2>3, PrepareStep
  <2>4. CASE Encode(t)
    BY <2>2, <2>4, EncodeStep
  <2>5. CASE RefuseMessage(t)
    BY <2>2, <2>5, RefuseStep
  <2>6. CASE WriteMessage(t)
    BY <2>2, <2>6, WriteStep
  <2>7. CASE FlushData(t)
    BY <2>2, <2>7, FlushDataStep
  <2>8. CASE FlushIndex(t)
    BY <2>2, <2>8, FlushIndexStep
  <2> QED
    BY <2>1, <2>3, <2>4, <2>5, <2>6, <2>7, <2>8 DEF WriterStep
<1>2. CASE Consume
  <2>1. UNCHANGED <<fileVars, writerVars>>
    BY <1>2 DEF Consume
  <2>2. \/ CallNext \/ NothingThere \/ MapData \/ MapIndex \/ RefreshCommittedEnd
        \/ NoReset \/ Remap \/ ReadMessage(generation)
    BY <1>2, NoErrorPath DEF Consume, PollerStep
  <2> QED
    BY <2>1, <2>2, LookStep, FillStep, ReadStep
<1>3. CASE UNCHANGED vars
  <2>1. WriterInv'
    BY <1>3, WriterUndisturbed DEF vars
  <2>2. PollerTypeOK' /\ Cursors'
    BY <1>3 DEF vars, pollerVars, fileVars, writerVars, IInv, ReaderInv, PollerTypeOK, Cursors, End
  <2> QED
    BY <2>1, <2>2 DEF IInv, ReaderInv
<1> QED
  BY <1>1, <1>2, <1>3 DEF Next

(* The invariant holds of every behaviour of the queue.                    *)
THEOREM Invariance == Spec => []IInv
<1> QED
  BY InitIInv, NextIInv, PTL DEF Spec

(* The variables of the writer, the files and the poller keep their types. *)
THEOREM TypeCorrect == Spec => []TypeOK
<1>1. IInv => TypeOK
  BY DEF IInv, WriterInv, ReaderInv, TypeOK
<1> QED
  BY <1>1, Invariance, PTL

(* For any number of threads: when no call of writeMessage is under way,   *)
(* every accepted message is on disk and indexed.                          *)
THEOREM WrittenIsVisible == Spec => []VisibleOnReturn
<1>1. IInv => VisibleOnReturn
  <2> SUFFICES ASSUME IInv, writeMutex = NoThread
               PROVE  /\ fileFlushed = Len(file)
                      /\ indexFlushed = Len(index)
                      /\ Len(index) = Len(accepted)
    BY DEF VisibleOnReturn
  <2>1. \A t \in Threads : pc[t] = "idle"
    BY SBEBinaryWriterAssumption DEF IInv, WriterInv, Exclusion, SBEBinaryWriterAssumption
  <2> QED
    BY <2>1 DEF IInv, WriterInv, Flushed, Layout
<1> QED
  BY <1>1, Invariance, PTL

(* For any number of threads and messages: the consumer is given exactly   *)
(* the accepted messages, whole, in the order of their writes.             *)
THEOREM OrderedDelivery == Spec => []DeliveredInOrder
<1>1. IInv => DeliveredInOrder
  <2> SUFFICES ASSUME IInv PROVE DeliveredInOrder
    OBVIOUS
  <2>1. Len(delivered) <= Len(accepted)
    <3>1. Len(index) = Len(accepted)
      BY DEF IInv, WriterInv, Layout
    <3> QED
      BY <3>1, CursorOrder
  <2>2. \A i \in 1 .. Len(delivered) : delivered[i] = accepted[i]
    BY DEF IInv, ReaderInv, Cursors
  <2> QED
    BY <2>1, <2>2 DEF DeliveredInOrder
<1> QED
  BY <1>1, Invariance, PTL

(* next() reads only bytes that are mapped and on disk.                    *)
THEOREM CommittedReads == Spec => []ReadsCommitted
<1>1. IInv => ReadsCommitted
  <2> SUFFICES ASSUME IInv PROVE ReadsCommitted
    OBVIOUS
  <2>1. step # "dead"
    BY DEF IInv, ReaderInv, Cursors
  <2>2. ASSUME step = "copy" PROVE filePosition + Available <= Least(fileSize, fileFlushed)
    <3>1. filePosition + Available <= committedEnd /\ committedEnd <= fileSize
      BY <2>2, NextMessageThere DEF IInv, ReaderInv, Cursors
    <3>2. /\ fileFlushed \in Nat /\ fileSize \in Nat /\ committedEnd \in Nat /\ filePosition \in Nat
          /\ committedEnd <= fileFlushed
      BY CursorOrder DEF IInv, ReaderInv, PollerTypeOK
    <3>3. Available \in Int
      BY <3>2, SBEFilesAssumption DEF Available, Least, BufferLength, SBEFilesAssumption
    <3> QED
      BY <3>1, <3>2, <3>3 DEF Least
  <2> QED
    BY <2>1, <2>2 DEF ReadsCommitted
<1> QED
  BY <1>1, Invariance, PTL

-----------------------------------------------------------------------------
(* A flush of the index publishes at most one message.                     *)
LEMMA PublishOrStutter ==
  ASSUME IInv, NEW t \in Threads, FlushIndex(t), UNCHANGED pollerVars
  PROVE  Abstract!Publish \/ UNCHANGED Abstract!vars
<1>0. FilesTypeOK /\ WriterTypeOK /\ Flushed /\ Layout
  BY DEF IInv, WriterInv
<1>n. PICK n : n = indexFlushed
  OBVIOUS
<1>1. /\ accepted \in Seq(Message) /\ accepted' = accepted /\ n \in Nat /\ Len(index) \in Nat
      /\ Len(accepted) = Len(index)
      /\ indexFlushed' = Len(index) /\ delivered' = delivered
  BY <1>0, <1>n DEF FilesTypeOK, WriterTypeOK, Layout, FlushIndex, pollerVars
<1>2. Len(index) = n \/ Len(index) = n + 1
  BY <1>0, <1>1, <1>n DEF FilesTypeOK, Flushed
<1>3. CASE Len(index) = n
  BY <1>1, <1>3, <1>n DEF Abstract!vars
<1>4. CASE Len(index) = n + 1
  <2>1. n + 1 \in 1 .. Len(accepted)
    BY <1>1, <1>4
  <2>2. SubSeq(accepted, 1, n + 1) = Append(SubSeq(accepted, 1, n), accepted[n + 1])
    <3>1. 1 \in 1 .. Len(accepted) + 1 /\ n + 1 \in 1 .. Len(accepted)
      BY <1>1, <2>1
    <3> QED
      BY <1>1, <3>1, SubSeqRecursiveSecond
  <2>3. accepted[n + 1] \in Message
    BY <1>1, <2>1
  <2> QED
    BY <1>1, <1>4, <1>n, <2>2, <2>3 DEF Abstract!Publish
<1> QED
  BY <1>2, <1>3, <1>4

(* For any number of threads and messages, the queue of files implements   *)
(* the abstract queue: an index flush is Publish, a delivery is Take, and  *)
(* every other step is invisible.                                          *)
THEOREM Implementation == Spec => Abstract!Spec
<1>1. Init => Abstract!Init
  <2> SUFFICES ASSUME Init PROVE Abstract!Init
    OBVIOUS
  <2>1. SubSeq(accepted, 1, indexFlushed) = <<>>
    <3>1. accepted = <<>> /\ indexFlushed = 0
      BY DEF Init, FilesInit, WriterInit
    <3> QED
      BY <3>1
  <2> QED
    BY <2>1 DEF Init, PollerInit, Abstract!Init
<1>2. IInv /\ [Next]_vars => [Abstract!Next]_Abstract!vars
  <2> SUFFICES ASSUME IInv, [Next]_vars
               PROVE  Abstract!Next \/ UNCHANGED Abstract!vars
    OBVIOUS
  <2>1. CASE Produce
    <3>1. PICK t \in Threads : PrepareMessage(t) \/ WriterStep(t)
      BY <2>1 DEF Produce, WriterNext
    <3>2. UNCHANGED pollerVars
      BY <2>1 DEF Produce
    <3>3. CASE PrepareMessage(t) \/ Encode(t) \/ RefuseMessage(t) \/ FlushData(t)
      <4>1. UNCHANGED <<accepted, indexFlushed, delivered>>
        BY <3>2, <3>3 DEF PrepareMessage, Encode, RefuseMessage, FlushData, fileVars, pollerVars
      <4> QED
        BY <4>1 DEF Abstract!vars
    <3>4. CASE WriteMessage(t)
      <4>1. /\ accepted \in Seq(Message) /\ indexFlushed \in 0 .. Len(accepted)
            /\ Len(accepted) \in Nat
        BY DEF IInv, WriterInv, WriterTypeOK, FilesTypeOK, Layout
      <4>2. intent[t] \in Message /\ accepted' = Append(accepted, intent[t])
        BY <3>4 DEF WriteMessage, IInv, WriterInv, Encoding
      <4>3. UNCHANGED <<indexFlushed, delivered>>
        BY <3>2, <3>4 DEF WriteMessage, pollerVars
      <4>4. SubSeq(accepted', 1, indexFlushed) = SubSeq(accepted, 1, indexFlushed)
        <5>1. /\ SubSeq(accepted, 1, indexFlushed) = [i \in 1 .. indexFlushed |-> accepted[i]]
              /\ SubSeq(accepted', 1, indexFlushed) = [i \in 1 .. indexFlushed |-> accepted'[i]]
          BY <4>1
        <5>2. \A i \in 1 .. indexFlushed : accepted'[i] = accepted[i]
          BY <4>1, <4>2
        <5> QED
          BY <5>1, <5>2
      <4> QED
        BY <4>3, <4>4 DEF Abstract!vars
    <3>5. CASE FlushIndex(t)
      BY <3>2, <3>5, PublishOrStutter DEF Abstract!Next
    <3> QED
      BY <3>1, <3>3, <3>4, <3>5 DEF WriterStep
  <2>2. CASE Consume
    <3>1. UNCHANGED <<fileVars, writerVars>>
      BY <2>2 DEF Consume
    <3>2. UNCHANGED <<accepted, indexFlushed>>
      BY <3>1 DEF fileVars, writerVars
    <3>3. \/ CallNext \/ NothingThere \/ MapData \/ MapIndex \/ RefreshCommittedEnd
          \/ NoReset \/ Remap \/ ReadMessage(generation)
      BY <2>2, NoErrorPath DEF Consume, PollerStep
    <3>4. CASE ReadMessage(generation)
      <4>n. PICK n : n = Len(delivered)
        OBVIOUS
      <4>1. n < indexFileSize /\ delivered' = Append(delivered, accepted[n + 1])
        BY <3>1, <3>4, <4>n, ReadStep
      <4>2. n \in Nat /\ n < indexFlushed /\ indexFlushed \in Nat /\ indexFlushed <= Len(accepted)
        BY <4>1, <4>n, CursorOrder DEF IInv, WriterInv, Layout
      <4>3. accepted \in Seq(Message)
        BY DEF IInv, WriterInv, WriterTypeOK
      <4>4. /\ Len(SubSeq(accepted, 1, indexFlushed)) = indexFlushed
            /\ SubSeq(accepted, 1, indexFlushed)[n + 1] = accepted[n + 1]
        BY <4>2, <4>3
      <4>5. Abstract!Take
        BY <3>2, <4>1, <4>2, <4>4, <4>n DEF Abstract!Take
      <4> QED
        BY <4>5 DEF Abstract!Next
    <3>5. CASE ~ReadMessage(generation)
      <4>1. delivered' = delivered
        BY <3>1, <3>3, <3>5, LookStep, FillStep
      <4> QED
        BY <3>2, <4>1 DEF Abstract!vars
    <3> QED
      BY <3>4, <3>5
  <2>3. CASE UNCHANGED vars
    BY <2>3 DEF vars, fileVars, writerVars, pollerVars, Abstract!vars
  <2> QED
    BY <2>1, <2>2, <2>3 DEF Next
<1> QED
  BY <1>1, <1>2, Invariance, PTL DEF Spec, Abstract!Spec

-----------------------------------------------------------------------------
(* With faults: crashes and restarts of the producer, failing flushes and  *)
(* a consumer that dies, for any number of restarts too.                   *)
(*                                                                         *)
(* What is on disk stays in order because the index never runs ahead of    *)
(* the data, in the streams (Ordered) nor on disk (Committed), and because *)
(* at the second flush of writeMessage the first one has left nothing      *)
(* behind (SecondFlush).  What the consumer makes of it is the last part   *)
(* (PollInv).                                                              *)

(* Only the thread that holds the mutex is in a write, and its message is  *)
(* what the buffer holds.                                                  *)
OneWriter ==
  /\ \A t \in Threads : pc[t] # "idle" => writeMutex = t /\ producer = "up"
  /\ \A t \in Threads : pc[t] \in {"encoding", "encoded"} => intent[t] \in Message
  /\ \A t \in Threads : pc[t] = "encoded" => buffer = intent[t]

(* The index is meant to match the data: not after a write error, and not  *)
(* while openNewFile has truncated only one of the files.                  *)
Matched == fileGood /\ (producer = "up" \/ fileFlushed > 0)

Ordered == Matched => \A i \in 1 .. Len(index) : index[i] <= Len(file)

Committed == Matched => \A i \in 1 .. indexFlushed : index[i] <= fileFlushed

SecondFlush == fileGood => \A t \in Threads : pc[t] = "flushIndex" => fileFlushed = Len(file)

Reopening ==
  /\ producer = "truncated" => fileFlushed = 0
  /\ producer = "down" => generation < MaxGenerations

DiskInv ==
  /\ FilesTypeOK /\ WriterTypeOK
  /\ OneWriter /\ Ordered /\ Committed /\ SecondFlush /\ Reopening


-----------------------------------------------------------------------------
LEMMA InitDiskInv == Init => DiskInv
<1> SUFFICES ASSUME Init PROVE DiskInv
  OBVIOUS
<1> USE DEF Init, FilesInit, WriterInit
<1>1. FilesTypeOK /\ WriterTypeOK
  BY DEF FilesTypeOK, WriterTypeOK
<1>2. OneWriter /\ SecondFlush /\ Reopening
  BY DEF OneWriter, SecondFlush, Reopening
<1>3. Ordered /\ Committed
  BY DEF Ordered, Committed
<1> QED
  BY <1>1, <1>2, <1>3 DEF DiskInv

(* What the types say of the lengths.                                      *)
LEMMA Lengths ==
  ASSUME FilesTypeOK
  PROVE  /\ Len(file) \in Nat /\ Len(index) \in Nat
         /\ fileFlushed \in Nat /\ fileFlushed <= Len(file)
         /\ indexFlushed \in Nat /\ indexFlushed <= Len(index)
         /\ \A i \in 1 .. Len(index) : index[i] \in Nat
BY LenProperties, ElementOfSeq DEF FilesTypeOK

LEMMA PrepareDisk ==
  ASSUME DiskInv, NEW t \in Threads, PrepareMessage(t)
  PROVE  DiskInv'
<1> USE DEF DiskInv
<1>1. UNCHANGED <<file, fileFlushed, index, indexFlushed>>
  BY DEF PrepareMessage, fileVars
<1>2. UNCHANGED <<producer, fileGood, indexGood, generation, accepted>>
  BY DEF PrepareMessage
<1>3. /\ producer = "up" /\ writeMutex = NoThread /\ writeMutex' = t /\ buffer' = Blank
      /\ prepared < MaxMessages /\ prepared' = prepared + 1
      /\ pc' = [pc EXCEPT ![t] = "encoding"]
  BY DEF PrepareMessage, MutexFree
<1>4. PICK s \in Sizes : intent' = [intent EXCEPT ![t] = [id |-> prepared + 1, size |-> s]]
  BY DEF PrepareMessage
<1>5. [id |-> prepared + 1, size |-> s] \in Message
  BY <1>3 DEF Message, WriterTypeOK
<1>6. FilesTypeOK'
  BY <1>1 DEF FilesTypeOK
<1>7. WriterTypeOK'
  BY <1>2, <1>3, <1>4, <1>5 DEF WriterTypeOK
<1>8. \A u \in Threads : pc[u] = "idle"
  BY <1>3 DEF OneWriter
<1>9. \A u \in Threads : pc'[u] = IF u = t THEN "encoding" ELSE "idle"
  BY <1>3, <1>8 DEF WriterTypeOK
<1>10. intent'[t] \in Message
  BY <1>4, <1>5 DEF WriterTypeOK
<1>11. OneWriter'
  BY <1>2, <1>3, <1>9, <1>10 DEF OneWriter
<1>12. SecondFlush'
  BY <1>9 DEF SecondFlush
<1>13. Ordered' /\ Committed' /\ Reopening'
  BY <1>1, <1>2 DEF Ordered, Committed, Reopening, Matched
<1> QED
  BY <1>6, <1>7, <1>11, <1>12, <1>13

LEMMA EncodeDisk ==
  ASSUME DiskInv, NEW t \in Threads, Encode(t) \/ RefuseMessage(t)
  PROVE  DiskInv'
<1> USE DEF DiskInv
<1>1. UNCHANGED <<file, fileFlushed, index, indexFlushed>>
  BY DEF Encode, RefuseMessage, fileVars
<1>2. UNCHANGED <<producer, intent, fileGood, indexGood, prepared, generation, accepted>>
  BY DEF Encode, RefuseMessage
<1>3. FilesTypeOK'
  BY <1>1 DEF FilesTypeOK
<1>4. Ordered' /\ Committed' /\ Reopening'
  BY <1>1, <1>2 DEF Ordered, Committed, Reopening, Matched
<1>5. CASE Encode(t)
  <2>1. /\ pc[t] = "encoding" /\ buffer' = intent[t] /\ writeMutex' = writeMutex
        /\ pc' = [pc EXCEPT ![t] = "encoded"]
    BY <1>5 DEF Encode
  <2>2. \A u \in Threads : pc'[u] = IF u = t THEN "encoded" ELSE pc[u]
    BY <2>1 DEF WriterTypeOK
  <2>3. \A u \in Threads \ {t} : pc[u] = "idle"
    BY <2>1 DEF OneWriter
  <2>4. WriterTypeOK'
    BY <1>2, <2>1 DEF WriterTypeOK
  <2>5. OneWriter'
    BY <1>2, <2>1, <2>2, <2>3 DEF OneWriter
  <2>6. SecondFlush'
    BY <2>2, <2>3 DEF SecondFlush
  <2> QED
    BY <1>3, <1>4, <2>4, <2>5, <2>6
<1>6. CASE RefuseMessage(t)
  <2>1. /\ pc[t] = "encoded" /\ buffer' = buffer /\ writeMutex' = NoThread
        /\ pc' = [pc EXCEPT ![t] = "idle"]
    BY <1>6 DEF RefuseMessage
  <2>2. \A u \in Threads : pc'[u] = "idle"
    BY <2>1 DEF WriterTypeOK, OneWriter
  <2>3. WriterTypeOK'
    BY <1>2, <2>1 DEF WriterTypeOK
  <2>4. OneWriter' /\ SecondFlush'
    BY <2>2 DEF OneWriter, SecondFlush
  <2> QED
    BY <1>3, <1>4, <2>3, <2>4
<1> QED
  BY <1>5, <1>6

LEMMA WriteDisk ==
  ASSUME DiskInv, NEW t \in Threads, WriteMessage(t)
  PROVE  DiskInv'
<1> USE DEF DiskInv
<1>1. UNCHANGED <<producer, writeMutex, intent, buffer, fileGood, indexGood,
                  prepared, generation, fileFlushed, indexFlushed>>
  BY DEF WriteMessage
<1>2. /\ pc[t] = "encoded" /\ pc' = [pc EXCEPT ![t] = "flushData"]
      /\ file' = file \o CellsWritten(t) /\ accepted' = Append(accepted, intent[t])
      /\ index' = IF indexGood THEN Append(index, EndOffset(t)) ELSE index
  BY DEF WriteMessage
<1>3. intent[t] \in Message /\ buffer \in Message /\ producer = "up"
  BY <1>2 DEF OneWriter
<1>4. intent[t].size \in Nat
  BY <1>3 DEF Message
<1>5. CellsWritten(t) \in Seq(Cell) /\ Len(CellsWritten(t)) = intent[t].size
  <2>1. \A k \in 1 .. intent[t].size : [msg |-> buffer, at |-> k] \in Cell
    BY <1>3, <1>4 DEF Cell
  <2> QED
    BY <1>4, <2>1 DEF CellsWritten
<1>6. /\ Len(file) \in Nat /\ Len(index) \in Nat
      /\ fileFlushed \in Nat /\ fileFlushed <= Len(file)
      /\ indexFlushed \in Nat /\ indexFlushed <= Len(index)
      /\ \A i \in 1 .. Len(index) : index[i] \in Nat
  BY Lengths
<1>7. file' \in Seq(Cell) /\ Len(file') = Len(file) + intent[t].size
  BY <1>2, <1>5, ConcatProperties DEF FilesTypeOK
<1>8. EndOffset(t) = Len(file') /\ EndOffset(t) \in Nat
  BY <1>4, <1>6, <1>7 DEF EndOffset
<1>9. /\ index' \in Seq(Nat) /\ Len(index') \in Nat /\ Len(index) <= Len(index')
      /\ \A i \in 1 .. Len(index) : index'[i] = index[i]
      /\ \A i \in 1 .. Len(index') : i \in 1 .. Len(index) \/ index'[i] = Len(file')
  <2>1. index \in Seq(Nat)
    BY DEF FilesTypeOK
  <2>2. CASE indexGood
    <3>1. index' = Append(index, EndOffset(t))
      BY <1>2, <2>2
    <3>2. /\ index' \in Seq(Nat) /\ Len(index') = Len(index) + 1
          /\ \A i \in 1 .. Len(index) : index'[i] = index[i]
          /\ index'[Len(index) + 1] = EndOffset(t)
      BY <1>8, <2>1, <3>1, AppendProperties
    <3>3. \A i \in 1 .. Len(index') : i \in 1 .. Len(index) \/ i = Len(index) + 1
      BY <1>6, <3>2
    <3> QED
      BY <1>6, <1>8, <3>2, <3>3
  <2>3. CASE ~indexGood
    BY <1>2, <1>6, <2>1, <2>3
  <2> QED
    BY <2>2, <2>3
<1>10. FilesTypeOK'
  <2>1. fileFlushed' \in 0 .. Len(file') /\ indexFlushed' \in 0 .. Len(index')
    BY <1>1, <1>4, <1>6, <1>7, <1>9
  <2> QED
    BY <1>7, <1>9, <2>1 DEF FilesTypeOK
<1>11. WriterTypeOK'
  <2>1. accepted' \in Seq(Message)
    BY <1>2, <1>3, AppendProperties DEF WriterTypeOK
  <2> QED
    BY <1>1, <1>2, <2>1 DEF WriterTypeOK
<1>12. \A u \in Threads : pc'[u] = IF u = t THEN "flushData" ELSE "idle"
  BY <1>2 DEF WriterTypeOK, OneWriter
<1>13. OneWriter' /\ SecondFlush'
  BY <1>1, <1>2, <1>12 DEF OneWriter, SecondFlush
<1>14. Ordered'
  <2>1. SUFFICES ASSUME Matched, NEW i \in 1 .. Len(index') PROVE index'[i] <= Len(file')
    BY <1>1 DEF Ordered, Matched
  <2>2. CASE i \in 1 .. Len(index)
    <3>1. index'[i] = index[i] /\ index[i] <= Len(file) /\ index[i] \in Nat
      BY <1>6, <1>9, <2>1, <2>2 DEF Ordered
    <3> QED
      BY <1>4, <1>6, <1>7, <3>1
  <2>3. CASE index'[i] = Len(file')
    BY <1>4, <1>6, <1>7, <2>3
  <2> QED
    BY <1>9, <2>2, <2>3
<1>15. Committed'
  <2>1. \A i \in 1 .. indexFlushed : index'[i] = index[i]
    BY <1>6, <1>9
  <2> QED
    BY <1>1, <2>1 DEF Committed, Matched
<1>16. Reopening'
  BY <1>1 DEF Reopening
<1> QED
  BY <1>10, <1>11, <1>13, <1>14, <1>15, <1>16

LEMMA FlushDisk ==
  ASSUME DiskInv, NEW t \in Threads, FlushData(t) \/ FlushDataFails(t)
  PROVE  DiskInv'
<1> USE DEF DiskInv
<1>1. UNCHANGED <<file, index, indexFlushed, producer, writeMutex, intent, buffer,
                  indexGood, prepared, generation, accepted>>
  BY DEF FlushData, FlushDataFails
<1>2. pc[t] = "flushData" /\ pc' = [pc EXCEPT ![t] = "flushIndex"]
  BY DEF FlushData, FlushDataFails
<1>3. /\ Len(file) \in Nat /\ Len(index) \in Nat
      /\ fileFlushed \in Nat /\ fileFlushed <= Len(file)
      /\ indexFlushed \in Nat /\ indexFlushed <= Len(index)
      /\ \A i \in 1 .. Len(index) : index[i] \in Nat
  BY Lengths
<1>4. /\ fileFlushed' \in 0 .. Len(file) /\ fileFlushed <= fileFlushed'
      /\ \/ fileFlushed' = Len(file) /\ fileGood' = fileGood
         \/ fileGood' = FALSE
  <2>1. CASE FlushData(t)
    BY <1>3, <2>1 DEF FlushData, DataFlushed
  <2>2. CASE FlushDataFails(t)
    <3>1. PICK n \in fileFlushed .. Len(file) - 1 : fileFlushed' = n
      BY <2>2 DEF FlushDataFails
    <3>2. fileGood' = FALSE
      BY <2>2 DEF FlushDataFails
    <3> QED
      BY <1>3, <3>1, <3>2
  <2> QED
    BY <2>1, <2>2
<1>5. FilesTypeOK'
  BY <1>1, <1>4 DEF FilesTypeOK
<1>6. WriterTypeOK'
  BY <1>1, <1>2, <1>4 DEF WriterTypeOK
<1>7. \A u \in Threads : pc'[u] = IF u = t THEN "flushIndex" ELSE "idle"
  BY <1>2 DEF WriterTypeOK, OneWriter
<1>8. OneWriter'
  BY <1>1, <1>2, <1>7 DEF OneWriter
<1>9. SecondFlush' /\ Reopening'
  BY <1>1, <1>2, <1>4 DEF SecondFlush, Reopening, OneWriter
<1>10. producer = "up"
  BY <1>2 DEF OneWriter
<1>11. Ordered'
  BY <1>1, <1>4, <1>10 DEF Ordered, Matched
<1>12. Committed'
  <2>1. SUFFICES ASSUME fileGood', NEW i \in 1 .. indexFlushed PROVE index[i] <= fileFlushed'
    BY <1>1 DEF Committed, Matched
  <2>2. fileGood /\ fileFlushed' = Len(file) /\ fileFlushed' \in Nat
    BY <1>3, <1>4, <2>1
  <2>3. index[i] <= fileFlushed /\ index[i] \in Nat
    BY <1>3, <1>10, <2>2 DEF Committed, Matched
  <2> QED
    BY <1>3, <1>4, <2>2, <2>3
<1> QED
  BY <1>5, <1>6, <1>8, <1>9, <1>11, <1>12

LEMMA FlushIndexDisk ==
  ASSUME DiskInv, NEW t \in Threads, FlushIndex(t) \/ FlushIndexFails(t)
  PROVE  DiskInv'
<1> USE DEF DiskInv
<1>1. UNCHANGED <<file, fileFlushed, index, producer, intent, buffer, fileGood,
                  prepared, generation, accepted>>
  BY DEF FlushIndex, FlushIndexFails, fileVars
<1>2. /\ pc[t] = "flushIndex" /\ pc' = [pc EXCEPT ![t] = "idle"] /\ writeMutex' = NoThread
      /\ indexFlushed' \in {indexFlushed, Len(index)} /\ indexGood' \in {indexGood, FALSE}
  BY DEF FlushIndex, FlushIndexFails, fileVars
<1>3. /\ Len(file) \in Nat /\ Len(index) \in Nat
      /\ fileFlushed \in Nat /\ fileFlushed <= Len(file)
      /\ indexFlushed \in Nat /\ indexFlushed <= Len(index)
  BY Lengths
<1>4. FilesTypeOK'
  BY <1>1, <1>2, <1>3 DEF FilesTypeOK
<1>5. WriterTypeOK'
  BY <1>1, <1>2 DEF WriterTypeOK
<1>6. \A u \in Threads : pc'[u] = "idle"
  BY <1>2 DEF WriterTypeOK, OneWriter
<1>7. OneWriter' /\ SecondFlush'
  BY <1>6 DEF OneWriter, SecondFlush
<1>8. Ordered' /\ Reopening'
  BY <1>1 DEF Ordered, Reopening, Matched
<1>9. Committed'
  <2>1. CASE indexFlushed' = indexFlushed
    BY <1>1, <2>1 DEF Committed, Matched
  <2>2. CASE indexFlushed' = Len(index)
    <3>1. fileGood => fileFlushed = Len(file)
      BY <1>2 DEF SecondFlush
    <3> QED
      BY <1>1, <2>2, <3>1 DEF Committed, Ordered, Matched
  <2> QED
    BY <1>2, <2>1, <2>2
<1> QED
  BY <1>4, <1>5, <1>7, <1>8, <1>9

(* The producer dies: of both files what was flushed is left.              *)
LEMMA CrashDisk ==
  ASSUME DiskInv, Crash
  PROVE  DiskInv'
<1> USE DEF DiskInv
<1>1. UNCHANGED <<fileFlushed, indexFlushed, intent, buffer, fileGood, indexGood,
                  prepared, generation, accepted>>
  BY DEF Crash
<1>2. /\ producer # "down" /\ producer' = "down" /\ writeMutex' = NoThread
      /\ file' = SubSeq(file, 1, fileFlushed) /\ index' = SubSeq(index, 1, indexFlushed)
      /\ pc' = [t \in Threads |-> "idle"]
  BY DEF Crash
<1>3. /\ Len(file) \in Nat /\ Len(index) \in Nat
      /\ fileFlushed \in Nat /\ fileFlushed <= Len(file)
      /\ indexFlushed \in Nat /\ indexFlushed <= Len(index)
  BY Lengths
<1>4. file' \in Seq(Cell) /\ Len(file') = fileFlushed
  <2>1. \A i \in 1 .. fileFlushed : file[i] \in Cell
    BY <1>3, ElementOfSeq DEF FilesTypeOK
  <2> QED
    BY <1>2, <1>3, <2>1, SubSeqProperties DEF FilesTypeOK
<1>5. /\ index' \in Seq(Nat) /\ Len(index') = indexFlushed
      /\ \A i \in 1 .. indexFlushed : index'[i] = index[i]
  <2>1. \A i \in 1 .. indexFlushed : index[i] \in Nat
    BY <1>3, ElementOfSeq DEF FilesTypeOK
  <2> QED
    BY <1>2, <1>3, <2>1, SubSeqProperties DEF FilesTypeOK
<1>6. FilesTypeOK'
  <2>1. fileFlushed' \in 0 .. Len(file') /\ indexFlushed' \in 0 .. Len(index')
    BY <1>1, <1>3, <1>4, <1>5
  <2> QED
    BY <1>4, <1>5, <2>1 DEF FilesTypeOK
<1>7. WriterTypeOK'
  BY <1>1, <1>2 DEF WriterTypeOK
<1>8. OneWriter' /\ SecondFlush' /\ Reopening'
  <2>1. generation < MaxGenerations
    BY DEF Crash
  <2> QED
    BY <1>1, <1>2, <2>1 DEF OneWriter, SecondFlush, Reopening
<1>9. Committed' /\ Ordered'
  <2>1. SUFFICES ASSUME fileGood, fileFlushed > 0, NEW i \in 1 .. indexFlushed
                 PROVE  index[i] <= fileFlushed
    BY <1>1, <1>2, <1>4, <1>5 DEF Committed, Ordered, Matched
  <2>2. producer = "up"
    BY <1>2, <2>1 DEF Reopening, WriterTypeOK
  <2> QED
    BY <2>1, <2>2 DEF Committed, Matched
<1> QED
  BY <1>6, <1>7, <1>8, <1>9

LEMMA ReopenDisk ==
  ASSUME DiskInv, Reopen
  PROVE  DiskInv'
<1> USE DEF DiskInv
<1>1. UNCHANGED <<writeMutex, pc, intent, buffer, prepared>>
  BY DEF Reopen, OpenDataFile, OpenIndexFile
<1>2. \A t \in Threads : pc[t] = "idle"
  BY DEF Reopen, OpenDataFile, OpenIndexFile, OneWriter
<1>3. OneWriter' /\ SecondFlush'
  BY <1>1, <1>2 DEF OneWriter, SecondFlush
<1>4. CASE OpenDataFile
  <2>1. /\ producer' = "truncated" /\ file' = <<>> /\ fileFlushed' = 0 /\ fileGood' = TRUE
        /\ accepted' = <<>> /\ UNCHANGED <<index, indexFlushed, indexGood>>
        /\ producer = "down" /\ generation' = generation + 1
    BY <1>4 DEF OpenDataFile
  <2>2. FilesTypeOK'
    <3>1. file' \in Seq(Cell) /\ Len(file') = 0
      BY <2>1, EmptySeq
    <3>2. fileFlushed' \in 0 .. Len(file')
      BY <2>1, <3>1
    <3> QED
      BY <2>1, <3>1, <3>2 DEF FilesTypeOK
  <2>3. WriterTypeOK'
    <3>1. generation < MaxGenerations /\ generation \in 1 .. MaxGenerations
      BY <2>1 DEF Reopening, WriterTypeOK
    <3>2. generation' \in 1 .. MaxGenerations
      BY <2>1, <3>1
    <3> QED
      BY <1>1, <2>1, <3>2, EmptySeq DEF WriterTypeOK
  <2>4. ~Matched' /\ Reopening'
    BY <2>1 DEF Matched, Reopening
  <2> QED
    BY <1>3, <2>2, <2>3, <2>4 DEF Ordered, Committed
<1>5. CASE OpenIndexFile
  <2>1. /\ producer' = "up" /\ index' = <<>> /\ indexFlushed' = 0 /\ indexGood' = TRUE
        /\ UNCHANGED <<file, fileFlushed, fileGood, generation, accepted>>
    BY <1>5 DEF OpenIndexFile
  <2>2. index' \in Seq(Nat) /\ Len(index') = 0
    BY <2>1, EmptySeq
  <2>3. FilesTypeOK'
    <3>1. indexFlushed' \in 0 .. Len(index')
      BY <2>1, <2>2
    <3> QED
      BY <2>1, <2>2, <3>1 DEF FilesTypeOK
  <2>4. WriterTypeOK'
    BY <1>1, <2>1 DEF WriterTypeOK
  <2>5. Ordered' /\ Committed' /\ Reopening'
    BY <2>1, <2>2 DEF Ordered, Committed, Reopening
  <2> QED
    BY <1>3, <2>3, <2>4, <2>5
<1> QED
  BY <1>4, <1>5 DEF Reopen

LEMMA SameDisk ==
  ASSUME DiskInv, UNCHANGED <<fileVars, writerVars>>
  PROVE  DiskInv'
BY DEF DiskInv, FilesTypeOK, WriterTypeOK, OneWriter, Ordered, Committed, SecondFlush, Reopening,
       Matched, fileVars, writerVars

LEMMA NextDiskInv == DiskInv /\ [FaultyNext]_vars => DiskInv'
<1> SUFFICES ASSUME DiskInv, [FaultyNext]_vars PROVE DiskInv'
  OBVIOUS
<1>1. CASE Produce
  <2>1. PICK t \in Threads : PrepareMessage(t) \/ WriterStep(t)
    BY <1>1 DEF Produce, WriterNext
  <2> QED
    BY <2>1, PrepareDisk, EncodeDisk, WriteDisk, FlushDisk, FlushIndexDisk DEF WriterStep
<1>2. CASE Consume
  BY <1>2, SameDisk DEF Consume
<1>3. CASE Fault
  <2>1. ASSUME NEW t \in Threads, FlushDataFails(t) \/ FlushIndexFails(t) PROVE DiskInv'
    BY <2>1, FlushDisk, FlushIndexDisk
  <2>2. CASE PollerRestart /\ UNCHANGED <<fileVars, writerVars>>
    BY <2>2, SameDisk
  <2> QED
    BY <1>3, <2>1, <2>2, CrashDisk, ReopenDisk DEF Fault, WriterFault
<1>4. CASE UNCHANGED vars
  BY <1>4, SameDisk DEF vars
<1> QED
  BY <1>1, <1>2, <1>3, <1>4 DEF FaultyNext, Next

-----------------------------------------------------------------------------
(* However often the producer dies, in the middle of writeMessage or of    *)
(* openNewFile, and comes back: a consumer that trusts the index reads     *)
(* nothing that is not in messages.sbe.                                    *)
THEOREM CommitsSurvive == FaultySpec => []CommittedOnDisk
<1>1. Init => DiskInv
  BY InitDiskInv
<1>2. DiskInv /\ [FaultyNext]_vars => DiskInv'
  BY NextDiskInv
<1>3. DiskInv => CommittedOnDisk
  BY DEF DiskInv, Committed, Matched, CommittedOnDisk
<1> QED
  BY <1>1, <1>2, <1>3, PTL DEF FaultySpec
-----------------------------------------------------------------------------
(* SessionInOrder is about a poller that no one tells of a restart.  It    *)
(* holds because the data file is cut into the accepted messages, up to    *)
(* where a crash has cut it off (Cut, OnDisk); because a poller that has   *)
(* read the first message of this generation still has a mapping and there *)
(* is still something in the file; and because whatever it takes for the   *)
(* committed end after that comes from this generation's index (Looking).  *)

(* e[i] is where the i-th message of this generation ends in messages.sbe. *)
Cut(e) ==
  /\ e[0] = 0
  /\ \A i \in 1 .. Len(accepted) : e[i] = e[i - 1] + accepted[i].size
  /\ \A i, j \in 0 .. Len(accepted) : i < j => e[i] < e[j]

OnDisk(e) ==
  /\ \A i \in 1 .. Len(accepted) : \A k \in 1 .. accepted[i].size :
       e[i - 1] + k <= Len(file) => file[e[i - 1] + k] = [msg |-> accepted[i], at |-> k]
  /\ \E j \in 0 .. Len(accepted) : fileFlushed = e[j]
  /\ producer # "down" => Len(file) = e[Len(accepted)]

(* The poller stands behind the last message it delivered, or at the top.  *)
Followed(e) ==
  session = generation =>
    /\ DeliveredInOrder
    /\ filePosition = 0 \/ filePosition = e[Len(delivered)]

Laid ==
  fileGood => \E e \in [0 .. Len(accepted) -> Nat] : Cut(e) /\ OnDisk(e) /\ Followed(e)

Looking ==
  /\ session <= generation
  /\ session = generation => isValid /\ fileFlushed > 0
  /\ step \in {"refresh", "check", "remap", "copy"} => isValid
  /\ indexFileSize = 0 => committedEnd = 0
  /\ step = "copy" => filePosition < committedEnd
  /\ session = generation /\ fileGood /\ step \notin {"idle", "refresh"}
       => committedEnd <= fileFlushed

PollInv == DiskInv /\ PollerTypeOK /\ Looking /\ Laid

LEMMA InitPollInv == Init => PollInv
<1> SUFFICES ASSUME Init PROVE PollInv
  OBVIOUS
<1>1. DiskInv
  BY InitDiskInv
<1>2. /\ session = 0 /\ generation = 1 /\ step = "idle" /\ indexFileSize = 0 /\ committedEnd = 0
      /\ filePosition = 0 /\ fileSize = 0 /\ delivered = <<>> /\ isValid = FALSE
      /\ accepted = <<>> /\ file = <<>> /\ fileFlushed = 0
  BY DEF Init, FilesInit, WriterInit, PollerInit
<1>3. PollerTypeOK
  <2>1. delivered \in Seq(Reported)
    BY <1>2
  <2> QED
    BY <1>2, <2>1 DEF PollerTypeOK
<1>4. Looking
  BY <1>2 DEF Looking
<1>5. Laid
  <2>1. PICK e : e = [i \in 0 .. 0 |-> 0]
    OBVIOUS
  <2>2. Len(accepted) = 0 /\ Len(file) = 0 /\ e[0] = 0 /\ e \in [0 .. Len(accepted) -> Nat]
    BY <1>2, <2>1
  <2>3. Cut(e)
    BY <2>2 DEF Cut
  <2>4. OnDisk(e)
    BY <1>2, <2>2 DEF OnDisk
  <2>5. Followed(e)
    BY <1>2 DEF Followed
  <2> QED
    BY <2>2, <2>3, <2>4, <2>5 DEF Laid
<1> QED
  BY <1>1, <1>3, <1>4, <1>5 DEF PollInv

LEMMA SamePollerTypes ==
  ASSUME PollerTypeOK, UNCHANGED pollerVars
  PROVE  PollerTypeOK'
BY DEF PollerTypeOK, pollerVars

(* A producer's step that leaves the data file as it is.                   *)
LEMMA DataFileSame ==
  ASSUME PollInv, UNCHANGED pollerVars,
         UNCHANGED <<file, fileFlushed, accepted, generation, fileGood>>,
         producer' # "down" => producer # "down"
  PROVE  Looking' /\ Laid'
<1> USE DEF PollInv
<1>1. Looking'
  BY DEF Looking, pollerVars
<1>2. Laid'
  <2>1. SUFFICES ASSUME fileGood
        PROVE  \E e \in [0 .. Len(accepted) -> Nat] : Cut(e)' /\ OnDisk(e)' /\ Followed(e)'
    BY DEF Laid
  <2>2. PICK e \in [0 .. Len(accepted) -> Nat] : Cut(e) /\ OnDisk(e) /\ Followed(e)
    BY <2>1 DEF Laid
  <2>3. Cut(e)' /\ OnDisk(e)'
    BY <2>2 DEF Cut, OnDisk
  <2>4. Followed(e)'
    BY <2>2 DEF Followed, DeliveredInOrder, pollerVars
  <2> QED
    BY <2>3, <2>4
<1> QED
  BY <1>1, <1>2

(* writeMessage adds the message behind the others.                        *)
LEMMA WriteLays ==
  ASSUME PollInv, DiskInv', UNCHANGED pollerVars, NEW t \in Threads, WriteMessage(t)
  PROVE  Looking' /\ Laid'
<1> USE DEF PollInv
<1>1. /\ UNCHANGED <<producer, generation, fileGood, fileFlushed>>
      /\ pc[t] = "encoded" /\ fileGood
      /\ file' = file \o CellsWritten(t) /\ accepted' = Append(accepted, intent[t])
  BY DEF WriteMessage, CannotWrite
<1>2. Looking'
  BY <1>1 DEF Looking, pollerVars
<1>3. PICK m : m = intent[t]
  OBVIOUS
<1>4. PICK n : n = Len(accepted)
  OBVIOUS
<1>5. m \in Message /\ buffer = m /\ producer = "up"
  BY <1>1, <1>3 DEF DiskInv, OneWriter
<1>6. m.size \in Nat /\ m.size > 0
  <2>1. m.size \in Sizes
    BY <1>5 DEF Message
  <2>2. m.size \in Nat \ {0}
    BY <2>1, SBEFilesAssumption, Zenon DEF SBEFilesAssumption
  <2> QED
    BY <2>2
<1>7. /\ n \in Nat /\ Len(accepted') = n + 1 /\ accepted'[n + 1] = m
      /\ \A i \in 1 .. n : accepted'[i] = accepted[i]
  <2>1. accepted \in Seq(Message)
    BY DEF DiskInv, WriterTypeOK
  <2> QED
    BY <1>1, <1>3, <1>4, <1>5, <2>1, AppendProperties
<1>8. PICK c : c = CellsWritten(t)
  OBVIOUS
<1>9. c \in Seq(Cell) /\ Len(c) = m.size /\ \A k \in 1 .. m.size : c[k] = [msg |-> m, at |-> k]
  <2>1. \A k \in 1 .. m.size : [msg |-> m, at |-> k] \in Cell
    BY <1>5, <1>6 DEF Cell
  <2>2. c = [k \in 1 .. m.size |-> [msg |-> m, at |-> k]]
    BY <1>3, <1>5, <1>8 DEF CellsWritten
  <2> QED
    BY <1>6, <2>1, <2>2
<1>10. /\ Len(file) \in Nat /\ Len(file') = Len(file) + m.size
       /\ \A p \in 1 .. Len(file) : file'[p] = file[p]
       /\ \A k \in 1 .. m.size : file'[Len(file) + k] = [msg |-> m, at |-> k]
  <2>1. file \in Seq(Cell) /\ file' = file \o c
    BY <1>1, <1>8 DEF DiskInv, FilesTypeOK
  <2>2. /\ Len(file') = Len(file) + Len(c)
        /\ \A p \in 1 .. Len(file') :
             file'[p] = IF p <= Len(file) THEN file[p] ELSE c[p - Len(file)]
    BY <1>9, <2>1, ConcatProperties
  <2>3. Len(file) \in Nat
    BY <2>1
  <2>4. \A k \in 1 .. m.size :
          /\ Len(file) + k \in 1 .. Len(file')
          /\ ~(Len(file) + k <= Len(file)) /\ Len(file) + k - Len(file) = k
    BY <1>6, <1>9, <2>2, <2>3
  <2>5. \A p \in 1 .. Len(file) : p \in 1 .. Len(file')
    BY <1>6, <1>9, <2>2, <2>3
  <2>6. \A k \in 1 .. m.size : file'[Len(file) + k] = c[k]
    BY <2>2, <2>4
  <2>7. \A p \in 1 .. Len(file) : file'[p] = file[p]
    BY <2>2, <2>3, <2>5
  <2> QED
    BY <1>9, <2>2, <2>3, <2>6, <2>7
<1>11. PICK e \in [0 .. n -> Nat] : Cut(e) /\ OnDisk(e) /\ Followed(e)
  BY <1>1, <1>4 DEF Laid
<1>12. Len(file) = e[n] /\ e[n] \in Nat
  BY <1>4, <1>5, <1>7, <1>11 DEF OnDisk
<1>13. PICK d : d = [i \in 0 .. n + 1 |-> IF i <= n THEN e[i] ELSE e[n] + m.size]
  OBVIOUS
<1>14. /\ d \in [0 .. n + 1 -> Nat] /\ d[n + 1] = e[n] + m.size
       /\ \A i \in 0 .. n : d[i] = e[i] /\ d[i] \in Nat
  BY <1>6, <1>7, <1>12, <1>13
<1>15. Cut(d)'
  <2>1. d[0] = 0
    BY <1>7, <1>11, <1>14 DEF Cut
  <2>2. ASSUME NEW i \in 1 .. n + 1 PROVE d[i] = d[i - 1] + accepted'[i].size
    <3>1. CASE i = n + 1
      <4>1. i - 1 = n /\ n \in 0 .. n
        BY <1>7, <3>1
      <4> QED
        BY <1>7, <1>14, <3>1, <4>1
    <3>2. CASE i # n + 1
      <4>1. i \in 1 .. n /\ i \in 0 .. n /\ i - 1 \in 0 .. n
        BY <1>7, <3>2
      <4>2. e[i] = e[i - 1] + accepted[i].size
        BY <1>4, <1>11, <4>1 DEF Cut
      <4> QED
        BY <1>7, <1>14, <4>1, <4>2
    <3> QED
      BY <3>1, <3>2
  <2>3. ASSUME NEW i \in 0 .. n + 1, NEW j \in 0 .. n + 1, i < j PROVE d[i] < d[j]
    <3>1. i \in 0 .. n
      BY <1>7, <2>3
    <3>2. CASE j \in 0 .. n
      BY <1>4, <1>11, <1>14, <2>3, <3>1, <3>2 DEF Cut
    <3>3. CASE j = n + 1
      <4>1. e[i] <= e[n]
        <5>1. i < n => e[i] < e[n]
          BY <1>4, <1>7, <1>11, <3>1 DEF Cut
        <5> QED
          BY <1>7, <1>12, <1>14, <3>1, <5>1
      <4> QED
        BY <1>6, <1>12, <1>14, <3>1, <3>3, <4>1
    <3> QED
      BY <1>7, <3>2, <3>3
  <2> QED
    BY <1>7, <2>1, <2>2, <2>3 DEF Cut
<1>16. OnDisk(d)'
  <2>1. ASSUME NEW i \in 1 .. n + 1, NEW k \in 1 .. accepted'[i].size, d[i - 1] + k <= Len(file')
        PROVE  file'[d[i - 1] + k] = [msg |-> accepted'[i], at |-> k]
    <3>1. CASE i = n + 1
      <4>1. i - 1 = n /\ d[n] = Len(file) /\ k \in 1 .. m.size
        BY <1>7, <1>12, <1>14, <3>1
      <4> QED
        BY <1>7, <1>10, <3>1, <4>1
    <3>2. CASE i # n + 1
      <4>1. i \in 1 .. n /\ i \in 0 .. n /\ i - 1 \in 0 .. n /\ n \in 0 .. n
        BY <1>7, <3>2
      <4>2. k \in 1 .. accepted[i].size /\ accepted[i] = accepted'[i]
        BY <1>7, <4>1
      <4>3. accepted[i].size \in Nat
        <5>1. accepted[i] \in Message
          BY <1>4, <4>1, ElementOfSeq DEF DiskInv, WriterTypeOK
        <5>2. accepted[i].size \in Sizes
          BY <5>1 DEF Message
        <5> QED
          BY <5>2, SBEFilesAssumption DEF SBEFilesAssumption
      <4>4. e[i] = e[i - 1] + accepted[i].size /\ e[i] <= e[n]
        <5>1. i < n => e[i] < e[n]
          BY <1>4, <1>11, <4>1 DEF Cut
        <5>2. e[i] = e[i - 1] + accepted[i].size
          BY <1>4, <1>11, <4>1 DEF Cut
        <5> QED
          BY <1>7, <1>14, <4>1, <5>1, <5>2
      <4>5. e[i - 1] \in Nat /\ e[i - 1] + k \in 1 .. Len(file)
        BY <1>12, <1>14, <4>1, <4>2, <4>3, <4>4
      <4>6. file[e[i - 1] + k] = [msg |-> accepted[i], at |-> k]
        BY <1>4, <1>11, <4>1, <4>2, <4>5 DEF OnDisk
      <4> QED
        BY <1>10, <1>14, <4>1, <4>2, <4>5, <4>6
    <3> QED
      BY <3>1, <3>2
  <2>2. \E j \in 0 .. n + 1 : fileFlushed' = d[j]
    <3>1. PICK j \in 0 .. n : fileFlushed = e[j]
      BY <1>4, <1>11 DEF OnDisk
    <3>2. j \in 0 .. n + 1 /\ d[j] = e[j]
      BY <1>7, <1>14, <3>1
    <3> QED
      BY <1>1, <3>1, <3>2
  <2>3. Len(file') = d[n + 1]
    BY <1>10, <1>12, <1>14
  <2> QED
    BY <1>7, <2>1, <2>2, <2>3 DEF OnDisk
<1>17. Followed(d)'
  <2>1. SUFFICES ASSUME session = generation
                 PROVE  /\ Len(delivered) <= n + 1
                        /\ \A i \in 1 .. Len(delivered) : delivered[i] = accepted'[i]
                        /\ filePosition = 0 \/ filePosition = d[Len(delivered)]
    BY <1>1, <1>7 DEF Followed, DeliveredInOrder, pollerVars
  <2>2. /\ Len(delivered) <= n
        /\ \A i \in 1 .. Len(delivered) : delivered[i] = accepted[i]
        /\ filePosition = 0 \/ filePosition = e[Len(delivered)]
    BY <1>4, <1>11, <2>1 DEF Followed, DeliveredInOrder
  <2>3. Len(delivered) \in 0 .. n
    BY <1>7, <2>2 DEF PollerTypeOK
  <2> QED
    BY <1>7, <1>14, <2>2, <2>3
<1>18. Laid'
  BY <1>7, <1>14, <1>15, <1>16, <1>17 DEF Laid
<1> QED
  BY <1>2, <1>18

(* A flush that takes everything ends at a cut; after one that does not    *)
(* nothing more is claimed of this generation.                             *)
LEMMA FlushLays ==
  ASSUME PollInv, UNCHANGED pollerVars, NEW t \in Threads, FlushData(t) \/ FlushDataFails(t)
  PROVE  Looking' /\ Laid'
<1> USE DEF PollInv
<1>1. /\ UNCHANGED <<file, producer, generation, accepted>>
      /\ pc[t] = "flushData"
  BY DEF FlushData, FlushDataFails
<1>2. Len(file) \in Nat /\ fileFlushed \in Nat /\ fileFlushed <= Len(file)
  BY Lengths DEF DiskInv
<1>3. /\ fileFlushed' \in Nat /\ fileFlushed <= fileFlushed'
      /\ (fileFlushed' = Len(file) /\ fileGood' = fileGood) \/ fileGood' = FALSE
  <2>1. CASE FlushData(t)
    BY <1>2, <2>1 DEF FlushData, DataFlushed
  <2>2. CASE FlushDataFails(t)
    <3>1. PICK n \in fileFlushed .. Len(file) - 1 : fileFlushed' = n
      BY <2>2 DEF FlushDataFails
    <3>2. fileGood' = FALSE
      BY <2>2 DEF FlushDataFails
    <3> QED
      BY <1>2, <3>1, <3>2
  <2> QED
    BY <2>1, <2>2
<1>4. Looking'
  BY <1>1, <1>2, <1>3 DEF Looking, pollerVars, PollerTypeOK
<1>5. Laid'
  <2>1. SUFFICES ASSUME fileGood'
        PROVE  \E e \in [0 .. Len(accepted) -> Nat] : Cut(e)' /\ OnDisk(e)' /\ Followed(e)'
    BY <1>1 DEF Laid
  <2>2. fileGood /\ fileFlushed' = Len(file) /\ producer = "up"
    BY <1>1, <1>3, <2>1 DEF DiskInv, OneWriter
  <2>3. PICK e \in [0 .. Len(accepted) -> Nat] : Cut(e) /\ OnDisk(e) /\ Followed(e)
    BY <2>2 DEF Laid
  <2>4. Cut(e)' /\ Followed(e)'
    BY <1>1, <2>3 DEF Cut, Followed, DeliveredInOrder, pollerVars
  <2>5. Len(accepted) \in 0 .. Len(accepted) /\ fileFlushed' = e[Len(accepted)]
    BY <2>2, <2>3 DEF OnDisk, DiskInv, WriterTypeOK
  <2>6. OnDisk(e)'
    BY <1>1, <2>3, <2>5 DEF OnDisk
  <2> QED
    BY <2>4, <2>6
<1> QED
  BY <1>4, <1>5

(* The producer dies: the file is cut off where it was last flushed.       *)
LEMMA CrashLays ==
  ASSUME PollInv, UNCHANGED pollerVars, Crash
  PROVE  Looking' /\ Laid'
<1> USE DEF PollInv
<1>1. /\ UNCHANGED <<fileFlushed, fileGood, generation, accepted>>
      /\ file' = SubSeq(file, 1, fileFlushed) /\ producer' = "down"
  BY DEF Crash
<1>2. Len(file) \in Nat /\ fileFlushed \in Nat /\ fileFlushed <= Len(file)
  BY Lengths DEF DiskInv
<1>3. Len(file') = fileFlushed /\ \A p \in 1 .. fileFlushed : file'[p] = file[p]
  <2>1. file \in Seq(Cell)
    BY DEF DiskInv, FilesTypeOK
  <2>2. \A p \in 1 .. fileFlushed : file[p] \in Cell
    BY <1>2, <2>1, ElementOfSeq
  <2> QED
    BY <1>1, <1>2, <2>1, <2>2, SubSeqProperties
<1>4. Looking'
  BY <1>1 DEF Looking, pollerVars
<1>5. Laid'
  <2>1. SUFFICES ASSUME fileGood
        PROVE  \E e \in [0 .. Len(accepted) -> Nat] : Cut(e)' /\ OnDisk(e)' /\ Followed(e)'
    BY <1>1 DEF Laid
  <2>2. PICK e \in [0 .. Len(accepted) -> Nat] : Cut(e) /\ OnDisk(e) /\ Followed(e)
    BY <2>1 DEF Laid
  <2>3. Cut(e)' /\ Followed(e)'
    BY <1>1, <2>2 DEF Cut, Followed, DeliveredInOrder, pollerVars
  <2>4. ASSUME NEW i \in 1 .. Len(accepted), NEW k \in 1 .. accepted[i].size,
               e[i - 1] + k <= fileFlushed
        PROVE  file'[e[i - 1] + k] = [msg |-> accepted[i], at |-> k]
    <3>1. Len(accepted) \in Nat
      BY DEF DiskInv, WriterTypeOK
    <3>2. e[i - 1] \in Nat
      BY <3>1
    <3>3. accepted[i].size \in Nat
      <4>1. accepted[i] \in Message
        BY ElementOfSeq DEF DiskInv, WriterTypeOK
      <4>2. accepted[i].size \in Sizes
        BY <4>1 DEF Message
      <4> QED
        BY <4>2, SBEFilesAssumption DEF SBEFilesAssumption
    <3>4. e[i - 1] + k \in 1 .. fileFlushed /\ e[i - 1] + k <= Len(file)
      BY <1>2, <2>4, <3>2, <3>3
    <3>5. file[e[i - 1] + k] = [msg |-> accepted[i], at |-> k]
      BY <2>2, <3>4 DEF OnDisk
    <3> QED
      BY <1>3, <3>4, <3>5
  <2>5. \E j \in 0 .. Len(accepted) : fileFlushed = e[j]
    BY <2>2 DEF OnDisk
  <2>6. OnDisk(e)'
    BY <1>1, <1>3, <2>4, <2>5 DEF OnDisk
  <2> QED
    BY <2>3, <2>6
<1> QED
  BY <1>4, <1>5

(* messages.sbe is truncated: a generation no poller has read from yet.    *)
LEMMA OpenDataLays ==
  ASSUME PollInv, UNCHANGED pollerVars, OpenDataFile
  PROVE  Looking' /\ Laid'
<1> USE DEF PollInv
<1>1. /\ file' = <<>> /\ fileFlushed' = 0 /\ generation' = generation + 1 /\ accepted' = <<>>
  BY DEF OpenDataFile
<1>2. session' = session /\ session < generation'
  BY <1>1 DEF Looking, DiskInv, WriterTypeOK, PollerTypeOK, pollerVars
<1>3. session' # generation'
  BY <1>1, <1>2 DEF DiskInv, WriterTypeOK, PollerTypeOK
<1>4. Looking'
  BY <1>1, <1>2, <1>3 DEF Looking, pollerVars, DiskInv, WriterTypeOK, PollerTypeOK
<1>5. PICK e : e = [i \in 0 .. 0 |-> 0]
  OBVIOUS
<1>6. Len(accepted') = 0 /\ Len(file') = 0 /\ e[0] = 0 /\ e \in [0 .. 0 -> Nat]
  BY <1>1, <1>5
<1>7. Cut(e)'
  BY <1>6 DEF Cut
<1>8. OnDisk(e)'
  BY <1>1, <1>6 DEF OnDisk
<1>9. Followed(e)'
  BY <1>3 DEF Followed
<1> QED
  BY <1>4, <1>6, <1>7, <1>8, <1>9 DEF Laid

LEMMA ProducerPollInv ==
  ASSUME PollInv, DiskInv', UNCHANGED pollerVars, WriterNext \/ WriterFault \/ Reopen
  PROVE  PollInv'
<1>1. PollerTypeOK'
  BY SamePollerTypes DEF PollInv
<1>2. Looking' /\ Laid'
  <2>1. ASSUME NEW t \in Threads,
               PrepareMessage(t) \/ Encode(t) \/ RefuseMessage(t) \/ FlushIndex(t) \/ FlushIndexFails(t)
        PROVE  Looking' /\ Laid'
    <3>1. UNCHANGED <<file, fileFlushed, accepted, generation, fileGood, producer>>
      BY <2>1 DEF PrepareMessage, Encode, RefuseMessage, FlushIndex, FlushIndexFails, fileVars
    <3> QED
      BY <3>1, DataFileSame
  <2>2. CASE OpenIndexFile
    <3>1. UNCHANGED <<file, fileFlushed, accepted, generation, fileGood>> /\ producer = "truncated"
      BY <2>2 DEF OpenIndexFile
    <3> QED
      BY <3>1, DataFileSame
  <2>3. ASSUME NEW t \in Threads,
               PrepareMessage(t) \/ WriterStep(t) \/ FlushDataFails(t) \/ FlushIndexFails(t)
        PROVE  Looking' /\ Laid'
    BY <2>1, <2>3, WriteLays, FlushLays DEF WriterStep
  <2> QED
    BY <2>2, <2>3, CrashLays, OpenDataLays DEF WriterNext, WriterFault, Reopen
<1> QED
  BY <1>1, <1>2 DEF PollInv

(* What a poller finds at the end of the index, when it has read from this *)
(* generation.                                                             *)
LEMMA EndOnDisk ==
  ASSUME PollInv, indexFlushed > 0
  PROVE  /\ LastIndexEntry \in Nat
         /\ session = generation /\ fileGood => LastIndexEntry <= fileFlushed
<1>1. indexFlushed \in 1 .. indexFlushed /\ indexFlushed \in 1 .. Len(index)
  BY Lengths DEF PollInv, DiskInv
<1>2. LastIndexEntry \in Nat
  BY <1>1, Lengths DEF PollInv, DiskInv, LastIndexEntry
<1>3. session = generation => fileFlushed > 0
  BY DEF PollInv, Looking
<1> QED
  BY <1>1, <1>2, <1>3 DEF PollInv, DiskInv, Committed, Matched, LastIndexEntry

(* The steps of next() up to the copy.                                     *)
LookSteps ==
  \/ CallNext \/ NothingThere \/ MapData \/ MapDataFails \/ MapIndex \/ RefreshCommittedEnd
  \/ Reset \/ NoReset \/ Remap \/ RemapFails \/ BufferTooSmall \/ CopyFaults

LEMMA LookPollInv ==
  ASSUME PollInv, UNCHANGED <<fileVars, writerVars>>, LookSteps
  PROVE  PollInv'
<1> USE DEF PollInv
<1>1. DiskInv'
  BY SameDisk
<1>2. UNCHANGED <<file, fileFlushed, index, indexFlushed, producer, generation, accepted, fileGood>>
  BY DEF fileVars, writerVars
<1>3. /\ UNCHANGED <<session, delivered>>
      /\ filePosition' = filePosition \/ filePosition' = 0
      /\ isValid' = isValid \/ isValid' = TRUE
  BY DEF LookSteps, CallNext, NothingThere, MapData, MapDataFails, MapIndex, RefreshCommittedEnd,
         Reset, NoReset, Remap, RemapFails, BufferTooSmall, CopyFaults, pollerVars
<1>4. Laid'
  <2>1. SUFFICES ASSUME fileGood
        PROVE  \E e \in [0 .. Len(accepted) -> Nat] : Cut(e)' /\ OnDisk(e)' /\ Followed(e)'
    BY <1>2 DEF Laid
  <2>2. PICK e \in [0 .. Len(accepted) -> Nat] : Cut(e) /\ OnDisk(e) /\ Followed(e)
    BY <2>1 DEF Laid
  <2>3. Cut(e)' /\ OnDisk(e)' /\ Followed(e)'
    BY <1>2, <1>3, <2>2 DEF Cut, OnDisk, Followed, DeliveredInOrder
  <2> QED
    BY <2>3
<1>5. /\ fileFlushed \in Nat /\ indexFlushed \in Nat /\ generation \in Nat
      /\ filePosition \in Nat /\ committedEnd \in Nat /\ indexFileSize \in Nat /\ fileSize \in Nat
  BY Lengths DEF DiskInv, WriterTypeOK, PollerTypeOK
<1>6. PICK last : last = LastIndexEntry
  OBVIOUS
<1>7. indexFlushed > 0 => last \in Nat /\ (session = generation /\ fileGood => last <= fileFlushed)
  BY <1>6, EndOnDisk
<1>8. CASE CallNext \/ NothingThere
  <2>1. UNCHANGED <<isValid, filePosition, fileSize, indexFileSize, committedEnd, session, delivered>>
        /\ step = "idle" /\ (step' = "idle" \/ step' = IF isValid THEN "refresh" ELSE "mapData")
    BY <1>8 DEF CallNext, NothingThere, pollerVars
  <2>2. PollerTypeOK' /\ Looking'
    BY <1>2, <2>1 DEF PollerTypeOK, Looking
  <2> QED
    BY <1>1, <1>4, <2>2
<1>9. CASE MapData \/ MapDataFails
  <2>1. /\ step = "mapData" /\ step' \in {"mapIndex", "idle"} /\ UNCHANGED <<isValid, session, delivered>>
        /\ filePosition' \in Nat /\ fileSize' \in Nat
        /\ UNCHANGED <<indexFileSize, committedEnd>> \/ (indexFileSize' = 0 /\ committedEnd' = 0)
    BY <1>5, <1>9 DEF MapData, MapDataFails
  <2>2. PollerTypeOK' /\ Looking'
    BY <1>2, <1>5, <2>1 DEF PollerTypeOK, Looking
  <2> QED
    BY <1>1, <1>4, <2>2
<1>10. CASE MapIndex
  <2>1. /\ step = "mapIndex" /\ isValid' = TRUE /\ UNCHANGED <<filePosition, fileSize, session, delivered>>
        /\ IF indexFlushed > 0 THEN indexFileSize' = indexFlushed /\ committedEnd' = last
                               ELSE UNCHANGED <<indexFileSize, committedEnd>>
    BY <1>6, <1>10 DEF MapIndex
  <2>2. step' \in {"refresh", "idle", "remap"}
    <3>1. step' = CASE ~isValid -> "refresh" [] isValid /\ committedEnd' = 0 -> "idle"
                    [] isValid /\ committedEnd' # 0 -> "remap"
      BY <1>10 DEF MapIndex
    <3>2. isValid \in BOOLEAN
      BY DEF PollerTypeOK
    <3> QED
      BY <3>1, <3>2
  <2>3. PollerTypeOK'
    BY <1>5, <1>7, <2>1, <2>2 DEF PollerTypeOK
  <2>4. Looking'
    BY <1>2, <1>5, <1>7, <2>1, <2>2 DEF Looking
  <2> QED
    BY <1>1, <1>4, <2>3, <2>4
<1>11. CASE RefreshCommittedEnd
  <2>1. /\ step = "refresh" /\ step' = "check"
        /\ UNCHANGED <<isValid, filePosition, fileSize, session, delivered>>
        /\ indexFileSize' = IF indexFlushed < indexFileSize THEN 0 ELSE indexFlushed
        /\ committedEnd' = IndexEnd
    BY <1>11 DEF RefreshCommittedEnd
  <2>2. \/ indexFileSize' = 0 /\ committedEnd' = 0
        \/ indexFlushed > 0 /\ indexFileSize' = indexFlushed /\ committedEnd' = last
    <3>1. CASE indexFlushed < indexFileSize
      BY <1>5, <2>1, <3>1 DEF IndexEnd
    <3>2. CASE indexFlushed >= indexFileSize /\ indexFlushed > 0
      BY <1>5, <1>6, <2>1, <3>2 DEF IndexEnd
    <3>3. CASE indexFlushed >= indexFileSize /\ indexFlushed = 0
      <4>1. committedEnd' = committedEnd /\ indexFileSize = 0 /\ indexFileSize' = 0
        BY <1>5, <2>1, <3>3 DEF IndexEnd
      <4> QED
        BY <4>1 DEF Looking
    <3> QED
      BY <1>5, <3>1, <3>2, <3>3
  <2>3. PollerTypeOK'
    BY <1>5, <1>7, <2>1, <2>2 DEF PollerTypeOK
  <2>4. Looking'
    BY <1>2, <1>5, <1>7, <2>1, <2>2 DEF Looking
  <2> QED
    BY <1>1, <1>4, <2>3, <2>4
<1>12. CASE Reset \/ NoReset
  <2>1. /\ step = "check" /\ UNCHANGED <<isValid, indexFileSize, committedEnd, session, delivered>>
        /\ filePosition' \in Nat /\ fileSize' \in Nat /\ step' \in {"mapData", "idle", "remap"}
    <3>1. CASE Reset
      <4>1. step' = CASE fileFlushed > 0 -> "mapData" [] fileFlushed = 0 /\ committedEnd = 0 -> "idle"
                      [] fileFlushed = 0 /\ committedEnd > 0 -> "remap"
        BY <3>1 DEF Reset
      <4>2. step' \in {"mapData", "idle", "remap"}
        BY <1>5, <4>1
      <4> QED
        BY <3>1, <4>2 DEF Reset
    <3>2. CASE NoReset
      BY <1>5, <3>2 DEF NoReset
    <3> QED
      BY <1>12, <3>1, <3>2
  <2>2. PollerTypeOK' /\ Looking'
    BY <1>2, <1>5, <2>1 DEF PollerTypeOK, Looking
  <2> QED
    BY <1>1, <1>4, <2>2
<1>13. CASE Remap \/ RemapFails
  <2>1. /\ step = "remap"
        /\ UNCHANGED <<isValid, filePosition, indexFileSize, committedEnd, session, delivered>>
        /\ fileSize' \in Nat /\ step' \in {"idle", "copy", "dead"}
        /\ step' = "copy" => filePosition < committedEnd
    BY <1>5, <1>13 DEF Remap, RemapFails, AfterRemap
  <2>2. PollerTypeOK' /\ Looking'
    BY <1>2, <1>5, <2>1 DEF PollerTypeOK, Looking
  <2> QED
    BY <1>1, <1>4, <2>2
<1>14. CASE BufferTooSmall \/ CopyFaults
  <2>1. /\ step = "copy" /\ step' \in {"idle", "dead"}
        /\ UNCHANGED <<isValid, filePosition, fileSize, indexFileSize, committedEnd, session, delivered>>
    BY <1>14 DEF BufferTooSmall, CopyFaults
  <2>2. PollerTypeOK' /\ Looking'
    BY <1>2, <1>5, <2>1 DEF PollerTypeOK, Looking
  <2> QED
    BY <1>1, <1>4, <2>2
<1> QED
  BY <1>8, <1>9, <1>10, <1>11, <1>12, <1>13, <1>14 DEF LookSteps

(* Where the next message of the file starts there is all of it.           *)
LEMMA MessageAtCut ==
  ASSUME PollInv, fileGood, InFile,
         NEW e \in [0 .. Len(accepted) -> Nat], Cut(e), OnDisk(e),
         NEW n \in 0 .. Len(accepted), filePosition = e[n]
  PROVE  /\ n + 1 \in 1 .. Len(accepted) /\ accepted[n + 1] \in Message
         /\ AtMessage /\ Here.msg = accepted[n + 1] /\ Intact
         /\ filePosition + Here.msg.size = e[n + 1]
<1>1. /\ accepted \in Seq(Message) /\ Len(accepted) \in Nat /\ Len(file) \in Nat
      /\ fileFlushed \in Nat /\ fileFlushed <= Len(file) /\ filePosition < fileFlushed
  BY Lengths DEF PollInv, DiskInv, WriterTypeOK, InFile
<1>2. PICK j \in 0 .. Len(accepted) : fileFlushed = e[j]
  BY DEF OnDisk
<1>3. n < j
  <2>1. SUFFICES ASSUME j <= n PROVE FALSE
    BY <1>1
  <2>2. j < n => e[j] < e[n]
    BY DEF Cut
  <2> QED
    BY <1>1, <1>2, <2>1, <2>2
<1>4. n + 1 \in 1 .. Len(accepted) /\ n + 1 \in 0 .. Len(accepted) /\ (n + 1) - 1 = n
  BY <1>1, <1>2, <1>3
<1>5. PICK m : m = accepted[n + 1]
  OBVIOUS
<1>6. m \in Message
  BY <1>1, <1>4, <1>5, ElementOfSeq
<1>7. m.size \in Nat /\ m.size > 0
  <2>1. m.size \in Sizes
    BY <1>6 DEF Message
  <2>2. m.size \in Nat \ {0}
    BY <2>1, SBEFilesAssumption, Zenon DEF SBEFilesAssumption
  <2> QED
    BY <2>2
<1>8. e[n + 1] = e[n] + m.size
  BY <1>4, <1>5 DEF Cut
<1>9. e[n + 1] <= e[j] /\ e[n] \in Nat
  <2>1. n + 1 < j => e[n + 1] < e[j]
    BY <1>4 DEF Cut
  <2> QED
    BY <1>1, <1>2, <1>3, <1>4, <2>1
<1>10. ASSUME NEW k \in 1 .. m.size PROVE file[filePosition + k] = [msg |-> m, at |-> k]
  <2>1. e[n] + k <= Len(file)
    BY <1>1, <1>2, <1>7, <1>8, <1>9
  <2> QED
    BY <1>4, <1>5, <2>1 DEF OnDisk
<1>11. Here = [msg |-> m, at |-> 1]
  BY <1>7, <1>10 DEF Here
<1>12. AtMessage /\ Intact
  BY <1>2, <1>8, <1>9, <1>10, <1>11 DEF AtMessage, Intact
<1> QED
  BY <1>4, <1>5, <1>6, <1>8, <1>11, <1>12

(* What Deliver changes, whatever the message.                             *)
LEMMA DeliverLooks ==
  ASSUME PollInv, UNCHANGED <<fileVars, writerVars>>, step = "copy", InFile,
         NEW m \in Reported, NEW length \in Nat, Deliver(m, length, generation)
  PROVE  PollerTypeOK' /\ Looking'
<1> USE DEF PollInv
<1>1. /\ step' = "idle" /\ UNCHANGED <<isValid, fileSize, indexFileSize, committedEnd>>
      /\ filePosition' = filePosition + length
      /\ IF filePosition = 0
         THEN session' = generation /\ delivered' = <<m>>
         ELSE session' = session /\ delivered' = Append(delivered, m)
  BY DEF Deliver
<1>2. /\ generation \in Nat /\ filePosition \in Nat /\ delivered \in Seq(Reported) /\ session \in Nat
      /\ fileFlushed \in Nat /\ filePosition < fileFlushed
  BY Lengths DEF DiskInv, WriterTypeOK, PollerTypeOK, InFile
<1>3. UNCHANGED <<fileFlushed, generation, fileGood>>
  BY DEF fileVars, writerVars
<1>4. delivered' \in Seq(Reported)
  <2>1. CASE filePosition = 0
    <3>1. <<m>> \in Seq(Reported)
      OBVIOUS
    <3> QED
      BY <1>1, <2>1, <3>1
  <2>2. CASE filePosition # 0
    BY <1>1, <1>2, <2>2, AppendProperties
  <2> QED
    BY <2>1, <2>2
<1>5. PollerTypeOK'
  BY <1>1, <1>2, <1>4 DEF PollerTypeOK
<1>6. isValid /\ fileFlushed > 0
  BY <1>2 DEF Looking
<1>7. Looking'
  BY <1>1, <1>2, <1>3, <1>6 DEF Looking
<1> QED
  BY <1>5, <1>7

LEMMA ReadPollInv ==
  ASSUME PollInv, UNCHANGED <<fileVars, writerVars>>,
         ReadMessage(generation) \/ ReadMiddle(generation)
  PROVE  PollInv'
<1> USE DEF PollInv
<1>1. DiskInv'
  BY SameDisk
<1>2. UNCHANGED <<file, fileFlushed, index, indexFlushed, producer, generation, accepted, fileGood>>
  BY DEF fileVars, writerVars
<1>3. step = "copy" /\ InFile
  BY DEF ReadMessage, ReadMiddle, AtMessage
<1>4. /\ filePosition \in Nat /\ committedEnd \in Nat /\ BufferSize \in Nat
      /\ filePosition < committedEnd /\ delivered \in Seq(Reported) /\ file \in Seq(Cell)
      /\ Len(file) \in Nat /\ fileFlushed <= Len(file) /\ fileFlushed \in Nat
      /\ filePosition < fileFlushed /\ accepted \in Seq(Message)
  BY <1>3, Lengths, SBEFilesAssumption
     DEF DiskInv, FilesTypeOK, WriterTypeOK, PollerTypeOK, Looking, SBEFilesAssumption, InFile
<1>5. PICK m \in Reported, length \in Nat :
        /\ Deliver(m, length, generation)
        /\ ReadMessage(generation)
             => length = Here.msg.size /\ (m = IF Intact THEN Here.msg ELSE Garbage)
  <2>1. CASE ReadMessage(generation)
    <3>1. Deliver(IF Intact THEN Here.msg ELSE Garbage, Here.msg.size, generation)
      BY <2>1 DEF ReadMessage
    <3>2. Here \in Cell
      <4>1. filePosition + 1 \in 1 .. Len(file)
        BY <1>4
      <4> QED
        BY <1>4, <4>1, ElementOfSeq DEF Here
    <3>3. Here.msg \in Message
      BY <3>2 DEF Cell
    <3>4. Here.msg.size \in Nat
      <4>1. Here.msg.size \in Sizes
        BY <3>3 DEF Message
      <4> QED
        BY <4>1, SBEFilesAssumption DEF SBEFilesAssumption
    <3>5. (IF Intact THEN Here.msg ELSE Garbage) \in Reported
      BY <3>3 DEF Reported
    <3> QED
      BY <3>1, <3>4, <3>5
  <2>2. CASE ReadMiddle(generation) /\ ~ReadMessage(generation)
    <3>1. PICK length \in 1 .. Available : Deliver(Garbage, length, generation)
      BY <2>2 DEF ReadMiddle
    <3>2. Available \in Nat
      BY <1>4 DEF Available, Least, BufferLength
    <3>3. length \in Nat /\ Garbage \in Reported
      BY <3>1, <3>2 DEF Reported
    <3> QED
      BY <2>2, <3>1, <3>3
  <2> QED
    BY <2>1, <2>2
<1>6. PollerTypeOK' /\ Looking'
  BY <1>3, <1>5, DeliverLooks
<1>7. /\ filePosition' = filePosition + length
      /\ filePosition = 0 => session' = generation /\ delivered' = <<m>>
      /\ filePosition # 0 => session' = session /\ delivered' = Append(delivered, m)
  BY <1>5 DEF Deliver
<1>8. Laid'
  <2>1. SUFFICES ASSUME fileGood
        PROVE  \E e \in [0 .. Len(accepted) -> Nat] : Cut(e)' /\ OnDisk(e)' /\ Followed(e)'
    BY <1>2 DEF Laid
  <2>2. PICK e \in [0 .. Len(accepted) -> Nat] : Cut(e) /\ OnDisk(e) /\ Followed(e)
    BY <2>1 DEF Laid
  <2>3. Cut(e)' /\ OnDisk(e)'
    BY <1>2, <2>2 DEF Cut, OnDisk
  <2>4. ASSUME NEW n \in 0 .. Len(accepted), filePosition = e[n]
        PROVE  n + 1 \in 1 .. Len(accepted) /\ m = accepted[n + 1] /\ filePosition' = e[n + 1]
    <3>1. /\ n + 1 \in 1 .. Len(accepted) /\ AtMessage /\ Here.msg = accepted[n + 1] /\ Intact
          /\ filePosition + Here.msg.size = e[n + 1]
      BY <1>3, <2>1, <2>2, <2>4, MessageAtCut
    <3>2. ReadMessage(generation)
      BY <3>1 DEF ReadMiddle
    <3> QED
      BY <1>5, <1>7, <3>1, <3>2
  <2>5. CASE filePosition = 0
    <3>1. 0 \in 0 .. Len(accepted) /\ e[0] = 0
      BY <1>4, <2>2 DEF Cut
    <3>2. 1 \in 1 .. Len(accepted) /\ m = accepted[1] /\ filePosition' = e[1]
      BY <2>4, <2>5, <3>1
    <3>3. delivered' = <<m>> /\ Len(delivered') = 1 /\ delivered'[1] = m
      BY <1>7, <2>5
    <3>4. Followed(e)'
      BY <1>2, <1>4, <3>2, <3>3 DEF Followed, DeliveredInOrder
    <3> QED
      BY <2>3, <3>4
  <2>6. CASE filePosition # 0 /\ session = generation
    <3>1. PICK n : n = Len(delivered)
      OBVIOUS
    <3>2. /\ n \in 0 .. Len(accepted) /\ n \in Nat /\ filePosition = e[n]
          /\ \A i \in 1 .. n : delivered[i] = accepted[i]
      BY <1>4, <2>2, <2>6, <3>1 DEF Followed, DeliveredInOrder
    <3>3. n + 1 \in 1 .. Len(accepted) /\ m = accepted[n + 1] /\ filePosition' = e[n + 1]
      BY <2>4, <3>2
    <3>4. /\ Len(delivered') = n + 1 /\ delivered'[n + 1] = m
          /\ \A i \in 1 .. n : delivered'[i] = delivered[i]
      BY <1>4, <1>7, <2>6, <3>1, AppendProperties
    <3>5. \A i \in 1 .. n + 1 : delivered'[i] = accepted[i]
      BY <3>2, <3>3, <3>4
    <3>6. DeliveredInOrder'
      <4>1. n + 1 <= Len(accepted) /\ accepted' = accepted
        BY <1>2, <1>4, <3>2, <3>3
      <4>2. 1 .. Len(delivered') = 1 .. n + 1
        BY <3>4
      <4> QED
        BY <3>4, <3>5, <4>1, <4>2 DEF DeliveredInOrder
    <3>7. filePosition' = e[Len(delivered')]
      BY <3>3, <3>4
    <3>8. Followed(e)'
      BY <3>6, <3>7 DEF Followed
    <3> QED
      BY <2>3, <3>8
  <2>7. CASE filePosition # 0 /\ session # generation
    <3>1. Followed(e)'
      BY <1>2, <1>7, <2>7 DEF Followed
    <3> QED
      BY <2>3, <3>1
  <2> QED
    BY <2>5, <2>6, <2>7
<1> QED
  BY <1>1, <1>6, <1>8

(* A poller that has read from this generation never gets to the zeros     *)
(* behind the end of the file.                                             *)
LEMMA SkipPollInv ==
  ASSUME PollInv, UNCHANGED <<fileVars, writerVars>>, SkipZeros
  PROVE  PollInv'
<1> USE DEF PollInv
<1>1. DiskInv'
  BY SameDisk
<1>2. UNCHANGED <<file, fileFlushed, index, indexFlushed, producer, generation, accepted, fileGood>>
  BY DEF fileVars, writerVars
<1>3. /\ step = "copy" /\ step' = "idle" /\ ~(filePosition < fileFlushed)
      /\ filePosition' = filePosition + 1
      /\ UNCHANGED <<isValid, fileSize, indexFileSize, committedEnd, session, delivered>>
  BY DEF SkipZeros, InFile
<1>4. filePosition < committedEnd /\ filePosition \in Nat /\ committedEnd \in Nat /\ fileFlushed \in Nat
  BY <1>3, Lengths DEF Looking, PollerTypeOK, DiskInv
<1>5. ~(session = generation /\ fileGood)
  BY <1>3, <1>4 DEF Looking
<1>6. PollerTypeOK' /\ Looking'
  BY <1>2, <1>3, <1>4 DEF PollerTypeOK, Looking
<1>7. Laid'
  <2>1. SUFFICES ASSUME fileGood
        PROVE  \E e \in [0 .. Len(accepted) -> Nat] : Cut(e)' /\ OnDisk(e)' /\ Followed(e)'
    BY <1>2 DEF Laid
  <2>2. PICK e \in [0 .. Len(accepted) -> Nat] : Cut(e) /\ OnDisk(e)
    BY <2>1 DEF Laid
  <2>3. Cut(e)' /\ OnDisk(e)' /\ Followed(e)'
    BY <1>2, <1>3, <1>5, <2>1, <2>2 DEF Cut, OnDisk, Followed
  <2> QED
    BY <2>3
<1> QED
  BY <1>1, <1>6, <1>7

LEMMA RestartPollInv ==
  ASSUME PollInv, UNCHANGED <<fileVars, writerVars>>, PollerRestart
  PROVE  PollInv'
<1> USE DEF PollInv
<1>1. DiskInv'
  BY SameDisk
<1>2. UNCHANGED <<file, fileFlushed, index, indexFlushed, producer, generation, accepted, fileGood>>
  BY DEF fileVars, writerVars
<1>3. /\ step' = "idle" /\ isValid' = FALSE /\ filePosition' = 0 /\ fileSize' = 0
      /\ indexFileSize' = 0 /\ committedEnd' = 0 /\ session' = 0 /\ delivered' = <<>>
  BY DEF PollerRestart
<1>4. generation \in Nat /\ generation # 0
  BY DEF DiskInv, WriterTypeOK
<1>5. PollerTypeOK'
  <2>1. delivered' \in Seq(Reported)
    BY <1>3
  <2> QED
    BY <1>3, <2>1 DEF PollerTypeOK
<1>6. Looking'
  BY <1>2, <1>3, <1>4 DEF Looking
<1>7. Laid'
  <2>1. SUFFICES ASSUME fileGood
        PROVE  \E e \in [0 .. Len(accepted) -> Nat] : Cut(e)' /\ OnDisk(e)' /\ Followed(e)'
    BY <1>2 DEF Laid
  <2>2. PICK e \in [0 .. Len(accepted) -> Nat] : Cut(e) /\ OnDisk(e)
    BY <2>1 DEF Laid
  <2>3. Cut(e)' /\ OnDisk(e)' /\ Followed(e)'
    BY <1>2, <1>3, <1>4, <2>2 DEF Cut, OnDisk, Followed
  <2> QED
    BY <2>3
<1> QED
  BY <1>1, <1>5, <1>6, <1>7

LEMMA NextPollInv == PollInv /\ [FaultyNext]_vars => PollInv'
<1> SUFFICES ASSUME PollInv, [FaultyNext]_vars PROVE PollInv'
  OBVIOUS
<1>0. DiskInv'
  BY NextDiskInv DEF PollInv
<1>1. CASE Produce
  BY <1>0, <1>1, ProducerPollInv DEF Produce
<1>2. CASE Consume
  BY <1>2, LookPollInv, ReadPollInv, SkipPollInv DEF Consume, PollerStep, LookSteps
<1>3. CASE Fault
  BY <1>0, <1>3, ProducerPollInv, RestartPollInv DEF Fault
<1>4. CASE UNCHANGED vars
  <2>1. UNCHANGED pollerVars /\ UNCHANGED <<file, fileFlushed, accepted, generation, fileGood, producer>>
    BY <1>4 DEF vars, fileVars, writerVars
  <2> QED
    BY <1>0, <2>1, DataFileSame, SamePollerTypes DEF PollInv
<1> QED
  BY <1>1, <1>2, <1>3, <1>4 DEF FaultyNext, Next

(* A consumer that has read the first message of the queue as it is now    *)
(* has got an exact prefix of what was written, whatever crashes of the    *)
(* producer, restarts of it between any two of its system calls and        *)
(* restarts of its own there have been.                                    *)
THEOREM SessionsInOrder == FaultySpec => []SessionInOrder
<1>1. Init => PollInv
  BY InitPollInv
<1>2. PollInv /\ [FaultyNext]_vars => PollInv'
  BY NextPollInv
<1>3. PollInv => SessionInOrder
  BY DEF PollInv, Laid, Followed, SessionInOrder
<1> QED
  BY <1>1, <1>2, <1>3, PTL DEF FaultySpec

(* The types of both files, of the producer and of the poller hold         *)
(* through all faults.                                                     *)
THEOREM TypesSurvive == FaultySpec => []TypeOK
<1>1. Init => PollInv
  BY InitPollInv
<1>2. PollInv /\ [FaultyNext]_vars => PollInv'
  BY NextPollInv
<1>3. PollInv => TypeOK
  BY DEF PollInv, DiskInv, TypeOK
<1> QED
  BY <1>1, <1>2, <1>3, PTL DEF FaultySpec
=============================================================================
