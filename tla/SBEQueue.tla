------------------------------ MODULE SBEQueue ------------------------------
(***************************************************************************)
(* An SBE queue at work: one producer process, SBEBinaryWriter, and one    *)
(* live consumer, SBEQueuePoller, which share nothing but the two files.   *)
(*                                                                         *)
(* Spec is the queue while the producer stays up and its disk takes every  *)
(* byte.  FaultySpec adds crashes and restarts of the producer, failing    *)
(* flushes, and restarts of a consumer that died.                          *)
(***************************************************************************)
EXTENDS SBEBinaryWriter, SBEQueuePoller

vars == <<fileVars, writerVars, pollerVars>>

Init == FilesInit /\ WriterInit /\ PollerInit

Produce == WriterNext /\ UNCHANGED pollerVars

Consume == PollerStep(generation) /\ UNCHANGED <<fileVars, writerVars>>

Next == Produce \/ Consume

Spec == Init /\ [][Next]_vars

(* The producer's threads run, so a write that was begun ends; GWRunner    *)
(* (and any consumer of the queue) calls next() for ever.                  *)
Fairness ==
  /\ \A t \in Threads : WF_vars(WriterStep(t) /\ UNCHANGED pollerVars)
  /\ WF_vars(Consume)

FairSpec == Spec /\ Fairness

Fault ==
  \/ (WriterFault \/ Reopen) /\ UNCHANGED pollerVars
  \/ PollerRestart /\ UNCHANGED <<fileVars, writerVars>>

FaultyNext == Next \/ Fault

FaultySpec == Init /\ [][FaultyNext]_vars

TypeOK == FilesTypeOK /\ WriterTypeOK /\ PollerTypeOK

-----------------------------------------------------------------------------
(* writeMessage returns only when its message is visible, whatever thread  *)
(* called it: with the mutex free, everything written is on disk and       *)
(* indexed (SBEBinaryWriter.h:127-134).                                    *)
VisibleOnReturn ==
  writeMutex = NoThread =>
    /\ fileFlushed = Len(file)
    /\ indexFlushed = Len(index)
    /\ Len(index) = Len(accepted)

(* The consumer is given the messages the producer's threads wrote, whole, *)
(* in the order of their writes, none twice and none left out.             *)
DeliveredInOrder ==
  /\ Len(delivered) <= Len(accepted)
  /\ \A i \in 1 .. Len(delivered) : delivered[i] = accepted[i]

(* next() never reads past what is on disk: it neither faults nor reads    *)
(* the zeros behind the end of the file.                                   *)
ReadsCommitted ==
  /\ step = "copy" => filePosition + Available <= Least(fileSize, fileFlushed)
  /\ step # "dead"

(* Every message that was written is delivered.                            *)
AllDelivered ==
  \A i \in 1 .. MaxMessages : Len(accepted) >= i ~> Len(delivered) >= i

(* A committed offset is on disk, whatever crashes and restarts there      *)
(* were: the index is ahead of the data only after a write error, and from *)
(* the moment openNewFile has truncated messages.sbe until it truncates    *)
(* the index, which may be another process, if this one dies in between.   *)
CommittedOnDisk ==
  fileGood /\ (producer = "up" \/ fileFlushed > 0) =>
    \A i \in 1 .. indexFlushed : index[i] <= fileFlushed

(* What a consumer has read since it was last at the top of the file is an *)
(* exact prefix of what the producer wrote, if the producer has not been   *)
(* restarted since (session = generation): crashes in mid-write, restarts  *)
(* under the poller's feet and stale mappings never make it start in the   *)
(* middle of a message, skip or repeat one.                                *)
SessionInOrder == session = generation /\ fileGood => DeliveredInOrder

(* SBEBinaryWriter.h:122 says that the index entry is written "so          *)
(* consumers know all data up to this point is safely committed".          *)
IndexedIsCommitted ==
  producer # "truncated" => \A i \in 1 .. indexFlushed : index[i] <= fileFlushed

-----------------------------------------------------------------------------
(* The abstract queue: a message is published when its index entry is on   *)
(* disk, and the consumer takes the published messages one by one.         *)
Abstract ==
  INSTANCE MessageQueue WITH
    Messages  <- Message,
    published <- SubSeq(accepted, 1, indexFlushed),
    consumed  <- delivered

(* The queue of files implements the abstract queue: nothing is taken      *)
(* before it is published, published or taken out of order, or taken       *)
(* twice, and what is published is taken in the end.                       *)
AbstractQueue == Abstract!FairSpec
=============================================================================
