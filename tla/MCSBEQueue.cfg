\* The producer stays up: two threads, three messages.
CONSTANTS
  t1 = t1
  t2 = t2
  NoThread = NoThread
  Threads <- MCTwoThreads
  Sizes <- MCSizes
  BufferSize <- MCBufferSize
  MaxMessages = 3
  MaxGenerations = 1
SPECIFICATION FairSpec
INVARIANTS TypeOK VisibleOnReturn DeliveredInOrder ReadsCommitted
PROPERTIES AllDelivered AbstractQueue
