\* Two restarts of the producer, write errors, a consumer that dies.
CONSTANTS
  t1 = t1
  t2 = t2
  NoThread = NoThread
  Threads <- MCOneThread
  Sizes <- MCWritableSizes
  BufferSize <- MCBufferSize
  MaxMessages = 4
  MaxGenerations = 3
SPECIFICATION FaultySpec
INVARIANTS CommittedOnDisk SessionInOrder
