\* The data flush fails and the index flush does not.
CONSTANTS
  t1 = t1
  t2 = t2
  NoThread = NoThread
  Threads <- MCOneThread
  Sizes <- MCWritableSizes
  BufferSize <- MCBufferSize
  MaxMessages = 2
  MaxGenerations = 1
SPECIFICATION FaultySpec
INVARIANT IndexedIsCommitted
