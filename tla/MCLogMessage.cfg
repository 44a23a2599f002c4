\* Messages in the making: the pool, the names and the header together.
CONSTANTS
  i1 = i1
  i2 = i2
  i3 = i3
  t1 = t1
  t2 = t2
  Items <- MCItems
  Threads <- MCThreads
  Lengths <- MCLengths
  DefSize = 3
  PoolSize = 1
  IntMax = 1
  Calls <- MCCalls
  Names <- MCNames
  HostLen = 50
  FlagSets <- MCFlagSets
  BufferSizes <- MCBufferSizes
  TornLengths = {0, 10}
  Null = Null
SYMMETRY MCSymmetry
SPECIFICATION MessageSpec
INVARIANTS
  MessageTypeOK
  PoolUniform
  MessageAsCalled
  HeaderCut
  HeaderMeasured
  HeaderRoom
