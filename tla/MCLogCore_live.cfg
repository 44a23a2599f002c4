\* Two threads log one message each to an asynchronous and a synchronous appender
\* that come and go, while the mode changes and one of them closes the appenders.
\* Without a shutdown all messages are written, under fairness.
CONSTANTS
  c1 = c1
  c2 = c2
  w1 = w1
  w2 = w2
  w3 = w3
  a1 = a1
  a2 = a2
  i1 = i1
  i2 = i2
  NoItem = NoItem
  NoMessage = NoMessage
  Callers <- TwoCallers
  Workers <- TwoWorkers
  Appenders <- TwoAppenders
  DisableAsync <- SyncAppender
  Hits <- AllHits
  Items <- TwoItems
  Lengths <- ShortLength
  DefSize = 2
  PoolSize = 2
  IntMax = 10
  MaxCalls = 1
  MaxStops = 0
  MaxPolls = 2
  CreateMayFail = FALSE
  Closers <- OneCaller
SPECIFICATION FairSpec
INVARIANTS
  QueueOrder
  ListedOnce
  AtMostOnce
PROPERTIES
  EventuallyWritten
  ImplementsQueue
\* Every call may have been made and the worker may wait for ever.
CHECK_DEADLOCK FALSE
