\* Two threads log short and long messages and shut down at any time: two
\* workers can be alive, the last store of the old one falls on the flag of the
\* new one, and a worker cannot always be started.
CONSTANTS
  c1 = c1
  c2 = c2
  w1 = w1
  w2 = w2
  w3 = w3
  a1 = a1
  a2 = a2
  i1 = i1
  i2 = i2
  NoItem = NoItem
  NoMessage = NoMessage
  Callers <- TwoCallers
  Workers <- ThreeWorkers
  Appenders <- OneAppender
  DisableAsync <- NoAppender
  Hits <- AllHits
  Items <- TwoItems
  Lengths <- ShortAndLong
  DefSize = 2
  PoolSize = 2
  IntMax = 10
  MaxCalls = 1
  MaxStops = 1
  MaxPolls = 2
  CreateMayFail = TRUE
  Closers <- TwoCallers
SYMMETRY ClearSymmetry
SPECIFICATION Spec
INVARIANTS
  TypeOK
  OneOwner
  NoLeak
  WorkerBound
  NoLostWakeup
  NoUseAfterRelease
  NoLoss
\* Every call may have been made and the worker may wait for ever.
CHECK_DEADLOCK FALSE
