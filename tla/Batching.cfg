SPECIFICATION AsioSpec
CONSTANTS
  pair = pair
  hook = hook
  late = late
  w1 = w1
  w2 = w2
  k1 = k1
  k2 = k2
  Calls = {pair, hook, late}
  Callbacks <- MCCallbacks
  Width <- MCWidth
  Bucket <- PairSplit
  Cancellable <- FirstRow
  Timed <- SecondRow
  Workers = {w1, w2}
  Closers = {k1, k2}
  Answers = {"ok", "error", "mismatch", "throw"}
  Capacity = 2
  MaxBatch = 2
  Uses <- MCUses
  Destructor = k1
CHECK_DEADLOCK FALSE
INVARIANTS
  RowsAccounted
  ShutdownDrains
  PoolOutlivesOperations
PROPERTIES
  OldestFirst
  ImplementsExecutor
  EveryoneAnswered
