SPECIFICATION CurlSpec
CONSTANTS
  Batches <- Pair
  MaxRetries = 1
  CallTimeout = 3
  AttemptTimeout = 2
  InitialBackoff = 1
  MaxBackoff = 1
  Advised = {1}
  Deadlines = {0, 100}
  Horizon = 4
  Peers = {"peer"}
  Retained = 1
  PollSlice = 2
INVARIANTS
  RowsMatch
  WithinBudget
  LeasesExclusive
PROPERTIES
  RetriesAllowed
  ImplementsTransport
  CallReturns
