SPECIFICATION FairSpec
CONSTANTS
  c1 = c1
  c2 = c2
  k1 = k1
  k2 = k2
  k3 = k3
  b1 = b1
  b2 = b2
  Callers = {c1, c2}
  Keys = {k1, k2, k3}
  Buffers = {b1, b2}
  Batches <- Pairs
  KeyBytes <- OneByte
  Bytes <- Sizes
  Unfit = {k2}
  Entries = 2
  ByteLimit = 3
  Reusable = 1
  None = None
INVARIANTS
  SharedInOrder
PROPERTIES
  OwnAnswer
  CallsReturn
