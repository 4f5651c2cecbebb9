SPECIFICATION DispatchSpec
CONSTANTS
  a1 = a1
  a2 = a2
  a3 = a3
  x = x
  y = y
  z = z
  Attempts = {a1, a2, a3}
  Contexts = {x, y, z}
  MaxRun = 2
  MaxFrame = 2
  Capacity = 2
  Window = 2
  MaxLabels = 5
  NoAttempt = NoAttempt
  Offers <- SomeOffers
  MaxOffers = 2
  MaxBehind = 1
  MaxVersion = 1
SYMMETRY Symmetry
INVARIANTS
  OutcomeSupported
  LabelledOnce
  RecordsAgree
PROPERTIES
  AttemptForward
  Arbitration
\* When the attempt IDs, the runs and the frames are used up, nothing is left to do.
CHECK_DEADLOCK FALSE
