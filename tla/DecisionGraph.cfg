SPECIFICATION Spec
CONSTANTS
  N = 3
  Dependencies <- All
  Demanding = {1, 2}
  MaxSnapshot = 2
\* After the last snapshot there is nothing left to evaluate.
CHECK_DEADLOCK FALSE
INVARIANTS
  ResultsConsistent
PROPERTIES
  NothingAfterDeadline
