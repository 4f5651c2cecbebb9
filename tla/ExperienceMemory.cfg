SPECIFICATION MemorySpec
CONSTANTS
  Scenes <- MCScenes
  Sessions = {TRUE, FALSE}
  MaxColumns = 2
  MaxTypes = 1
  MaxLines = 5
  MaxRuns = 2
  MaxEpochs = 2
CHECK_DEADLOCK FALSE
INVARIANTS
  SavedIsLoadable
PROPERTIES
  SamplesHonest
  NewestKept
