SPECIFICATION Spec
CONSTANTS
  a = a
  b = b
  e1 = e1
  e2 = e2
  r1 = r1
  r2 = r2
  fact = fact
  local = local
  Runs = {r1, r2}
  Ids = {fact, local}
  Objects = {a, b}
  Events = {e1, e2}
  Scope <- Mixed
  Priority <- MCPriority
  Life <- MCLife
  Cost <- MCCost
  Prompt = 1
  MaxFacts = 2
  MaxSeen = 1
  MaxTick = 2
  Evidence = {"verified_outcome"}
  Wrap = 2
SYMMETRY Symmetry
INVARIANTS
  FactsConsistent
  SnapshotRestorable
  ContextSound
PROPERTIES
  GenerationMoves
