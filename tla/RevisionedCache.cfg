SPECIFICATION Spec
CONSTANTS
  a = a
  b = b
  c = c
  t1 = t1
  t2 = t2
  Tasks = {t1, t2}
  Keys = {a, b, c}
  Revisions = {1, 2}
  Sizes = {1, 2, 3}
  MaxEntries = 2
  MaxBytes = 4
  MaxTicket = 4
  Lifetimes = {1, 3}
  Horizon = 2
SYMMETRY Symmetry
INVARIANTS
  HitIsFresh
  Consistent
