CONSTANTS
  a = a
  b = b
  c = c
  d = d
  Ids <- MCIds
  Seqs = {1, 2, 3, 4}
  BatchSize = 2
  Batches = 3
  Late = TRUE
  Manual = FALSE
SPECIFICATION Spec
INVARIANT VisitedAtMostOnce
CHECK_DEADLOCK FALSE
