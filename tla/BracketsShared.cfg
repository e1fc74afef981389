SPECIFICATION Spec
SYMMETRY Symmetric
CONSTANTS
  c1 = c1
  c2 = c2
  c3 = c3
  h1 = h1
  h2 = h2
  main = main
  side = side
  one = one
  two = two
  None = None
  Hooks <- MCHooks
  Calls <- Two
  Session <- MCSession
  Checkouts = {main}
  MaxMarks = 2
  Ttl = 9
  MaxLinked = 2
  MaxCommits = 1
  MaxRewrites = 0
  MaxFirings = 4
INVARIANT SharedCommitsCounted
CHECK_DEADLOCK FALSE
