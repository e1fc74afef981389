SPECIFICATION Spec
SYMMETRY Symmetric
CONSTRAINT RowsMayChange
CONSTANTS
  c1 = c1
  c2 = c2
  c3 = c3
  h1 = h1
  h2 = h2
  main = main
  side = side
  one = one
  two = two
  None = None
  Hooks <- MCHooks
  Calls <- Two
  Session <- MCSession
  Checkouts = {main, side}
  MaxMarks = 2
  Ttl = 3
  MaxLinked = 1
  MaxCommits = 1
  MaxRewrites = 1
  MaxFirings = 4
INVARIANTS TypeOK OwnCommitsLinked NothingOlderLinked ForeignCommitsCounted
CHECK_DEADLOCK FALSE
