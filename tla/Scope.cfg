SPECIFICATION ScopeSpec
SYMMETRY Symmetry
CONSTANTS
  a1 = a1
  a2 = a2
  h1 = h1
  machine = machine
  repository = repository
  k1 = k1
  k2 = k2
  e1 = e1
  None = None
  Unreadable = Unreadable
  Procs <- MCProcs
  Hooks <- MCHooks
  Targets <- MCTargets
  Wide <- MCWide
  Outside <- MCWide
  Pairings <- MCPairings
  Entries <- MCEntries
  Listing <- MCListing
  Accepting <- MCAccepting
  MaxReplies = 2
CONSTRAINTS
  FirstPairing
  SetupsBefore
INVARIANTS
  ScopeTypeOK
  FrozenTarget
  NamesWereShown
  AgentRunsMarked
PROPERTIES
  PairsOnce
  RepliesInOrder
CHECK_DEADLOCK FALSE
