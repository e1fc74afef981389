CONSTANTS
  h1 = h1
  h2 = h2
  h3 = h3
  i1 = i1
  i2 = i2
  i3 = i3
  None = None
  Hooks <- MCHooks
  Inodes <- MCInodes
  Cap = 1
  MaxNotes = 4
SYMMETRY Symmetric
SPECIFICATION Spec
INVARIANTS TypeOK CountedOnce LogBounded StatusSound
CHECK_DEADLOCK FALSE
