SPECIFICATION Spec
SYMMETRY Symmetry
CONSTANTS
  p1 = p1
  p2 = p2
  o1 = o1
  o2 = o2
  h1 = h1
  stop = stop
  late = late
  None = None
  Plans <- MCPlans
  Keys <- MCKeys
  Events <- MCEvents
  Late <- MCLate
  Ops <- MCOps
  Hooks <- MCHooks
  MaxEdits = 1
  MaxRows = 1
INVARIANTS
  TypeOK
  RemovedIsClean
  NotStacked
  RestoresOriginal
  Recoverable
  EditsSurvive
PROPERTIES
  CapturedWhileActive
CHECK_DEADLOCK FALSE
