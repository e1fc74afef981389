SPECIFICATION LifeSpec
SYMMETRY Symmetry
CONSTANTS
  p1 = p1
  p2 = p2
  p3 = p3
  o1 = o1
  stop = stop
  late = late
  None = None
  Plans <- MCPlans
  Keys <- MCKeys
  Events <- MCKeys
  Late <- MCLate
  Ops <- MCOps
  Hooks = {}
  MaxEdits = 1
  MaxRows = 0
PROPERTIES
  UninstallLeavesNoHooks
CHECK_DEADLOCK FALSE
