CONSTANTS
  short = short
  long = long
  Ids = {1, 2, 3}
  Bodies <- MCBodies
  NoBody = NoBody
  Pages <- MCPages
  PageLimit = 3
  MaxRows = 2
  Tombstones = 1
  Limit = 2
  Syncers = {timer, person}
  Paired = {timer}
  NoSyncer = NoSyncer
  timer = timer
  person = person
  Poison = {3}
  Waits = {1}
  CrashPoints <- AllPoints
  MaxFirings = 4
  MaxClock = 1
SPECIFICATION Spec
INVARIANTS TypeOK NoRowLost Conservation BackoffRespected NoConflictWhileRemembered
PROPERTY ImplementsDelivery
CHECK_DEADLOCK FALSE
