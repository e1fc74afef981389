CONSTANTS
  short = short
  long = long
  Ids = {1, 2, 3}
  Bodies <- OneBody
  NoBody = NoBody
  Pages <- OnePage
  PageLimit = 3
  MaxRows = 3
  Tombstones = 1
  Limit = 2
  Syncers = {timer, person}
  Paired = {timer, person}
  NoSyncer = NoSyncer
  timer = timer
  person = person
  Poison = {2}
  Waits = {1}
  CrashPoints <- WhileSending
  MaxFirings = 3
  MaxClock = 1
SPECIFICATION FairSpec
PROPERTY EventuallyDelivered
CHECK_DEADLOCK FALSE
