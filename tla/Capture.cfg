CONSTANTS
  Runs <- MCRuns
  Launched <- MCLaunched
  Operators = {o1}
  Flushers = {f1, f2}
  Settings <- MCSettings
  None = None
  MaxIds = 3
SPECIFICATION Spec
SYMMETRY MCSymmetry
INVARIANTS
  TypeOK
  OneEnvelope
  ExitTruth
  OutcomeTruth
  SpoolKeeps
PROPERTY ImplementsDelivery
