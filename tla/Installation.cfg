SPECIFICATION Spec
CONSTANTS
  None = None
  Human = {h1, h2}
  Decision = {d1, d2}
  MaxRevision = 1
  MaxBroken = 1
SYMMETRY Symmetry
CONSTRAINT OneSiteAtATime
CHECK_DEADLOCK FALSE
INVARIANTS
  BackupIsConsistent
  NothingIsRevived
  RecoveryMissesNothing
