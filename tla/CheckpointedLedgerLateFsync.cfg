SPECIFICATION Spec
CONSTANTS
  p1 = p1
  p2 = p2
  l1 = l1
  l2 = l2
  e1 = e1
  e2 = e2
  None = None
  Proc <- MCProc
  LedgerId <- MCOneLedger
  Event <- MCEvent
  MaxLength = 2
  LateFsyncError = TRUE
SYMMETRY OneLedgerSymmetry
PROPERTIES
  FailedCheckpointBlocks
CHECK_DEADLOCK FALSE
