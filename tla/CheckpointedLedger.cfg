SPECIFICATION FairSpec
CONSTANTS
  p1 = p1
  p2 = p2
  l1 = l1
  l2 = l2
  e1 = e1
  e2 = e2
  None = None
  Proc <- MCProc
  LedgerId <- MCLedgerId
  Event <- MCEvent
  MaxLength = 2
  LateFsyncError = TRUE
INVARIANTS
  WitnessNeverAhead
  TornMeansBlocked
  CurrentIsArchived
  AcknowledgedIsWitnessed
PROPERTIES
  BlockedIsFinal
  ImplementsAtomicLedger
  LockIsReleased
\* Everything may stop once both ledgers are full or out of service.
CHECK_DEADLOCK FALSE
