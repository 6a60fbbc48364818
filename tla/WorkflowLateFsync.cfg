\* The exception handler runs after the acceptance of a finding has completed.
SPECIFICATION Spec
CONSTANTS
  None = None
  Decision = {d1, d2}
  Offered = {"accept_finding"}
  LateFsyncError = TRUE
SYMMETRY Symmetry
INVARIANTS
  HistoryIsAccepted
\* Nothing is left to do once the ledger is out of service.
CHECK_DEADLOCK FALSE
