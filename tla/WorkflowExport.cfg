\* An export of a closed case is interrupted.
SPECIFICATION Spec
CONSTANTS
  None = None
  Decision = {d1, d2}
  Offered = {"close_case", "export_case", "reconcile_execution"}
  LateFsyncError = FALSE
SYMMETRY Symmetry
INVARIANTS
  UnknownCanBeReconciled
\* Nothing is left to do once the ledger is out of service.
CHECK_DEADLOCK FALSE
