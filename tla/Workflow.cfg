\* Four decisions that name any tools and any targets, in any order.
SPECIFICATION Spec
CONSTANTS
  None = None
  Decision = {d1, d2, d3, d4}
  Offered <- Kind
  LateFsyncError = FALSE
SYMMETRY Symmetry
INVARIANTS
  RowMatchesReceipt
  SettledOnce
  ClosureIsClean
  InventoryHolds
PROPERTIES
  ClosedIsFrozen
\* Nothing is left to do once the ledger is out of service.
CHECK_DEADLOCK FALSE
