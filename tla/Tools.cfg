SPECIFICATION Spec
CONSTANTS
  None = None
  Refused = Refused
  MaxRecords = 2
  Calls <- MCCalls
\* A call returns once.
CHECK_DEADLOCK FALSE
INVARIANTS
  EnoughHumans
  ImportHidesNothing
  TimelineIsHonest
  PackFiresAsTested
