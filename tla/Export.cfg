SPECIFICATION Spec
CONSTANTS
  None = None
  Evidence = {e1}
  Decision = {d1, d2}
  Human = {h1, h2}
  Supervisor = {h1}
  Limit = {1, 3}
  MaxEvents = 18
  MaxDamage = 1
SYMMETRY Symmetry
CONSTRAINT Bounded
CHECK_DEADLOCK FALSE
INVARIANTS
  ReadingIsOnePrefix
  FrozenCanBePinned
  ReleasedIsAccepted
PROPERTIES
  ReadingAdvances
  OnlyReleasedIsAccepted
