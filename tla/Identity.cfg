\* One account, two processes, two passwords, two sessions.
CONSTANTS
  User = {ann}
  Peer = {here}
  Password = {old, new}
  Proc = {p1, p2}
  Token = {t1, t2}
  None = None
  Limit = 1
  MaxRevision = 3
SPECIFICATION Spec
SYMMETRY Symmetric
INVARIANTS
  OpenedWithPasswordInForce
  SelfServiceIsSerialized
  GuessesAreBounded
PROPERTIES
  SessionEndsForGood
  ResetDoesNotEnable
