SPECIFICATION Spec
CONSTANTS
  Messages = {m1, m2}
  Tokens = {"t1"}
  Calls = {c1, c2}
  MaxRetries = 1
  MaxId = 3
  MaxCalls = 5
  Limits = {1, 2}
SYMMETRY Interchangeable
CHECK_DEADLOCK FALSE
INVARIANTS
  TypeOK
  KeysAreUnique
  SnapshotsAreOpen
  ImplementsRepository
  SelectsWhatSqlSelects
