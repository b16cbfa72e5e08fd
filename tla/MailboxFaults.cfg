SPECIFICATION Spec
CONSTANTS
  m1 = m1
  m2 = m2
  alice = alice
  bob = bob
  d1 = d1
  n1 = n1
  n2 = n2
  w1 = w1
  w2 = w2
  Offline = Offline
  Messages = {m1}
  Users = {bob}
  To <- ToBob
  Devices = {d1}
  Owner <- OwnedByBob
  Nodes = {n1}
  Workers = {w1, w2}
  Undecryptable = {}
  Optional = {}
  Faults = {"disconnect", "crash", "reload", "abort", "expire", "resume"}
  PendingLimit = 1
  PageLimit = 1
  RecentLimit = 1
  MaxRetries = 2
  MaxSends = 1
  MaxFaults = 1
SYMMETRY Interchangeable
INVARIANTS
  TypeOK
  PurgedOnlyAfterDelivery
  FailedOnlyWhenExhausted
PROPERTIES
  ImplementsContract
