SPECIFICATION Spec
CONSTANTS
  m1 = m1
  m2 = m2
  alice = alice
  bob = bob
  d1 = d1
  n1 = n1
  n2 = n2
  w1 = w1
  w2 = w2
  Offline = Offline
  Messages = {m1}
  Users = {bob}
  To <- ToBob
  Devices = {d1}
  Owner <- OwnedByBob
  Nodes = {n1, n2}
  Workers = {w1}
  Undecryptable = {m1}
  Optional = {"read", "decryption_error"}
  Faults = {"crash"}
  PendingLimit = 1
  PageLimit = 1
  RecentLimit = 1
  MaxRetries = 1
  MaxSends = 2
  MaxFaults = 0
SYMMETRY Interchangeable
INVARIANTS
  AlreadyDeliveredIsTrue
  HiddenOnlyAfterDelivery
  FailedIsNotPending
