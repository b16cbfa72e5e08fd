SPECIFICATION FairSpec
CONSTANTS
  m1 = m1
  m2 = m2
  alice = alice
  bob = bob
  d1 = d1
  n1 = n1
  n2 = n2
  w1 = w1
  w2 = w2
  Offline = Offline
  Messages = {m1, m2}
  Users = {alice, bob}
  To <- ToAliceAndBob
  Devices = {d1}
  Owner <- OwnedByBob
  Nodes = {n1}
  Workers = {w1}
  Undecryptable = {}
  Optional = {}
  Faults = {"disconnect", "crash", "reload", "abort"}
  PendingLimit = 1
  PageLimit = 2
  RecentLimit = 1
  MaxRetries = 1
  MaxSends = 1
  MaxFaults = 1
PROPERTIES
  EventuallyResolved
