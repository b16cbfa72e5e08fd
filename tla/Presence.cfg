SPECIFICATION Spec
CONSTANTS
  alice = alice
  n1 = n1
  Users = {alice}
  Sockets = {s1, s2}
  UserOf <- OneUser
  Nodes = {n1}
  HomeOf <- OneNode
  Procs = {p1, p2}
  Beating = {s1}
  MaxFaults = 1
  NoUser = NoUser
  NoSocket = NoSocket
SYMMETRY Interchangeable
INVARIANTS
  TypeOK
  NothingImmortal
  UndisturbedStaysOnline
