SPECIFICATION Spec
CONSTANTS
  Nobody = Nobody
  s1 = s1
  carol = carol
  dave = dave
  Browsers = {b1}
  Pages = {g1}
  Sends = {s1}
  Peers = {carol}
  PeerOf <- OnePeer
  Reads = {r1}
  PreKeyCount = 1
  MaxGenerations = 3
  MaxFaults = 0
SYMMETRY Interchangeable
INVARIANTS
  FirstMessageOpens
CHECK_DEADLOCK FALSE
