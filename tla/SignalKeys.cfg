SPECIFICATION Spec
CONSTANTS
  Nobody = Nobody
  s1 = s1
  carol = carol
  dave = dave
  Browsers = {b1}
  Pages = {g1, g2}
  Sends = {s1, s2, s3}
  Peers = {carol, dave}
  PeerOf <- TwoPeers
  Reads = {r1}
  PreKeyCount = 2
  MaxGenerations = 3
  MaxFaults = 1
SYMMETRY AndMessages
CONSTRAINT Explored
INVARIANTS
  TypeOK
  PublishedIsHeld
  FailureIsExplained
  HandedOutOnce
CHECK_DEADLOCK FALSE
