SPECIFICATION Spec
CONSTANTS
  Users = {alice, bob}
  General = general
  Existing = {general}
  Others = {dev}
  None = None
  Handlers = {h1, h2}
  Limit = 1
  HistoryLimit = 1
  MaxSteps = 2
  MaxFaults = 1
SYMMETRY Interchangeable
CHECK_DEADLOCK FALSE
INVARIANTS
  TypeOK
  HearsItsRoom
  SeenOnce
  ShowsItsRoom
  ReadMeansOpened
