SPECIFICATION Spec
CONSTANTS
  Users = {alice, bob}
  Tokens = {t1, t2, t3}
  Requests = {r1, r2}
  NoToken = NoToken
  NoUser = NoUser
SYMMETRY Interchangeable
INVARIANTS
  TypeOK
  OneLivePerFamily
  SingleUse
PROPERTIES
  EndedStaysEnded
