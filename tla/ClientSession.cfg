SPECIFICATION Spec
CONSTANTS
  Tabs = {t1}
  Jobs = {j1, j2}
  MaxTokens = 2
  MaxLoads = 1
INVARIANTS
  TypeOK
  JarIsLive
  SignedInHasToken
PROPERTIES
  CallsSettle
