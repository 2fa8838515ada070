SPECIFICATION Spec
CONSTANTS
  u1 = u1
  u2 = u2
  o1 = o1
  o2 = o2
  Urls <- MCUrls
  NoUrl = NoUrl
  NoProvider = NoProvider
  NoAuth = NoAuth
  NoConfig = NoConfig
  NoThread = NoThread
  Others = {o1, o2}
  Configs <- MCConfigs
  Threads = {t1, t2}
  Configurers = {t1}
  Editors = {t2}
  Callers = {t2}
INVARIANTS
  TypeOK
  AuthRecordHonest
PROPERTIES
  EventuallySettled
  EventuallyDeclared
