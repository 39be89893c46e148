CONSTANTS
  user = user a1 = a1 a2 = a2 b1 = b1 b2 = b2 t1 = t1 t2 = t2 t3 = t3
  Users = {user, a1, a2}
  Admins = {a1, a2}
  Browsers = {b1, b2}
  Owner <- Owners
  Tabs = {t1, t2, t3}
  BrowserOf <- TabBrowsers
  None = none
  MaxActive = 1
  MaxRequests = 3
  MaxResets = 1
  MaxLost = 1
  DisablesOverlap = FALSE
SPECIFICATION Spec
SYMMETRY Alike
INVARIANT RefreshedOnce
INVARIANT JarInStep
INVARIANT SessionsBounded
INVARIANT OldSessionsEnd
INVARIANT AdminRemains
PROPERTY RevokedIsFinal
CHECK_DEADLOCK FALSE
