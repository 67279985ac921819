SPECIFICATION Spec
CONSTANTS
  Ids = {r1, r2}
  Emails = {e1, e2}
  Bases = {b}
  MaxCounter = 1
  Identities = {google, github}
  Tokens = {k1, k2}
  Tasks = {t1, t2}
  LibertySets <- NoDisorder
  None = None  Removed = Removed  LoggedOut = LoggedOut
SYMMETRY Symmetry
INVARIANTS LogoutRemovesToken
CHECK_DEADLOCK FALSE
