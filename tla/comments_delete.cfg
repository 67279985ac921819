SPECIFICATION Spec
CONSTANTS
  u1 = u1  u2 = u2  c1 = c1  c2 = c2  c3 = c3  i1 = i1  i2 = i2  i3 = i3
  Users = {u1, u2}
  Comments = {c1, c2, c3}
  Author <- MCAuthor
  Admins <- MCAdmins
  SessionIds = {i1, i2, i3}
  Tasks = {t1, t2}
  LibertySets <- DeletionsAlone
  None = None
SYMMETRY Symmetry
VIEW WithoutShown
INVARIANTS DeletionsKeepCopies
CHECK_DEADLOCK FALSE
