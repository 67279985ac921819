SPECIFICATION Spec
CONSTANTS
  u1 = u1  u2 = u2  c1 = c1  c2 = c2  c3 = c3  i1 = i1  i2 = i2  i3 = i3
  Users = {u1, u2}
  Comments = {c1, c3}
  Author <- TwoAuthors
  Admins <- MCAdmins
  SessionIds = {i1, i2, i3}
  Tasks = {t1, t2}
  LibertySets <- NoneOrAll
  None = None
SYMMETRY Symmetry
VIEW WithoutShown
INVARIANTS TypeOK CopiedTwice CopyComplete
CHECK_DEADLOCK FALSE
