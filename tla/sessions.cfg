SPECIFICATION Spec
CONSTANTS
  Users = {u1, u2}
  Projects = {p1}
  RowIds = {r1, r2, r3}
  Tasks = {t1, t2, t3}
  LibertySets <- OneByOne
  None = None
SYMMETRY Symmetry
INVARIANTS TypeOK SingleRow AnsweredIsSaved
CHECK_DEADLOCK FALSE
