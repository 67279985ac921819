SPECIFICATION Spec
CONSTANTS
  moved = moved  commented = commented
  Users = {u1, u2}
  Strangers = {x1}
  System = system
  CreatesThread <- Created
  ThreadIds = {h1, h2}
  Batches <- Sent
  Tasks = {t1, t2}
  MaxStored = 3
  None = None
INVARIANTS ThreadHasComment
CHECK_DEADLOCK FALSE
