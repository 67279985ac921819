SPECIFICATION Spec
CONSTANTS
  u1 = u1  u2 = u2  p1 = p1  p2 = p2  a = a  b = b
  Users = {u1}
  Projects = {p1, p2}
  Positions = {a, b}
  THROTTLE_MS = 2
  BATCH_SIZE = 2
  TRAIL_LENGTH = 3
  PATH_LIMIT = 4
  PATH_KEPT = 2
  Batches <- MCBatches
  Epoch = 2
  MaxTime = 5
  Never = Never
VIEW WithoutEvents
INVARIANTS TypeOK BoundedMemory PathKeepsRecent
PROPERTIES Throttled
CHECK_DEADLOCK FALSE
