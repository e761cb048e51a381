SPECIFICATION LiveSpec
CONSTANTS
  p1 = p1
  p2 = p2
  u1 = u1
  u2 = u2
  c1 = c1
  c2 = c2
  Procs = {p1, p2}
  Self = p1
  Conns = {c1, c2}
  Updates = {u1, u2}
  Nobody = Nobody
  Absent = Absent
  Torn = Torn
INVARIANTS
  LockCoversWork
  StoppedLeavesNothing
  AckedKept
PROPERTIES
  Implements
  StopEnds
CHECK_DEADLOCK FALSE
