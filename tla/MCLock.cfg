SPECIFICATION LiveSpec
CONSTANTS
  p1 = p1
  p2 = p2
  p3 = p3
  Procs = {p1, p2}
  Ports = 3
  Free = Free
  Stranger = Stranger
  StrangerPorts = {1, 2}
  Stallable = {p1, p2}
  MaxStarts = 5
  MaxFaults = 3
INVARIANTS
  Exclusive
PROPERTY SomeoneWins
CHECK_DEADLOCK FALSE
