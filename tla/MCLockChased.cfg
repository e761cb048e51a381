SPECIFICATION Spec
CONSTANTS
  p1 = p1
  p2 = p2
  p3 = p3
  Procs = {p1, p2, p3}
  Ports = 8
  Free = Free
  Stranger = Stranger
  StrangerPorts = {}
  Stallable = {}
  MaxStarts = 10
  MaxFaults = 0
SYMMETRY Symmetry
INVARIANT Exclusive
CHECK_DEADLOCK FALSE
