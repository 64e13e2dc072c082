CONSTANTS
  Planner = planner
  Workers = {w1, w2}
  p1 = p1
  p2 = p2
  p3 = p3
  p4 = p4
  Path = {p1, p2, p3, p4}
  Task = {p1, p2, p3, p4}
  NoTask = NoTask
  Capacity = 1
  InitialCapacity = 1
  Inputs <- SafetyInputs
  MaxFaults = 1
SPECIFICATION Spec
SYMMETRY Symmetry
INVARIANT FirstErrorReported
