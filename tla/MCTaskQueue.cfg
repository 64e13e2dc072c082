CONSTANTS
  Planner = planner
  Workers = {w1, w2, w3}
  Task = {t1, t2}
  NoTask = NoTask
  Capacity = 3
SPECIFICATION QueueSpec
SYMMETRY Symmetry
INVARIANTS
  QueueTypeOK
  RingOK
  NoLostWakeup
PROPERTY ImplementsBoundedFifo
