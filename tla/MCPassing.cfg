SPECIFICATION Spec
CONSTANTS
  t1 = t1
  t2 = t2
  k1 = k1
  k2 = k2
  k3 = k3
  Threads = {t1, t2}
  Connections = {k1, k2}
  MaxBuffered = 2
VIEW View
CHECK_DEADLOCK FALSE
INVARIANTS
  NoTower
