SPECIFICATION Spec
CONSTANTS
  t1 = t1
  t2 = t2
  d1 = d1
  d2 = d2
  NULL = NULL
  Threads = {t1}
  Descs = {d1, d2}
  FirstLength = 3
  IntMax = 4
  MaxReserve = 2
VIEW View
INVARIANTS
  CountersExact
  
PROPERTIES
  AllocatesLowest
