SPECIFICATION Spec
CONSTANTS
  kernel = kernel
  first = first
  a = a
  b = b
  third = third
  system = kernel
  init0 = first
  Children <- Two
  Exits = {first, a, b, third}
  Threaded = {a}
  Waits = {"any"}
  Careful = TRUE
CHECK_DEADLOCK FALSE
INVARIANTS
  
  
  WaitersAwake
