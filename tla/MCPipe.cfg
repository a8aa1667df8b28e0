SPECIFICATION Spec
CONSTANTS
  r1 = r1
  r2 = r2
  w1 = w1
  w2 = w2
  NULL = NULL
  Readers = {r1}
  Writers = {w1}
  BufferSize = 5
  Sizes = {2, 6}
  Nonblocking = {TRUE, FALSE}
  Peeking = {TRUE, FALSE}
  MaxCount = 2
  MaxFds = 2
  MaxSent = 5
VIEW View
CHECK_DEADLOCK FALSE
INVARIANTS
  RoomExact
  ControlWhole
PROPERTIES
  ImplementsSegmentQueue
