SPECIFICATION Spec
CONSTANTS
  r1 = r1
  r2 = r2
  w1 = w1
  w2 = w2
  NULL = NULL
  Readers = {r1, r2}
  Writers = {w1, w2}
  BufferSize = 4
  Sizes = {}
  Nonblocking = {FALSE}
  Peeking = {FALSE}
  MaxCount = 2
  MaxFds = 1
  MaxSent = 3
VIEW View
CHECK_DEADLOCK FALSE
SYMMETRY Symmetry
INVARIANTS
  ThreadsAwake
  HeaderFresh
