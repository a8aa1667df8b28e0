SPECIFICATION FairSpec
CONSTANTS
  r1 = r1
  r2 = r2
  w1 = w1
  w2 = w2
  NULL = NULL
  Readers = {r1}
  Writers = {w1}
  BufferSize = 4
  Sizes = {}
  Nonblocking = {FALSE}
  Peeking = {FALSE}
  MaxCount = 3
  MaxFds = 1
  MaxSent = 4
CHECK_DEADLOCK FALSE
PROPERTIES
  SpinEnds
  SendReturns
