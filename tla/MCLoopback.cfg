SPECIFICATION LoopbackFairSpec
CONSTANTS
  s1 = s1
  y1 = y1
  w = w
  j1 = j1
  recv = recv
  WorkerThread = w
  TrySchedulers = {y1}
  RecvJob = recv
  Jobs = {j1, recv}
  Schedulers = {s1}
  TimerJobs = {j1}
  JobsLen = 4
  MaxSent = 6
CHECK_DEADLOCK FALSE
INVARIANTS
  InOrderOnce
PROPERTIES
  ImplementsJobQueue
  JobsProgress
  EveryPacketHandled
