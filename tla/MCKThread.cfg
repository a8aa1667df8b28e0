SPECIFICATION FairSpec
CONSTANTS
  t1 = t1
  t2 = t2
  t3 = t3
  Threads = {t1, t2}
  TimerThreads = {t1}
INVARIANTS
  TypeOK
  MutualExclusion
  NoLostMutexWakeup
  NoLostCondWakeup
  CondListExact
PROPERTIES
  ImplementsMonitor
  LockStarvesOnlyByOvertaking
  SignalledWaiterResumes
