SPECIFICATION FairSpec
CONSTANTS
  Worker = {t1, t2, t3}
  Job = {j1, j2, j3, j4}
  Main = Main
  None = None
INVARIANTS
  PoolInv
  QueueUnderMutex
  EachJobOnce
  NoSleepOnBacklog
PROPERTIES
  ImplementsJobQueue
  JobsGetDone
