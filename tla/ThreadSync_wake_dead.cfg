\* A thread killed while enqueued on a mutex is later woken by unlock.
CONSTANTS
  t1 = t1
  t2 = t2
  t3 = t3
  k = k
  none = none
  Threads <- MC_Threads
  InitThread = t1
  Killer = k
  NoThread = none
  MaxMutex = 1
  MaxSem = 0
  MaxSemUp = 0
  MaxCondvar = 0
  MaxKill = 1
  SemInit = {0}
  Misuse = {}
SPECIFICATION Spec
PROPERTY ReadyGainsOnlyLive
CHECK_DEADLOCK FALSE
