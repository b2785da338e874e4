\* One mutex, one semaphore of zero or one unit and two condition
\* variables; well-behaved threads, one kill.
CONSTANTS
  t1 = t1
  t2 = t2
  t3 = t3
  k = k
  none = none
  Threads <- MC_Threads
  InitThread = t1
  Killer = k
  NoThread = none
  MaxMutex = 1
  MaxSem = 1
  MaxSemUp = 1
  MaxCondvar = 2
  MaxKill = 1
  SemInit = {0, 1}
  Misuse = {}
SPECIFICATION Spec
INVARIANT TypeOK
INVARIANT SemaphoreConservation
INVARIANT ThreadPlacement
 
PROPERTY ReadyProgress
CHECK_DEADLOCK FALSE
VIEW MC_View
