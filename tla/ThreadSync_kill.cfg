\* A kill handled by one thread of P leaves its other threads running.
CONSTANTS
  t1 = t1
  t2 = t2
  t3 = t3
  k = k
  none = none
  Threads <- MC_Threads
  InitThread = t1
  Killer = k
  NoThread = none
  MaxMutex = 0
  MaxSem = 0
  MaxSemUp = 0
  MaxCondvar = 0
  MaxKill = 1
  SemInit = {0}
  Misuse = {}
SPECIFICATION Spec
INVARIANT KilledProcessExits
CHECK_DEADLOCK FALSE
