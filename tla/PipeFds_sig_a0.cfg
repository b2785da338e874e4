\* A handler installed and the signal sent: the first delivery shows what
\* the handler finds in a0.
CONSTANTS
  MaxProc = 2
  MaxFds = 5
  FdArgs = {3, 4}
  RING_BUFFER_SIZE = 3
  MaxLen = 2
  MaxBytes = 5
  MaxWriters = 3
  MaxSigCalls = 2
SPECIFICATION Spec
PROPERTY HandlerGetsSigno
CHECK_DEADLOCK FALSE
