\* Two processes: initproc and a fork, each with its own signal state, so a
\* kill reaches another process and a fork copies a disposition.  Fd tables
\* of at most 5 slots: stdio and both pipe ends.  User code passes the fds
\* of the two ends; a read of the write end and a write of the read end
\* reach the -1 branches.  A ring of 3 bytes, calls of 1 or 2 bytes and 5
\* bytes in all, so the indices wrap and a call copies part of its buffer.
\* Three kill, sigaction and sigprocmask calls: enough to install a handler,
\* mask and send, or to be signalled again inside a handler.
CONSTANTS
  MaxProc = 2
  MaxFds = 5
  FdArgs = {3, 4}
  RING_BUFFER_SIZE = 3
  MaxLen = 2
  MaxBytes = 5
  MaxWriters = 3
  MaxSigCalls = 3
SPECIFICATION Spec
INVARIANT TypeOK
INVARIANT WritersCounted
PROPERTY PipeRefinesFifo
PROPERTY EventuallyEof
PROPERTY EveryReadyRuns
PROPERTY SignalActedOn
\* Once initproc has exited the queue empties and the loop shuts down.
CHECK_DEADLOCK FALSE
