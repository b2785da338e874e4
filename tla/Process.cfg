\* initproc and two more processes, priorities 16 (pass 1), 8 (pass 2)
\* and 2 (pass 8), and the invalid 1; strides up to 10.
CONSTANTS
  MaxProc = 3
  BIG_STRIDE = 16
  InitPriority = 16
  Prios = {1, 2, 8}
  Codes = {0}
  MaxStride = 10
SPECIFICATION Spec
INVARIANT TypeOK
PROPERTY FetchPicksLeast
PROPERTY ReapedByParentOrRoot
CHECK_DEADLOCK FALSE
