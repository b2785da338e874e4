\* Three applications, so a finished task is skipped between two live
\* ones and the index wraps; each task makes at most two trace calls, so
\* a task's trace counter reaches its bound.
CONSTANTS
  N = 3
  MaxCount = 2
SPECIFICATION Spec
INVARIANT TypeOK
INVARIANT RemainCounts
PROPERTY EveryTaskRuns
\* Once every task has finished the kernel shuts down.
CHECK_DEADLOCK FALSE
