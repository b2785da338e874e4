---------------------------- MODULE MC_ThreadSync ----------------------------
(* Model-checking instance of ThreadSync: three threads of P and the       *)
(* thread of the process P forks; ids are model values.                    *)
EXTENDS ThreadSync

CONSTANTS t1, t2, t3, k, none

MC_Threads == {t1, t2, t3}

\* The state without the ghost ctxOp.  No action reads ctxOp, so two states
\* that differ only in it have the same successors up to ctxOp, and a run
\* whose properties do not mention it may identify them.
MC_View == <<status, ready, current, mutexes, sems, condvars, pending, kills,
             halted, panicked, holds, passed, ups, waitFor, semInit, killedP>>
=============================================================================
