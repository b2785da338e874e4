------------------------------- MODULE TimeShare -------------------------------
(***************************************************************************)
(* The chapter-3 multiprogramming kernel (src/ch3/src/main.rs, task.rs):   *)
(* every application has a TaskControlBlock in TCBS, and rust_main's loop  *)
(* visits them round-robin, skipping finished ones, until remain reaches   *)
(* zero.  A visited task runs until it traps: a timer interrupt or yield   *)
(* moves on to the next task, exit, an unsupported call or a fault         *)
(* finishes it, and any other system call resumes it at once, the timer    *)
(* armed afresh.  The preemptive build is modelled (coop disabled).        *)
(*                                                                         *)
(* handle_syscall counts every call id below 512 in the task's own         *)
(* syscall_count; trace(2, id) reads TCBS[CURRENT_TASK].syscall_count[id]. *)
(* Only the count of trace itself is kept.                                 *)
(***************************************************************************)
EXTENDS Naturals, FiniteSets

CONSTANTS N,         \* index_mod: the number of applications loaded
          MaxCount   \* bound on the trace calls a task makes

VARIABLES finish,  \* TCBS[t].finish
          remain,  \* tasks not yet finished
          i,       \* the loop's task index
          current, \* CURRENT_TASK
          phase,   \* "loop": top of the while; "user": TCBS[i] runs; "done"
          count,   \* TCBS[t].syscall_count[TRACE]
          event    \* ghost: the trap the last step handled

vars == <<finish, remain, i, current, phase, count, event>>

Tasks == 0 .. N - 1

\* What a trap of the running task is, in the order of rust_main's match:
\* the timer, then the SchedulingEvent of handle_syscall, then faults.
Continues == {"write", "clock", "trace"}     \* Event::None
Finishes == {"exit", "unsupported", "fault"}  \* Event::Exit, Unsupported, Err
Leaves == {"timer", "yield"} \cup Finishes
Events == Continues \cup Leaves

\* handle_syscall's counter, for the trace id (< 512).
CountCall(t) == count' = [count EXCEPT ![t] = @ + 1]

\* Mutant: the index is not taken modulo index_mod.
AdvanceNoWrap == i' = i + 1

\* Mutant: the wrap-around goes back to 1, never to task 0.
AdvanceSkipFirst == i' = IF i + 1 < N THEN i + 1 ELSE 1 % N

\* The loop's step to the next task: i = (i + 1) % index_mod.
Advance == i' = (i + 1) % N

\* Mutant: the finish flag is not checked; a finished task runs again.
VisitNoSkip ==
  /\ phase = "loop" /\ remain > 0
  /\ current' = i
  /\ phase' = "user" /\ UNCHANGED i
  /\ UNCHANGED <<finish, remain, count, event>>

\* The top of the while: CURRENT_TASK = i, then a finished task is skipped.
Visit ==
  /\ phase = "loop" /\ remain > 0
  /\ current' = i
  /\ IF finish[i]
       THEN Advance /\ UNCHANGED phase
       ELSE phase' = "user" /\ UNCHANGED i
  /\ UNCHANGED <<finish, remain, count, event>>

\* A trap of TCBS[i] and its handling.  A call that continues re-enters the
\* loop body, re-arming the timer; any other ends this visit, finishing the
\* task on exit, an unsupported call or a fault, and moves i on.
Trap(ev) ==
  /\ phase = "user"
  /\ event' = ev
  /\ IF ev = "trace" THEN count[i] < MaxCount /\ CountCall(i)
                     ELSE UNCHANGED count
  /\ IF ev \in Continues
       THEN UNCHANGED <<finish, remain, i, phase>>
       ELSE /\ phase' = "loop"
            /\ Advance
            /\ IF ev \in Finishes
                 THEN finish' = [finish EXCEPT ![i] = TRUE] /\ remain' = remain - 1
                 ELSE UNCHANGED <<finish, remain>>
  /\ UNCHANGED current

\* remain is zero: shutdown.
Shutdown ==
  /\ phase = "loop" /\ remain = 0
  /\ phase' = "done"
  /\ UNCHANGED <<finish, remain, i, current, count, event>>

\* TCBS[t].init for every application: none finished.
Init ==
  /\ finish = [t \in Tasks |-> FALSE]
  /\ remain = N
  /\ i = 0 /\ current = 0
  /\ phase = "loop"
  /\ count = [t \in Tasks |-> 0]
  /\ event = "none"

Next == Visit \/ (\E ev \in Events : Trap(ev)) \/ Shutdown

\* A task in user mode eventually traps other than by a system call that
\* continues: the timer, armed at every entry, fires unless the task keeps
\* making such calls, which the applications do not do forever.
Fairness == WF_vars(Visit \/ Shutdown) /\ WF_vars(\E ev \in Leaves : Trap(ev))

Spec == Init /\ [][Next]_vars /\ Fairness

(***************************************************************************)
(* Properties.                                                             *)
(***************************************************************************)

TypeOK ==
  /\ finish \in [Tasks -> BOOLEAN]
  /\ remain \in 0 .. N
  /\ i \in Tasks /\ current \in Tasks
  /\ phase \in {"loop", "user", "done"}
  /\ count \in [Tasks -> 0 .. MaxCount]
  /\ event \in Events \cup {"none"}

\* The loop's remain is the number of tasks whose finish flag is clear, so
\* the kernel shuts down exactly when every application has finished: a
\* task finished twice, or a finish not counted, breaks it.
RemainCounts == remain = Cardinality({t \in Tasks : ~finish[t]})

\* Round-robin: every task that has not finished is run again.
EveryTaskRuns ==
  \A t \in Tasks : [](~finish[t] => <>(phase = "user" /\ i = t))

=============================================================================
