-------------------------------- MODULE Batch ---------------------------------
(***************************************************************************)
(* The chapter-2 batch system (src/ch2/src/main.rs): rust_main walks the   *)
(* application table once, in order, and runs each application until it   *)
(* leaves.  A trap is a system call (handle_syscall) or any other          *)
(* exception: write is done and the loop continues with the same          *)
(* application; exit, an unsupported call or an exception ends it, and the *)
(* for loop goes on to the next one.  After the last application the      *)
(* kernel shuts down.  No timer is armed: an application runs until it     *)
(* traps.                                                                  *)
(*                                                                         *)
(* Apps is the sequence AppMeta::locate().iter() yields.  The console is   *)
(* kept as the sequence of applications whose writes were printed.        *)
(***************************************************************************)
EXTENDS Naturals, Sequences

CONSTANTS Apps,     \* the application table, in build order
          MaxOut    \* bound on the writes printed

VARIABLES i,      \* the for loop's index into Apps
          phase,  \* "next": top of the loop; "user": Apps[i] runs; "done"
          out     \* the console: the application of every printed write

vars == <<i, phase, out>>

\* The traps of the running application, by how rust_main's match ends.
\* handle_syscall returns Done for write: to stdout or the debug fd it
\* prints, to any other fd it returns -1.  exit is Done(0) with id EXIT,
\* which handle_syscall turns into Exit; tg_syscall answers every other
\* call with Unsupported; any other exception kills the application.
Continues == {"write_out", "write_bad"}
Ends == {"exit", "unsupported", "fault"}
Traps == Continues \cup Ends

\* IO::write: STDOUT and STDDEBUG print the buffer and return count,
\* anything else returns -1.  Process::exit returns 0.
SysWrite(ev, app) ==
  IF ev = "write_out" THEN out' = Append(out, app) ELSE UNCHANGED out

\* The top of the inner loop: ctx.execute() enters Apps[i] in user mode
\* (for a new application, after LocalContext::user and its stack).
Execute ==
  /\ phase = "next" /\ i <= Len(Apps)
  /\ phase' = "user"
  /\ UNCHANGED <<i, out>>

\* The trap and its handling: Done continues the inner loop; Exit, Error
\* and an exception log, fence.i and break to the next application.
Trap(ev) ==
  /\ phase = "user"
  /\ ev = "write_out" => Len(out) < MaxOut
  /\ IF ev \in Continues THEN SysWrite(ev, Apps[i]) ELSE UNCHANGED out
  /\ phase' = "next"
  /\ i' = IF ev \in Ends THEN i + 1 ELSE i

\* The for loop is over: tg_sbi::shutdown(false).
Shutdown ==
  /\ phase = "next" /\ i > Len(Apps)
  /\ phase' = "done"
  /\ UNCHANGED <<i, out>>

Init == i = 1 /\ phase = "next" /\ out = <<>>

Next == Execute \/ (\E ev \in Traps : Trap(ev)) \/ Shutdown

\* The kernel's own steps are always taken.  An application is assumed to
\* leave eventually: nothing preempts it, so one that keeps making calls
\* that continue holds the machine; the code offers no other guarantee.
Fairness ==
  /\ WF_vars(Execute \/ Shutdown)
  /\ SF_vars(\E ev \in Ends : Trap(ev))

Spec == Init /\ [][Next]_vars /\ Fairness

=============================================================================
