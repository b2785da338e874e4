----------------------------- MODULE ProcessList ------------------------------
(***************************************************************************)
(* The chapter-4 scheduling loop (src/ch4/src/main.rs): rust_main turns    *)
(* every application image into a Process and pushes it onto PROCESSES,    *)
(* skipping an image Process::new refuses; the schedule thread then runs   *)
(* PROCESSES[0] until the vector is empty.  A system call that returns     *)
(* writes a0 and the loop runs PROCESSES[0] again; exit, an unsupported    *)
(* call or any other trap removes it with remove(0).  ch4 arms no timer,   *)
(* and sched_yield only returns 0.                                         *)
(*                                                                         *)
(* Address spaces, sbrk, mmap and trace are the Memory module; here every  *)
(* call that returns to its caller other than write is one event.          *)
(***************************************************************************)
EXTENDS Naturals, Sequences

CONSTANTS N,       \* the number of application images the kernel links
          Image,   \* per image: "elf" (RISC-V executable) or "foreign"
          MaxOut   \* bound on the writes printed

VARIABLES li,     \* rust_main's loading index
          procs,  \* PROCESSES: the images, by number, of the live processes
          phase,  \* "load", "loop" (top of the while), "user", "done"
          out     \* the console: the image of every printed write

vars == <<li, procs, phase, out>>

AppIds == [k \in 1 .. N |-> k]

\* Process::new: None unless the header is a 64-bit RISC-V executable.
LoadsElf(a) == Image[a] = "elf"

\* The images that become processes, in link order.
Loaded == SelectSeq(AppIds, LoadsElf)

\* The traps of PROCESSES[0].  write prints for STDOUT and STDDEBUG when
\* buf translates readable, and returns -1 otherwise; sched_yield (and
\* sbrk, clock_gettime, trace, mmap, munmap) return to the caller.
Continues == {"write_out", "write_bad", "yield"}
Ends == {"exit", "unsupported", "fault"}
Traps == Continues \cup Ends

\* IO::write of the process at index caller.entity = 0.
SysWrite(ev, app) ==
  IF ev = "write_out" THEN out' = Append(out, app) ELSE UNCHANGED out

\* Scheduling::sched_yield: returns 0, and the caller is run again.
SysYield == UNCHANGED out

\* Mutant: the last process is removed instead of the first.
RemoveLast == procs' = SubSeq(procs, 1, Len(procs) - 1)

\* PROCESSES.get_mut().remove(0).
RemoveFirst == procs' = Tail(procs)

\* Mutant: the process is recorded under enumerate()'s 0-based index.
LoadZeroBased ==
  /\ phase = "load" /\ li <= N
  /\ procs' = IF LoadsElf(li) THEN Append(procs, li - 1) ELSE procs
  /\ li' = li + 1
  /\ UNCHANGED <<phase, out>>

\* Mutant: a refused image is pushed all the same.
LoadNoCheck ==
  /\ phase = "load" /\ li <= N
  /\ procs' = Append(procs, li)
  /\ li' = li + 1
  /\ UNCHANGED <<phase, out>>

\* One pass of rust_main's loading loop: Process::new(ElfFile::new(elf)),
\* and a Some is pushed after the portal entry is shared.
Load ==
  /\ phase = "load" /\ li <= N
  /\ procs' = IF LoadsElf(li) THEN Append(procs, li) ELSE procs
  /\ li' = li + 1
  /\ UNCHANGED <<phase, out>>

\* The scheduling stack is mapped and the schedule thread entered; it
\* initialises the portal and the system calls.
StartSchedule ==
  /\ phase = "load" /\ li > N
  /\ phase' = "loop"
  /\ UNCHANGED <<li, procs, out>>

\* The while loop: PROCESSES is not empty, so PROCESSES[0] is executed
\* through the portal.
Execute ==
  /\ phase = "loop" /\ procs # <<>>
  /\ phase' = "user"
  /\ UNCHANGED <<li, procs, out>>

\* The trap of PROCESSES[0] and its handling: Done writes a0 (exit
\* removes instead), Unsupported and any other trap remove the process.
Trap(ev) ==
  /\ phase = "user"
  /\ ev = "write_out" => Len(out) < MaxOut
  /\ CASE ev = "yield" -> SysYield
       [] ev \in Continues -> SysWrite(ev, Head(procs))
       [] OTHER -> UNCHANGED out
  /\ IF ev \in Ends THEN RemoveFirst ELSE UNCHANGED procs
  /\ phase' = "loop"
  /\ UNCHANGED li

\* PROCESSES is empty: tg_sbi::shutdown(false).
Shutdown ==
  /\ phase = "loop" /\ procs = <<>>
  /\ phase' = "done"
  /\ UNCHANGED <<li, procs, out>>

Init == li = 1 /\ procs = <<>> /\ phase = "load" /\ out = <<>>

Next ==
  \/ Load \/ StartSchedule \/ Execute
  \/ \E ev \in Traps : Trap(ev)
  \/ Shutdown

\* As in ch2: the kernel's steps are always taken, and a process is
\* assumed to leave eventually, since nothing preempts it.
Fairness ==
  /\ WF_vars(Load \/ StartSchedule \/ Execute \/ Shutdown)
  /\ SF_vars(\E ev \in Ends : Trap(ev))

Spec == Init /\ [][Next]_vars /\ Fairness

(***************************************************************************)
(* Properties.                                                             *)
(***************************************************************************)

TypeOK ==
  /\ li \in 1 .. N + 1
  /\ procs \in Seq(1 .. N) /\ Len(procs) <= N
  /\ phase \in {"load", "loop", "user", "done"}
  /\ out \in Seq(1 .. N) /\ Len(out) <= MaxOut

\* The ch2 batch loop over the images that load: while loading, the batch
\* has not started; afterwards its index is the position in Loaded of
\* PROCESSES[0], which is where the first live process must stand.
B == INSTANCE Batch
       WITH Apps <- Loaded,
            i <- IF phase = "load" THEN 1 ELSE Len(Loaded) - Len(procs) + 1,
            phase <- CASE phase \in {"load", "loop"} -> "next"
                       [] OTHER -> phase,
            out <- out

\* The ch4 loop is the ch2 batch system over the images Process::new
\* accepts: they run one at a time, in link order, each from its first
\* step until it exits, calls an unsupported call or faults, every write
\* printed under the process that made it, and the kernel shuts down only
\* after the last.  sched_yield and the missing timer never hand the CPU
\* to another process, and a refused image leaves no gap.
BatchRefinement == B!Spec

=============================================================================
