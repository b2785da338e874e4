-------------------------------- MODULE PipeFds --------------------------------
(***************************************************************************)
(* The chapter-7 kernel's processes, their fd tables and one pipe: the     *)
(* scheduling loop of rust_main and the FIFO ProcManager                   *)
(* (src/ch7/src/main.rs, processor.rs), Process::fork copying the fd table *)
(* (process.rs), the Fd type of fs.rs, and the pipe, close, read, write,   *)
(* fork, exit, wait and sched_yield system calls.  The pipe itself is the  *)
(* Pipe module: its ring buffer and the count of live Arc<PipeWriter>.     *)
(*                                                                         *)
(* The loop pops the head of the ready queue, runs it to its next system   *)
(* call and handles it; the kernel is never preempted and ch7 arms no      *)
(* timer, so one dispatch with its system call is one atomic step.         *)
(* PManager (tg-task-manage) is not in this repository; its add, wait and  *)
(* make_current_exited follow spec.md 3 and 5: an exited process keeps its *)
(* fd table until its parent reaps it, and its children go to initproc.   *)
(*                                                                         *)
(* User programs are arbitrary, except that initproc plays the reader of   *)
(* spec.md scenario S5: it alone calls pipe, and it neither closes the     *)
(* read end nor exits before a read has returned 0.                        *)
(***************************************************************************)
EXTENDS Naturals, Sequences, SequencesExt, FiniteSets

CONSTANTS MaxProc,           \* pids 1 .. MaxProc; 1 is initproc
          MaxFds,            \* bound on the length of an fd table
          FdArgs,            \* fds user code passes to close, read, write
          MaxSigCalls,       \* bound on kill, sigaction and sigprocmask calls
          RING_BUFFER_SIZE, MaxLen, MaxBytes, MaxWriters  \* of Pipe

VARIABLES proc,     \* pid -> "none", "alive", "zombie" or "reaped"
          parent,   \* the PManager process tree; 0 for none
          queue,    \* ProcManager.ready_queue
          fdt,      \* Process.fd_table: one Fd per slot, "none" for None
          piped,    \* the pipe has been made
          halted,   \* the loop found no task and shut down
          sig,      \* Process.signal, with the pc of the process's context
          a0,       \* register a0 of the context of the process last run:
                    \* "ret" a system call's return value, "sig" the signal
                    \* number, "none" neither (it exited)
          entered,  \* ghost: the process the last step entered a handler in
          sigCalls, \* kill, sigaction and sigprocmask calls made so far
          arr, head, tail, status, writers, written, eof  \* the pipe

Ring == INSTANCE Pipe

pipeVars == <<arr, head, tail, status, writers, written, eof>>
vars == <<proc, parent, queue, fdt, piped, halted, sig, a0, entered, sigCalls,
          pipeVars>>

Pids == 1 .. MaxProc
ROOT == 1
STDIN == 0
STDOUT == 1
STDDEBUG == 2

\* Fd: Empty{read} for stdin, Empty{write} for stdout and stderr, the two
\* pipe ends, and an empty slot.
Slots == {"stdin", "stdout", "R", "W", "none"}

\* Fd::readable and Fd::writable.
Readable(s) == s \in {"stdin", "R"}
Writable(s) == s \in {"stdout", "W"}

\* The process at the head of the ready queue, which the loop runs.
Running(p) == queue # <<>> /\ Head(queue) = p

\* Write ends held by a process's table.
HoldsW(p) == "W" \in Range(fdt[p])

(***************************************************************************)
(* Signals (tg-signal, spec.md 4.5) for one signal number: whether a user  *)
(* handler is installed, masked, pending; pc is whether the process runs   *)
(* its main code or the handler, saved the pc of the context sig_return    *)
(* restores ("none": no handler running).                                  *)
(***************************************************************************)
NoSig == [handler |-> FALSE, mask |-> FALSE, pending |-> FALSE,
          pc |-> "main", saved |-> "none"]

\* SignalImpl::from_fork copies the dispositions only; the child's register
\* file, and so its pc, is a clone of the parent's.
ForkSig(s) == [NoSig EXCEPT !.handler = s.handler, !.pc = s.pc]

\* Mutant: nothing is acted on while a handler runs.
ActsNoNest(s) == s.pending /\ ~s.mask /\ s.saved = "none"

\* handle_signals finds the signal pending and not masked: with no user
\* handler it is ProcessKilled, with one it saves the context and enters it.
Acts(s) == s.pending /\ ~s.mask
Killed(s) == Acts(s) /\ ~s.handler
Deliver(s) == [s EXCEPT !.pending = FALSE, !.saved = s.pc, !.pc = "handler"]

\* Mutant: make_current_suspend puts the process back at the front.
ResumeFront(p, added) == queue' = <<p>> \o Tail(queue) \o added

\* PManager::add of what the call created, then make_current_suspend: the
\* process goes to the tail of the ready queue.
Resume(p, added) == queue' = Tail(queue) \o added \o <<p>>

\* The loop after tg_syscall::handle returned, for the running process p:
\* pr, pa and sg are proc, parent and the signal states the call left, and
\* added the processes it gave PManager (fork's child).  handle_signals
\* acts on sg[p]; ProcessKilled, and exit, are make_current_exited (the
\* children go to initproc); otherwise the return value is written to a0
\* and the process is suspended behind what the call added.
Finish(p, pr, pa, sg, added, exits) ==
  LET s == sg[p]
      dies == Killed(s) \/ exits
      deliver == Acts(s) /\ s.handler
  IN /\ sig' = [sg EXCEPT ![p] = IF deliver THEN Deliver(s)
                                 ELSE IF Acts(s) THEN [s EXCEPT !.pending = FALSE] ELSE s]
     /\ proc' = IF dies THEN [pr EXCEPT ![p] = "zombie"] ELSE pr
     /\ parent' = IF dies THEN [c \in Pids |-> IF pa[c] = p THEN ROOT ELSE pa[c]] ELSE pa
     /\ IF dies THEN queue' = Tail(queue) \o added ELSE Resume(p, added)
     /\ a0' = IF ~dies THEN "ret" ELSE IF deliver THEN "sig" ELSE "none"
     /\ entered' = IF deliver THEN p ELSE 0

\* A call of kill, sigaction or sigprocmask, within the bound.
SigCall == sigCalls < MaxSigCalls /\ sigCalls' = sigCalls + 1

\* A call that leaves the process table and every signal state alone.
Return(p) == Finish(p, proc, parent, sig, <<>>, FALSE)

(***************************************************************************)
(* System calls of the running process p.                                  *)
(***************************************************************************)

\* pipe(ptr): make_pipe, then the read end at fd_table.len() and the write
\* end after it.  The two fds are written to user memory first; a bad
\* pointer returns -1 before anything is pushed, which changes nothing.
SysPipe(p) ==
  /\ p = ROOT /\ ~piped
  /\ Len(fdt[p]) + 2 <= MaxFds
  /\ fdt' = [fdt EXCEPT ![p] = @ \o <<"R", "W">>]
  /\ piped' = TRUE
  /\ Ring!MakePipe
  /\ Return(p)
  /\ UNCHANGED <<halted, sigCalls>>

\* close(fd): -1 past the table or on an empty slot; else take the slot,
\* which drops the Fd and, for a write end, one Arc<PipeWriter>.
SysClose(p, fd) ==
  /\ fd < Len(fdt[p]) /\ fdt[p][fd + 1] # "none"
  /\ p = ROOT /\ fdt[p][fd + 1] = "R" => eof
  /\ fdt' = [fdt EXCEPT ![p][fd + 1] = "none"]
  /\ IF fdt[p][fd + 1] = "W" THEN Ring!CloseWriter ELSE UNCHANGED pipeVars
  /\ Return(p)
  /\ UNCHANGED <<piped, halted, sigCalls>>

\* write(fd, buf, n): stdout and the debug fd go to the console; otherwise
\* fd_table[fd] must hold a writable Fd, and Fd::write of a write end is
\* PipeWriter::write; everything else returns -1.
SysWrite(p, fd, n) ==
  /\ fd < Len(fdt[p])
  /\ IF fd \notin {STDOUT, STDDEBUG} /\ fdt[p][fd + 1] = "W"
       THEN Ring!Write(n)
       ELSE UNCHANGED pipeVars
  /\ Return(p)
  /\ UNCHANGED <<fdt, piped, halted, sigCalls>>

\* read(fd, buf, n): fd 0 reads the console; otherwise fd_table[fd] must
\* hold a readable Fd, and Fd::read of a read end is PipeReader::read.
\* A read after EOF returns 0 again and changes nothing.
SysRead(p, fd, n) ==
  /\ fd < Len(fdt[p])
  /\ IF fd # STDIN /\ fdt[p][fd + 1] = "R" /\ ~eof
       THEN Ring!Read(n)
       ELSE UNCHANGED pipeVars
  /\ Return(p)
  /\ UNCHANGED <<fdt, piped, halted, sigCalls>>

\* fork: the child gets the next pid, a copy of every slot of the fd table
\* (a write end clones its Arc) and the parent's signal dispositions;
\* PManager::add queues it, and the loop then suspends the parent behind it.
SysFork(p) ==
  \E c \in Pids :
    /\ proc[c] = "none" /\ \A d \in 1 .. c - 1 : proc[d] # "none"
    /\ fdt' = [fdt EXCEPT ![c] = fdt[p]]
    /\ IF HoldsW(p) THEN Ring!DupWriter ELSE UNCHANGED pipeVars
    /\ Finish(p, [proc EXCEPT ![c] = "alive"], [parent EXCEPT ![c] = p],
              [sig EXCEPT ![c] = ForkSig(sig[p])], <<c>>, FALSE)
    /\ UNCHANGED <<piped, halted, sigCalls>>

\* exec(path): a file that opens replaces the address space and the
\* context; the fd table and the whole signal state stay.  A path that does
\* not open returns -1.
SysExec(p) ==
  /\ Finish(p, proc, parent, [sig EXCEPT ![p].pc = "main"], <<>>, FALSE)
  /\ UNCHANGED <<fdt, piped, halted, pipeVars, sigCalls>>

\* exit, or a call tg_syscall does not support: make_current_exited after
\* handle_signals.  The process leaves the queue, its children go to
\* initproc, and it waits, with its fd table, to be reaped.
SysExit(p) ==
  /\ p = ROOT => eof
  /\ Finish(p, proc, parent, sig, <<>>, TRUE)
  /\ UNCHANGED <<fdt, piped, halted, pipeVars, sigCalls>>

\* Mutant: the reaped child's fd table is left behind.
SysWaitNoDrop(p) ==
  /\ \/ \E c \in Pids :
          /\ parent[c] = p /\ proc[c] = "zombie"
          /\ Finish(p, [proc EXCEPT ![c] = "reaped"], parent, sig, <<>>, FALSE)
          /\ UNCHANGED <<fdt, pipeVars>>
     \/ /\ ~\E c \in Pids : parent[c] = p /\ proc[c] = "zombie"
        /\ Return(p)
        /\ UNCHANGED <<fdt, pipeVars>>
  /\ UNCHANGED <<piped, halted, sigCalls>>

\* wait(-1): PManager::wait reaps an exited child, dropping the process
\* and with it its fd table; -1 while no child has exited.
SysWait(p) ==
  /\ \/ \E c \in Pids :
          /\ parent[c] = p /\ proc[c] = "zombie"
          /\ Finish(p, [proc EXCEPT ![c] = "reaped"], parent, sig, <<>>, FALSE)
          /\ fdt' = [fdt EXCEPT ![c] = <<>>]
          /\ IF HoldsW(c) THEN Ring!CloseWriter ELSE UNCHANGED pipeVars
     \/ /\ ~\E c \in Pids : parent[c] = p /\ proc[c] = "zombie"
        /\ Return(p)
        /\ UNCHANGED <<fdt, pipeVars>>
  /\ UNCHANGED <<piped, halted, sigCalls>>

\* kill(pid, signum): a process PManager holds gets the signal pending;
\* any other pid, or an invalid signum, returns -1.  A kill of the caller
\* itself is acted on by the handle_signals of this very call.
SysKill(p, pid) ==
  /\ SigCall
  /\ Finish(p, proc, parent,
            IF proc[pid] \in {"alive", "zombie"}
              THEN [sig EXCEPT ![pid].pending = TRUE] ELSE sig,
            <<>>, FALSE)
  /\ UNCHANGED <<fdt, piped, halted, pipeVars>>

\* sigaction(signum, action, old_action): a readable action sets the
\* disposition, a user handler or the default; a bad pointer or signum
\* returns -1 with nothing set.
SysSigaction(p, h) ==
  /\ SigCall
  /\ Finish(p, proc, parent, [sig EXCEPT ![p].handler = h], <<>>, FALSE)
  /\ UNCHANGED <<fdt, piped, halted, pipeVars>>

\* sigprocmask(mask): update_mask replaces the mask.
SysSigprocmask(p, m) ==
  /\ SigCall
  /\ Finish(p, proc, parent, [sig EXCEPT ![p].mask = m], <<>>, FALSE)
  /\ UNCHANGED <<fdt, piped, halted, pipeVars>>

\* sigreturn: sig_return restores the saved context and ends the handling;
\* with none saved it returns -1.
SysSigreturn(p) ==
  /\ Finish(p, proc, parent,
            IF sig[p].saved # "none"
              THEN [sig EXCEPT ![p].pc = sig[p].saved, ![p].saved = "none"]
              ELSE sig,
            <<>>, FALSE)
  /\ UNCHANGED <<fdt, piped, halted, pipeVars, sigCalls>>

\* A trap other than a system call: make_current_exited(-3), with no
\* handle_signals.
Fault(p) ==
  /\ p = ROOT => eof
  /\ proc' = [proc EXCEPT ![p] = "zombie"]
  /\ parent' = [c \in Pids |-> IF parent[c] = p THEN ROOT ELSE parent[c]]
  /\ queue' = Tail(queue)
  /\ a0' = "none" /\ entered' = 0
  /\ UNCHANGED <<fdt, piped, halted, sig, sigCalls, pipeVars>>

\* sched_yield, getpid and the other calls that only return a value.
SysYield(p) ==
  /\ Return(p)
  /\ UNCHANGED <<fdt, piped, halted, pipeVars, sigCalls>>

\* The loop finds no task: "no task" and shutdown.
NoTask ==
  /\ queue = <<>> /\ ~halted
  /\ halted' = TRUE
  /\ UNCHANGED <<proc, parent, queue, fdt, piped, pipeVars, sig, a0, entered, sigCalls>>

\* initproc from Process::from_elf: stdin, stdout and stderr and a fresh
\* SignalImpl.  The pipe does not exist yet; its fields hold what make_pipe
\* will give them.
Init ==
  /\ proc = [p \in Pids |-> IF p = ROOT THEN "alive" ELSE "none"]
  /\ parent = [p \in Pids |-> 0]
  /\ queue = <<ROOT>>
  /\ fdt = [p \in Pids |-> IF p = ROOT THEN <<"stdin", "stdout", "stdout">> ELSE <<>>]
  /\ piped = FALSE
  /\ halted = FALSE
  /\ arr = [i \in Ring!Idx |-> 0] /\ head = 0 /\ tail = 0 /\ status = "Empty"
  /\ writers = 0 /\ written = 0 /\ eof = FALSE
  /\ sig = [p \in Pids |-> NoSig]
  /\ a0 = "none"
  /\ entered = 0 /\ sigCalls = 0

Step(p) ==
  \/ SysPipe(p)
  \/ \E fd \in FdArgs : SysClose(p, fd)
  \/ \E fd \in FdArgs, n \in Ring!Lens : SysWrite(p, fd, n) \/ SysRead(p, fd, n)
  \/ SysFork(p) \/ SysExec(p) \/ SysExit(p) \/ SysWait(p) \/ SysYield(p)
  \/ \E pid \in Pids \ {ROOT} : SysKill(p, pid)
  \/ \E b \in BOOLEAN : SysSigaction(p, b) \/ SysSigprocmask(p, b)
  \/ SysSigreturn(p) \/ Fault(p)

Next == (\E p \in Pids : Running(p) /\ Step(p)) \/ NoTask

\* initproc reading its read end while it runs.
RootReads == Running(ROOT) /\ \E fd \in FdArgs, n \in Ring!Lens :
               fd < Len(fdt[ROOT]) /\ fdt[ROOT][fd + 1] = "R" /\ SysRead(ROOT, fd, n)

\* The loop runs whenever a process is ready (every user program traps
\* again), and initproc, the S5 reader, reads whenever it is run.
Fairness == WF_vars(Next) /\ SF_vars(RootReads)

Spec == Init /\ [][Next]_vars /\ Fairness

(***************************************************************************)
(* Properties.                                                             *)
(***************************************************************************)

TypeOK ==
  /\ Ring!TypeOK
  /\ proc \in [Pids -> {"none", "alive", "zombie", "reaped"}]
  /\ parent \in [Pids -> Pids \cup {0}]
  /\ queue \in Seq(Pids)
  /\ fdt \in [Pids -> Seq(Slots)]
  /\ piped \in BOOLEAN /\ halted \in BOOLEAN
  /\ sig \in [Pids -> [handler : BOOLEAN, mask : BOOLEAN, pending : BOOLEAN,
                       pc : {"main", "handler"}, saved : {"none", "main", "handler"}]]
  /\ a0 \in {"none", "ret", "sig"}
  /\ entered \in Pids \cup {0} /\ sigCalls \in 0 .. MaxSigCalls

\* Write-end slots in the fd table of a process.
WSlots(p) == {i \in DOMAIN fdt[p] : fdt[p][i] = "W"}

\* Processes the PManager still holds: running, ready or exited unreaped.
Held == {p \in Pids : proc[p] \in {"alive", "zombie"}}

\* The strong count of the Arc<PipeWriter> is the number of fd-table slots
\* that hold the write end, over every process not yet reaped: fork clones
\* one per copied slot, close drops one, and a zombie keeps its table until
\* wait drops it.  A count above the slots would keep EOF from ever coming;
\* one below would report EOF while a writer can still write.
WritersCounted ==
  writers = FoldSet(LAMBDA p, acc : acc + Cardinality(WSlots(p)), 0, Held)

\* Through pipe, fork, close, exit and wait, the pipe the processes see is
\* the bounded FIFO of PipeFifo; before pipe is called it is an untouched
\* FIFO with its one writer.
Fifo == INSTANCE PipeFifo WITH Cap <- RING_BUFFER_SIZE, q <- Ring!Contents,
          writers <- IF piped THEN writers ELSE 1
PipeRefinesFifo == Fifo!ASpec

\* spec.md S5: once every process holding the write end has closed it or
\* exited and been reaped, initproc, reading, gets 0 (EOF).
EventuallyEof == (piped /\ writers = 0) ~> eof

\* ProcManager's FIFO ready queue: every process that is ready is run.
EveryReadyRuns == \A p \in Pids : [](p \in Range(queue) => <>Running(p))

\* spec.md 4.5 and S12: a signal kill made pending and that is not masked
\* is acted on - the process is killed or runs its handler - at the next
\* system call the process makes, unless that call masks it; a handler
\* already running does not hold it back.
SignalActedOn ==
  \A p \in Pids : (proc[p] = "alive" /\ sig[p].pending /\ ~sig[p].mask)
                   ~> (proc[p] # "alive" \/ ~sig[p].pending \/ sig[p].mask)

\* spec.md 4.5: handle_signals places the signal number in a0 when it
\* enters the handler, so the handler starts with a0 = signum.
HandlerGetsSigno == [][entered' # 0 => a0' = "sig"]_vars

=============================================================================
