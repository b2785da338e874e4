------------------------------- MODULE Process -------------------------------
(***************************************************************************)
(* The chapter-5 process manager: the scheduling loop of rust_main         *)
(* (src/ch5/src/main.rs), the stride fetch of ProcManager                  *)
(* (src/ch5/src/processor.rs), and the fork, spawn, exit, wait,            *)
(* set_priority and sched_yield system calls.  ch5 arms no timer: a       *)
(* process runs until it traps, and every trap is one atomic step of the  *)
(* non-preemptible kernel.                                                 *)
(*                                                                         *)
(* PManager (tg-task-manage, not in this repository) is modelled from      *)
(* spec.md 4.3: add inserts the process and queues it, make_current_*      *)
(* end the current run, exit re-parents children to the root process, and *)
(* wait reaps one exited child.  Address spaces are left out: exec,       *)
(* getpid, read and write only suspend the caller here.                    *)
(***************************************************************************)
EXTENDS Naturals, Integers, Sequences, FiniteSetsExt

CONSTANTS MaxProc,       \* pids 1 .. MaxProc; ProcId::new hands them out in order
          BIG_STRIDE,    \* 1 << 20 in the code; small here
          InitPriority,  \* priority from_elf gives (16 in the code)
          Prios,         \* arguments user code passes to set_priority
          Codes,         \* exit codes user code passes to exit
          MaxStride      \* bound on a stride; dispatch stops at the horizon

ROOT == 1              \* initproc, loaded by rust_main
NoPid == 0             \* stands for ProcId::from_usize(usize::MAX) and None
Pids == 1 .. MaxProc
\* usize::MAX, the initial min_stride of fetch.  TLC's integers are 32-bit;
\* strides never exceed MaxStride, so any larger value compares the same.
UsizeMax == MaxStride + 1
UnsupportedCode == -2  \* make_current_exited(-2) for Ret::Unsupported
FaultCode == -3        \* make_current_exited(-3) for an unsupported trap

VARIABLES status,    \* per pid: free, ready, running, zombie (exited), reaped
          parent,    \* PManager's process tree: parent of each pid
          stride, priority,
          code,      \* exit code of a zombie
          ready,     \* ProcManager.ready_queue
          current,   \* the process find_next returned, until it traps
          nextPid,   \* the ProcId counter
          halted,    \* the loop printed "no task" and shut down
          forker,    \* ghost: the process whose fork or spawn created each pid
          reaper     \* ghost: the process whose wait reaped each pid

vars == <<status, parent, stride, priority, code, ready, current, nextPid,
          halted, forker, reaper>>

(***************************************************************************)
(* ProcManager::fetch (processor.rs 111-131).                              *)
(***************************************************************************)

\* Mutant: the comparison is <=, so the last of equal strides wins.
RECURSIVE FetchLoopLastTie(_, _, _, _)
FetchLoopLastTie(q, i, minS, minI) ==
  IF i > Len(q) THEN minI
  ELSE IF stride[q[i]] <= minS THEN FetchLoopLastTie(q, i + 1, stride[q[i]], i)
       ELSE FetchLoopLastTie(q, i + 1, minS, minI)

\* The loop over ready_queue: the index of the first entry whose stride is
\* strictly below every earlier one.
RECURSIVE FetchLoop(_, _, _, _)
FetchLoop(q, i, minS, minI) ==
  IF i > Len(q) THEN minI
  ELSE IF stride[q[i]] < minS THEN FetchLoop(q, i + 1, stride[q[i]], i)
       ELSE FetchLoop(q, i + 1, minS, minI)

\* fetch: None for an empty queue, else remove the entry the loop found.
FetchIndex == FetchLoop(ready, 1, UsizeMax, 1)

RemoveAt(s, i) == SubSeq(s, 1, i - 1) \o SubSeq(s, i + 1, Len(s))

(***************************************************************************)
(* Process (process.rs): the scheduling fields of a new process.           *)
(***************************************************************************)

\* Process::fork: a new pid, a deep copy of the address space and context,
\* stride 0 and the parent's priority.
ForkedChild == [stride |-> 0, priority |-> priority[current]]

\* Process::from_elf: a fresh address space from the ELF, stride 0 and
\* priority 16.
FromElf == [stride |-> 0, priority |-> InitPriority]

(***************************************************************************)
(* PManager, modelled from spec.md.                                        *)
(***************************************************************************)

\* add(pid, process, parent): insert into the table and the tree (the
\* callers append c to the ready queue and mark it ready).
Add(c, p, sched) ==
  /\ parent' = [parent EXCEPT ![c] = p]
  /\ stride' = [stride EXCEPT ![c] = sched.stride]
  /\ priority' = [priority EXCEPT ![c] = sched.priority]

\* make_current_suspend: the current process goes to the back of the queue.
Suspend(rq, st) ==
  /\ ready' = Append(rq, current)
  /\ status' = [st EXCEPT ![current] = "ready"]
  /\ current' = NoPid

\* make_current_exited(c): the process becomes a zombie holding its code,
\* and its children are re-parented to the root (spec.md 4.3 exit).
MakeCurrentExited(c) ==
  /\ status' = [status EXCEPT ![current] = "zombie"]
  /\ code' = [code EXCEPT ![current] = c]
  /\ parent' = [q \in Pids |-> IF parent[q] = current THEN ROOT ELSE parent[q]]
  /\ current' = NoPid
  /\ UNCHANGED <<stride, priority, ready, nextPid, halted, forker, reaper>>

\* wait(pid): an exited child of the caller matching pid (-1: any).
Reapable(pid) ==
  {c \in Pids : parent[c] = current /\ status[c] = "zombie" /\ (pid = -1 \/ pid = c)}

(***************************************************************************)
(* The scheduling loop (main.rs 241-295).                                  *)
(***************************************************************************)

\* find_next, then stride += BIG_STRIDE / priority, then run the process.
Dispatch ==
  /\ ~halted /\ current = NoPid /\ ready # <<>>
  /\ LET p    == ready[FetchIndex]
         pass == BIG_STRIDE \div priority[p]
     IN /\ stride[p] + pass <= MaxStride
        /\ ready' = RemoveAt(ready, FetchIndex)
        /\ current' = p
        /\ status' = [status EXCEPT ![p] = "running"]
        /\ stride' = [stride EXCEPT ![p] = @ + pass]
  /\ UNCHANGED <<parent, priority, code, nextPid, halted, forker, reaper>>

\* find_next returns None: print "no task" and shut down.
NoTask ==
  /\ ~halted /\ current = NoPid /\ ready = <<>>
  /\ halted' = TRUE
  /\ UNCHANGED <<status, parent, stride, priority, code, ready, current,
                 nextPid, forker, reaper>>

\* An unsupported system call exits with -2, any other trap with -3.
TrapFault(c) ==
  /\ current # NoPid
  /\ MakeCurrentExited(c)

(***************************************************************************)
(* System calls of the current process (main.rs impls).                    *)
(***************************************************************************)

\* exit(code): the loop calls make_current_exited(code).
SysExit(c) ==
  /\ current # NoPid
  /\ MakeCurrentExited(c)

\* Mutant: the child is added under the root instead of its parent.
SysForkParentRoot ==
  /\ current # NoPid /\ nextPid <= MaxProc
  /\ LET c == nextPid
     IN /\ Add(c, ROOT, ForkedChild)
        /\ forker' = [forker EXCEPT ![c] = current]
        /\ Suspend(Append(ready, c), [status EXCEPT ![c] = "ready"])
  /\ nextPid' = nextPid + 1
  /\ UNCHANGED <<code, halted, reaper>>

\* fork: Process::fork gives the child a new pid, stride 0 and the
\* parent's priority; add(child, parent_pid) queues it, and the loop
\* then suspends the parent behind it.
SysFork ==
  /\ current # NoPid /\ nextPid <= MaxProc
  /\ LET c == nextPid
     IN /\ Add(c, current, ForkedChild)
        /\ forker' = [forker EXCEPT ![c] = current]
        /\ Suspend(Append(ready, c), [status EXCEPT ![c] = "ready"])
  /\ nextPid' = nextPid + 1
  /\ UNCHANGED <<code, halted, reaper>>

\* spawn(path): Process::from_elf gives stride 0 and priority 16; the
\* child is added under the caller, which is then suspended.
SysSpawn ==
  /\ current # NoPid /\ nextPid <= MaxProc
  /\ LET c == nextPid
     IN /\ Add(c, current, FromElf)
        /\ forker' = [forker EXCEPT ![c] = current]
        /\ Suspend(Append(ready, c), [status EXCEPT ![c] = "ready"])
  /\ nextPid' = nextPid + 1
  /\ UNCHANGED <<code, halted, reaper>>

\* wait(pid, &code): PManager::wait reaps one matching exited child and
\* the code is copied out; with none, -1.  The caller is then suspended.
SysWait(pid) ==
  /\ current # NoPid
  /\ \/ \E c \in Reapable(pid) :
          /\ reaper' = [reaper EXCEPT ![c] = current]
          /\ Suspend(ready, [status EXCEPT ![c] = "reaped"])
     \/ /\ Reapable(pid) = {}
        /\ Suspend(ready, status) /\ UNCHANGED reaper
  /\ UNCHANGED <<parent, stride, priority, code, nextPid, halted, forker>>

\* Mutant: the lower bound on the priority is not checked.
SysSetPriorityNoCheck(prio) ==
  /\ current # NoPid
  /\ priority' = [priority EXCEPT ![current] = prio]
  /\ Suspend(ready, status)
  /\ UNCHANGED <<parent, stride, code, nextPid, halted, forker, reaper>>

\* set_priority(prio): -1 below 2, else the priority is replaced.
SysSetPriority(prio) ==
  /\ current # NoPid
  /\ priority' = IF prio < 2 THEN priority ELSE [priority EXCEPT ![current] = prio]
  /\ Suspend(ready, status)
  /\ UNCHANGED <<parent, stride, code, nextPid, halted, forker, reaper>>

\* exec(path): with a known app, Process::exec replaces the address space
\* and context and keeps pid, stride and priority; otherwise -1.  Either
\* way the loop suspends the caller.
SysExec ==
  /\ current # NoPid
  /\ Suspend(ready, status)
  /\ UNCHANGED <<parent, stride, priority, code, nextPid, halted, forker, reaper>>

\* sched_yield (and getpid, read, write): the caller is suspended.
SysYield ==
  /\ current # NoPid
  /\ Suspend(ready, status)
  /\ UNCHANGED <<parent, stride, priority, code, nextPid, halted, forker, reaper>>

\* rust_main loads initproc with from_elf and adds it with parent usize::MAX.
Init ==
  /\ status = [p \in Pids |-> IF p = ROOT THEN "ready" ELSE "free"]
  /\ parent = [p \in Pids |-> NoPid]
  /\ stride = [p \in Pids |-> 0]
  /\ priority = [p \in Pids |-> InitPriority]
  /\ code = [p \in Pids |-> 0]
  /\ ready = <<ROOT>>
  /\ current = NoPid
  /\ nextPid = ROOT + 1
  /\ halted = FALSE
  /\ forker = [p \in Pids |-> NoPid]
  /\ reaper = [p \in Pids |-> NoPid]

Next ==
  \/ Dispatch \/ NoTask
  \/ \E c \in {UnsupportedCode, FaultCode} : TrapFault(c)
  \/ \E c \in Codes : SysExit(c)
  \/ SysFork \/ SysSpawn
  \/ \E pid \in {-1} \cup Pids : SysWait(pid)
  \/ \E prio \in Prios : SysSetPriority(prio)
  \/ SysExec \/ SysYield

Spec == Init /\ [][Next]_vars

(***************************************************************************)
(* Properties.                                                             *)
(***************************************************************************)

TypeOK ==
  /\ status \in [Pids -> {"free", "ready", "running", "zombie", "reaped"}]
  /\ parent \in [Pids -> Pids \cup {NoPid}]
  /\ stride \in [Pids -> 0 .. MaxStride]
  /\ priority \in [Pids -> {p \in Nat : p >= 2}]
  /\ code \in [Pids -> Codes \cup {0, UnsupportedCode, FaultCode}]
  /\ ready \in Seq(Pids)
  /\ current \in Pids \cup {NoPid}
  /\ nextPid \in 2 .. MaxProc + 1
  /\ forker \in [Pids -> Pids \cup {NoPid}]
  /\ reaper \in [Pids -> Pids \cup {NoPid}]

\* The reference definition of stride scheduling (spec.md 4.3): among the
\* ready processes the least stride wins, ties to the earliest in the queue.
LeastStrideFirst(q) ==
  LET m == Min({stride[q[i]] : i \in 1 .. Len(q)})
  IN q[Min({i \in 1 .. Len(q) : stride[q[i]] = m})]

\* The hand-written loop of ProcManager::fetch, with its usize::MAX start
\* and strict <, picks exactly the process the reference definition picks,
\* in every queue the loop builds from fork, spawn, yield and priorities.
FetchPicksLeast ==
  [][current = NoPid /\ current' # NoPid => current' = LeastStrideFirst(ready)]_vars

\* spec.md 4.3 and 6: an exited process's code is consumed by its parent's
\* wait, or by the root once the parent is gone.  A wait that reaps a
\* child is made by the process that forked or spawned it, or by the root
\* after that process has exited.
ReapedByParentOrRoot ==
  [][\A c \in Pids :
       status[c] # "reaped" /\ status'[c] = "reaped" =>
         \/ current = forker[c]
         \/ current = ROOT /\ status[forker[c]] \in {"zombie", "reaped"}]_vars

=============================================================================
