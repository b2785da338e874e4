------------------------------ MODULE ThreadSync ------------------------------
(***************************************************************************)
(* The chapter-8 kernel's thread layer on one hart: the scheduling loop of *)
(* rust_main (src/ch8/src/main.rs), the FIFO ThreadManager of              *)
(* src/ch8/src/processor.rs, and the thread, signal and synchronisation    *)
(* system calls of the impls module.                                       *)
(*                                                                         *)
(* One user process P owns the threads in Threads and the mutex, semaphore *)
(* and condition-variable lists.  P's threads can fork one child process,  *)
(* exec a new image and wait for the child.  The child's only thread,      *)
(* Killer, can send kill(P), yield and exit; it stands for every other     *)
(* process.                                                                *)
(*                                                                         *)
(* The primitives of the tg-sync crate, PThreadManager's find_next and     *)
(* make_current_exited, and handle_signals of tg-signal-impl are not in    *)
(* this repository; they are modelled from spec.md sections 4.3-4.5 and 5. *)
(*                                                                         *)
(* The kernel is never preempted and ch8 arms no timer, so a system call   *)
(* from trap to the dispatcher's state change is one atomic step.          *)
(***************************************************************************)
EXTENDS Integers, Sequences, SequencesExt, FiniteSets

CONSTANTS
  Threads,     \* thread ids of the user process P
  InitThread,  \* the main thread of initproc, in Threads
  Killer,      \* the only thread of the process fork creates
  NoThread,    \* Option::None for thread ids
  MaxMutex,    \* bound on mutex_create calls that append a slot
  MaxSem,      \* bound on semaphore_create calls
  MaxSemUp,    \* bound on semaphore_up calls per semaphore
  MaxCondvar,  \* bound on condvar_create calls
  MaxKill,     \* bound on kill calls
  SemInit,     \* res_count values passed to semaphore_create
  Misuse       \* subset of {"foreign_unlock", "spin_mutex"}: user calls
               \* outside the well-behaved discipline that a run admits

ASSUME InitThread \in Threads /\ Killer \notin Threads
ASSUME NoThread \notin Threads \cup {Killer}
ASSUME Misuse \subseteq {"foreign_unlock", "spin_mutex"}

Tids == Threads \cup {Killer}

VARIABLES
  status,    \* lifecycle of each thread: unborn, alive, exited, joined
  ready,     \* ThreadManager.ready_queue
  current,   \* PThreadManager's current thread
  mutexes,   \* Process.mutex_list: slots [valid, owner, queue]
  sems,      \* Process.semaphore_list: [count, queue]
  condvars,  \* Process.condvar_list: [queue]
  pending,   \* a terminating signal pending on P (tg-signal-impl)
  kills,     \* number of kill calls made so far (bounded by MaxKill)
  halted,    \* the loop found no task and called shutdown
  panicked,  \* a kernel panic (unwrap on None) shut the machine down
  holds,     \* ghost: mutex ids each thread believes it holds
  passed,    \* ghost: per semaphore, the down calls that got a unit
  ups,       \* ghost: per semaphore, the up calls made so far
  waitFor,   \* ghost: what a blocked or woken thread is waiting for
  semInit,   \* ghost: initial count of each semaphore
  killedP,   \* ghost: handle_signals has reported ProcessKilled for P
  ctxOp      \* ghost: some fork or exec of P copied or replaced the
             \* context of a thread other than the caller

vars == <<status, ready, current, mutexes, sems, condvars, pending, kills,
          halted, panicked, holds, passed, ups, waitFor, semInit, killedP, ctxOp>>

MutexIds == 0 .. MaxMutex - 1
SemIds == 0 .. MaxSem - 1
NoWait == [kind |-> "none", id |-> 0]
Wait(k, i) == [kind |-> k, id |-> i]
Alive(t) == status[t] = "alive"
Mutex(m) == mutexes[m + 1]

(***************************************************************************)
(* tg-sync primitives (spec.md 4.4).  A slot of mutex_list is a record     *)
(* whose valid field is FALSE where the code stores None.                  *)
(***************************************************************************)

\* MutexBlocking::lock: take an unowned mutex, else join its wait FIFO.
MutexLockOp(mx, t) ==
  IF mx.owner = NoThread THEN [mx EXCEPT !.owner = t]
                         ELSE [mx EXCEPT !.queue = Append(@, t)]

\* MutexBlocking::unlock: hand the mutex to the head waiter, else free it.
\* The handler passes no caller id, so the owner cannot be checked.
MutexUnlockOp(mx) ==
  IF mx.queue # <<>> THEN [mx EXCEPT !.owner = Head(mx.queue), !.queue = Tail(@)]
                     ELSE [mx EXCEPT !.owner = NoThread]

\* The thread id unlock returns for re-queueing, as a sequence of 0 or 1.
MutexWoken(mx) == IF mx.queue # <<>> THEN <<Head(mx.queue)>> ELSE <<>>

\* Semaphore::down: count -= 1; block when the count went negative.
SemDownOp(s, t) ==
  [count |-> s.count - 1,
   queue |-> IF s.count - 1 < 0 THEN Append(s.queue, t) ELSE s.queue]

\* Semaphore::up: count += 1; while it is still <= 0, wake the head waiter.
SemUpOp(s) ==
  [count |-> s.count + 1,
   queue |-> IF s.count + 1 <= 0 /\ s.queue # <<>> THEN Tail(s.queue) ELSE s.queue]

SemWoken(s) ==
  IF s.count + 1 <= 0 /\ s.queue # <<>> THEN <<Head(s.queue)>> ELSE <<>>

\* Condvar::signal: dequeue one waiter.
CvSignalOp(c) == IF c.queue # <<>> THEN [c EXCEPT !.queue = Tail(@)] ELSE c
CvWoken(c) == IF c.queue # <<>> THEN <<Head(c.queue)>> ELSE <<>>

\* Mutant: make_current_suspend is also called for a blocked thread.
EpilogueSuspendBlocked(t, blocked, exits, rq, st, pd) ==
  LET killed == pd /\ t \in Threads
      dies   == killed \/ exits
  IN /\ current' = NoThread
     /\ pending' = (pd /\ ~killed)
     /\ killedP' = (killedP \/ killed)
     /\ status' = IF dies THEN [st EXCEPT ![t] = "exited"] ELSE st
     /\ ready' = IF dies THEN rq ELSE Append(rq, t)

\* Mutant: a suspended thread is pushed to the front of the ready queue.
EpilogueRequeueFront(t, blocked, exits, rq, st, pd) ==
  LET killed == pd /\ t \in Threads
      dies   == killed \/ exits
  IN /\ current' = NoThread
     /\ pending' = (pd /\ ~killed)
     /\ killedP' = (killedP \/ killed)
     /\ status' = IF dies THEN [st EXCEPT ![t] = "exited"] ELSE st
     /\ ready' = IF dies \/ blocked THEN rq ELSE <<t>> \o rq

(***************************************************************************)
(* The dispatcher's epilogue after a system call (main.rs 233-265):        *)
(* handle_signals on the current process; ProcessKilled exits the thread;  *)
(* otherwise EXIT exits, a blocking call that returned -1 leaves the       *)
(* thread off every queue (make_current_blocked), and anything else puts  *)
(* it at the back of the ready queue (make_current_suspend).  rq is the    *)
(* ready queue after the handler's re_enque, st and pd the status and      *)
(* pending signal the handler left.                                        *)
(***************************************************************************)
Epilogue(t, blocked, exits, rq, st, pd) ==
  LET killed == pd /\ t \in Threads
      dies   == killed \/ exits
  IN /\ current' = NoThread
     /\ pending' = (pd /\ ~killed)
     /\ killedP' = (killedP \/ killed)
     /\ status' = IF dies THEN [st EXCEPT ![t] = "exited"] ELSE st
     /\ ready' = IF dies \/ blocked THEN rq ELSE Append(rq, t)

\* The running thread of P, ready to trap with a system call.
Running(t) == current = t /\ t \in Threads /\ ~halted /\ ~panicked

(***************************************************************************)
(* System calls of P's threads.                                            *)
(***************************************************************************)

\* sched_yield returns 0; the thread is suspended behind the ready queue.
SysYield(t) ==
  /\ current = t /\ ~halted /\ ~panicked
  /\ Epilogue(t, FALSE, FALSE, ready, status, pending)
  /\ UNCHANGED <<mutexes, sems, condvars, kills, halted, panicked, holds,
                 passed, ups, waitFor, semInit, ctxOp>>

\* exit: the handler returns the code; the epilogue exits the thread.
SysExit(t) ==
  /\ current = t /\ ~halted /\ ~panicked
  /\ Epilogue(t, FALSE, TRUE, ready, status, pending)
  /\ UNCHANGED <<mutexes, sems, condvars, kills, halted, panicked, holds,
                 passed, ups, waitFor, semInit, ctxOp>>

\* thread_create: a new thread of the current process is added to the
\* ready queue (PThreadManager::add) before the caller is suspended.
SysThreadCreate(t) ==
  /\ Running(t)
  /\ \E u \in Threads :
       /\ status[u] = "unborn"
       /\ Epilogue(t, FALSE, FALSE, Append(ready, u),
                   [status EXCEPT ![u] = "alive"], pending)
  /\ UNCHANGED <<mutexes, sems, condvars, kills, halted, panicked, holds,
                 passed, ups, waitFor, semInit, ctxOp>>

\* waittid(tid): -1 for the caller itself; an exited thread is reaped.
SysWaittid(t) ==
  /\ Running(t)
  /\ \E u \in Threads \ {t} :
       Epilogue(t, FALSE, FALSE, ready,
                IF status[u] = "exited" THEN [status EXCEPT ![u] = "joined"]
                                        ELSE status, pending)
  /\ UNCHANGED <<mutexes, sems, condvars, kills, halted, panicked, holds,
                 passed, ups, waitFor, semInit, ctxOp>>

\* kill(pid, sig) from the other process: a signal is added to P while P
\* exists; handle_signals for the caller's own process finds nothing.
SysKill(t) ==
  /\ current = t /\ t = Killer /\ ~halted /\ ~panicked
  /\ kills < MaxKill
  /\ kills' = kills + 1
  /\ Epilogue(t, FALSE, FALSE, ready, status,
              pending \/ \E u \in Threads : Alive(u))
  /\ UNCHANGED <<mutexes, sems, condvars, halted, panicked, holds, passed, ups,
                 waitFor, semInit, ctxOp>>

(***************************************************************************)
(* Process calls of P's threads (main.rs 534-585, process.rs 89-140).      *)
(***************************************************************************)

\* pthreads[0]: the first thread of P, whose context Process::fork copies
\* and Process::exec replaces.  PThreadManager keeps a process's threads in
\* creation order, so it is the main thread.
FirstThread == InitThread

\* Process::fork: the child's address space, fd table and signal state are
\* clones, its sync lists are empty, and its thread gets a clone of
\* FirstThread's context, whichever thread called.
ProcessFork(t) == ctxOp' = (ctxOp \/ FirstThread # t)

\* Process::exec: the new image's address space replaces P's, and its
\* entry context is written into FirstThread, whichever thread called.
ProcessExec(t) == ctxOp' = (ctxOp \/ FirstThread # t)

\* fork: the child's thread gets a0 = 0; add_proc and add put it at the
\* back of the ready queue before the caller is suspended.  There is one
\* child id, so P forks once.
SysFork(t) ==
  /\ Running(t)
  /\ status[Killer] = "unborn"
  /\ ProcessFork(t)
  /\ Epilogue(t, FALSE, FALSE, Append(ready, Killer),
              [status EXCEPT ![Killer] = "alive"], pending)
  /\ UNCHANGED <<mutexes, sems, condvars, kills, halted, panicked, holds,
                 passed, ups, waitFor, semInit>>

\* exec(path): a name that translate or FS.open cannot resolve returns -1
\* and changes nothing; otherwise Process::exec runs.  The other threads,
\* the sync lists and the fd table are kept.
SysExec(t) ==
  /\ Running(t)
  /\ \/ ProcessExec(t)
     \/ UNCHANGED ctxOp
  /\ Epilogue(t, FALSE, FALSE, ready, status, pending)
  /\ UNCHANGED <<mutexes, sems, condvars, kills, halted, panicked, holds,
                 passed, ups, waitFor, semInit>>

\* wait(pid): PThreadManager::wait hands back an exited child and drops it;
\* otherwise -1.  The child's process exits with its only thread.
SysWait(t) ==
  /\ Running(t)
  /\ Epilogue(t, FALSE, FALSE, ready,
              IF status[Killer] = "exited" THEN [status EXCEPT ![Killer] = "joined"]
                                          ELSE status, pending)
  /\ UNCHANGED <<mutexes, sems, condvars, kills, halted, panicked, holds,
                 passed, ups, waitFor, semInit, ctxOp>>

SysMutexCreate(t) ==
  /\ Running(t)
  /\ \E blocking \in {TRUE} \cup (IF "spin_mutex" \in Misuse THEN {FALSE} ELSE {}) :
       LET new  == [valid |-> blocking, owner |-> NoThread, queue |-> <<>>]
           free == {i \in 1 .. Len(mutexes) : ~mutexes[i].valid}
       IN IF free # {}
            THEN mutexes' = [mutexes EXCEPT ![Min(free)] = new]
            ELSE /\ Len(mutexes) < MaxMutex
                 /\ mutexes' = Append(mutexes, new)
  /\ Epilogue(t, FALSE, FALSE, ready, status, pending)
  /\ UNCHANGED <<sems, condvars, kills, halted, panicked, holds, passed, ups,
                 waitFor, semInit, ctxOp>>

\* mutex_lock(id): -1 (blocked) when the mutex is owned.  Unwrapping a
\* None slot panics the kernel.
SysMutexLock(t) ==
  /\ Running(t)
  /\ \E m \in 0 .. Len(mutexes) - 1 :
       /\ m \notin holds[t]
       /\ IF ~Mutex(m).valid
            THEN /\ panicked' = TRUE
                 /\ UNCHANGED <<status, ready, current, mutexes, pending, holds, waitFor,
                                killedP>>
            ELSE LET got == Mutex(m).owner = NoThread
                 IN /\ mutexes' = [mutexes EXCEPT ![m + 1] = MutexLockOp(@, t)]
                    /\ holds' = IF got THEN [holds EXCEPT ![t] = @ \cup {m}] ELSE holds
                    /\ waitFor' = IF got THEN waitFor ELSE [waitFor EXCEPT ![t] = Wait("lock", m)]
                    /\ Epilogue(t, ~got, FALSE, ready, status, pending)
                    /\ UNCHANGED panicked
  /\ UNCHANGED <<sems, condvars, kills, halted, passed, ups, semInit, ctxOp>>

\* mutex_unlock(id): the woken thread, if any, is re_enque'd.
SysMutexUnlock(t) ==
  /\ Running(t)
  /\ \E m \in 0 .. Len(mutexes) - 1 :
       /\ Mutex(m).valid
       /\ \/ m \in holds[t]
          \/ "foreign_unlock" \in Misuse /\ Mutex(m).owner \notin {t, NoThread}
       /\ mutexes' = [mutexes EXCEPT ![m + 1] = MutexUnlockOp(@)]
       /\ holds' = [holds EXCEPT ![t] = @ \ {m}]
       /\ Epilogue(t, FALSE, FALSE, ready \o MutexWoken(Mutex(m)), status, pending)
  /\ UNCHANGED <<sems, condvars, kills, halted, panicked, passed, ups, waitFor, semInit, ctxOp>>

\* semaphore_create(res_count): first None slot or append; slots are never
\* emptied, so this always appends.
SysSemCreate(t) ==
  /\ Running(t)
  /\ Len(sems) < MaxSem
  /\ \E n \in SemInit :
       /\ sems' = Append(sems, [count |-> n, queue |-> <<>>])
       /\ semInit' = Append(semInit, n)
  /\ Epilogue(t, FALSE, FALSE, ready, status, pending)
  /\ UNCHANGED <<mutexes, condvars, kills, halted, panicked, holds, passed, ups, waitFor, ctxOp>>

\* Mutant: semaphore_down tests the count before the decrement.
SysSemDownOffByOne(t) ==
  /\ Running(t)
  /\ \E s \in 0 .. Len(sems) - 1 :
       LET got == sems[s + 1].count >= 0
       IN /\ sems' = [sems EXCEPT ![s + 1] = SemDownOp(@, t)]
          /\ passed' = IF got THEN [passed EXCEPT ![s] = @ + 1] ELSE passed
          /\ waitFor' = IF got THEN waitFor ELSE [waitFor EXCEPT ![t] = Wait("sem", s)]
          /\ Epilogue(t, ~got, FALSE, ready, status, pending)
  /\ UNCHANGED <<mutexes, condvars, kills, halted, panicked, holds, ups, semInit, ctxOp>>

\* Mutant: a blocked semaphore_down records the next slot's id.
SysSemDownNextSlot(t) ==
  /\ Running(t)
  /\ \E s \in 0 .. Len(sems) - 1 :
       LET got == sems[s + 1].count - 1 >= 0
       IN /\ sems' = [sems EXCEPT ![s + 1] = SemDownOp(@, t)]
          /\ passed' = IF got THEN [passed EXCEPT ![s] = @ + 1] ELSE passed
          /\ waitFor' = IF got THEN waitFor ELSE [waitFor EXCEPT ![t] = Wait("sem", s + 1)]
          /\ Epilogue(t, ~got, FALSE, ready, status, pending)
  /\ UNCHANGED <<mutexes, condvars, kills, halted, panicked, holds, ups, semInit, ctxOp>>

\* semaphore_down(id): -1 (blocked) when no unit was free.
SysSemDown(t) ==
  /\ Running(t)
  /\ \E s \in 0 .. Len(sems) - 1 :
       LET got == sems[s + 1].count - 1 >= 0
       IN /\ sems' = [sems EXCEPT ![s + 1] = SemDownOp(@, t)]
          /\ passed' = IF got THEN [passed EXCEPT ![s] = @ + 1] ELSE passed
          /\ waitFor' = IF got THEN waitFor ELSE [waitFor EXCEPT ![t] = Wait("sem", s)]
          /\ Epilogue(t, ~got, FALSE, ready, status, pending)
  /\ UNCHANGED <<mutexes, condvars, kills, halted, panicked, holds, ups, semInit, ctxOp>>

\* semaphore_up(id): any thread may call it, holder or not; the woken
\* thread, if any, is re_enque'd.
SysSemUp(t) ==
  /\ Running(t)
  /\ \E s \in 0 .. Len(sems) - 1 :
       /\ ups[s] < MaxSemUp
       /\ sems' = [sems EXCEPT ![s + 1] = SemUpOp(@)]
       /\ ups' = [ups EXCEPT ![s] = @ + 1]
       /\ Epilogue(t, FALSE, FALSE, ready \o SemWoken(sems[s + 1]), status, pending)
  /\ UNCHANGED <<mutexes, condvars, kills, halted, panicked, holds, passed, waitFor,
                 semInit, ctxOp>>

\* condvar_create: condition variables are never emptied, so it appends.
SysCondvarCreate(t) ==
  /\ Running(t)
  /\ Len(condvars) < MaxCondvar
  /\ condvars' = Append(condvars, [queue |-> <<>>])
  /\ Epilogue(t, FALSE, FALSE, ready, status, pending)
  /\ UNCHANGED <<mutexes, sems, kills, halted, panicked, holds, passed, ups, waitFor, semInit, ctxOp>>

\* condvar_signal(id): the dequeued waiter is re_enque'd.
SysCondvarSignal(t) ==
  /\ Running(t)
  /\ \E c \in 0 .. Len(condvars) - 1 :
       /\ condvars' = [condvars EXCEPT ![c + 1] = CvSignalOp(@)]
       /\ Epilogue(t, FALSE, FALSE, ready \o CvWoken(condvars[c + 1]), status, pending)
  /\ UNCHANGED <<mutexes, sems, kills, halted, panicked, holds, passed, ups, waitFor, semInit, ctxOp>>

\* condvar_wait(cid, mid), Condvar::wait_with_mutex: enqueue the caller on
\* the condition variable, unlock the mutex (re_enque'ing the thread that
\* unlock wakes) and report "blocked", so the dispatcher writes a0 = -1
\* and blocks the caller.  Nothing relocks the mutex when the waiter is
\* signalled: it resumes after the ecall without it.
SysCondvarWait(t) ==
  /\ Running(t)
  /\ \E c \in 0 .. Len(condvars) - 1, m \in 0 .. Len(mutexes) - 1 :
       /\ m \in holds[t]
       /\ condvars' = [condvars EXCEPT ![c + 1].queue = Append(@, t)]
       /\ mutexes' = [mutexes EXCEPT ![m + 1] = MutexUnlockOp(@)]
       /\ holds' = [holds EXCEPT ![t] = @ \ {m}]
       /\ Epilogue(t, TRUE, FALSE, ready \o MutexWoken(Mutex(m)), status, pending)
  /\ UNCHANGED <<sems, kills, halted, panicked, passed, ups, waitFor, semInit, ctxOp>>

(***************************************************************************)
(* The scheduling loop (main.rs 217-277) and find_next.                    *)
(***************************************************************************)

\* find_next pops the head of the ready queue; an exited thread that a
\* wake-up put there is skipped (spec.md 5).
SkipExited ==
  /\ current = NoThread /\ ~halted /\ ~panicked
  /\ ready # <<>> /\ ~Alive(Head(ready))
  /\ ready' = Tail(ready)
  /\ UNCHANGED <<status, current, mutexes, sems, condvars, pending, kills,
                 halted, panicked, holds, passed, ups, waitFor, semInit, killedP, ctxOp>>

\* find_next returns None: "no task", shutdown.
NoTask ==
  /\ current = NoThread /\ ~halted /\ ~panicked
  /\ ready = <<>>
  /\ halted' = TRUE
  /\ UNCHANGED <<status, ready, current, mutexes, sems, condvars, pending,
                 kills, panicked, holds, passed, ups, waitFor, semInit, killedP, ctxOp>>

\* find_next dispatches a live thread, which resumes after its ecall.  A
\* thread woken from a mutex queue owns the mutex unlock handed it, one
\* woken from a semaphore has the unit up gave it; one woken from a
\* condition variable has nothing: neither the loop (main.rs 217-221) nor
\* condvar_signal relocks the mutex it gave up.
FindNext ==
  /\ current = NoThread /\ ~halted /\ ~panicked
  /\ ready # <<>> /\ Alive(Head(ready))
  /\ LET h == Head(ready)
         w == waitFor[h]
     IN /\ ready' = Tail(ready)
        /\ current' = h
        /\ holds' = IF w.kind = "lock" THEN [holds EXCEPT ![h] = @ \cup {w.id}] ELSE holds
        /\ passed' = IF w.kind = "sem" THEN [passed EXCEPT ![w.id] = @ + 1] ELSE passed
        /\ waitFor' = [waitFor EXCEPT ![h] = NoWait]
  /\ UNCHANGED <<status, mutexes, sems, condvars, pending, kills, halted, panicked,
                 ups, semInit, killedP, ctxOp>>

Dispatch == FindNext \/ SkipExited \/ NoTask

\* Every system call the running thread can make.
ThreadStep(t) ==
  \/ SysYield(t) \/ SysExit(t) \/ SysThreadCreate(t) \/ SysWaittid(t)
  \/ SysKill(t) \/ SysFork(t) \/ SysExec(t) \/ SysWait(t)
  \/ SysMutexCreate(t) \/ SysMutexLock(t) \/ SysMutexUnlock(t)
  \/ SysSemCreate(t) \/ SysSemDown(t) \/ SysSemUp(t)
  \/ SysCondvarCreate(t) \/ SysCondvarSignal(t) \/ SysCondvarWait(t)

Init ==
  /\ status = [t \in Tids |-> IF t = InitThread THEN "alive" ELSE "unborn"]
  /\ ready = <<InitThread>>
  /\ current = NoThread
  /\ mutexes = <<>>
  /\ sems = <<>>
  /\ condvars = <<>>
  /\ pending = FALSE
  /\ kills = 0
  /\ halted = FALSE
  /\ panicked = FALSE
  /\ holds = [t \in Tids |-> {}]
  /\ passed = [s \in SemIds |-> 0]
  /\ ups = [s \in SemIds |-> 0]
  /\ waitFor = [t \in Tids |-> NoWait]
  /\ semInit = <<>>
  /\ killedP = FALSE
  /\ ctxOp = FALSE

Next == Dispatch \/ \E t \in Tids : ThreadStep(t)

\* The loop always runs find_next when no thread is current; a running user
\* thread eventually traps with a system call (ch8 arms no timer, so this
\* is an assumption on the user programs).
Fairness == WF_vars(Dispatch) /\ WF_vars(\E t \in Tids : ThreadStep(t))

Spec == Init /\ [][Next]_vars /\ Fairness

(***************************************************************************)
(* Properties.                                                             *)
(***************************************************************************)

CondvarIds == 0 .. MaxCondvar - 1
WaitReasons ==
  {NoWait} \cup [kind : {"lock"}, id : MutexIds] \cup [kind : {"sem"}, id : SemIds]

TypeOK ==
  /\ status \in [Tids -> {"unborn", "alive", "exited", "joined"}]
  /\ ready \in Seq(Tids)
  /\ current \in Tids \cup {NoThread}
  /\ mutexes \in Seq([valid : BOOLEAN, owner : Tids \cup {NoThread}, queue : Seq(Tids)])
  /\ sems \in Seq([count : Int, queue : Seq(Tids)])
  /\ condvars \in Seq([queue : Seq(Tids)])
  /\ holds \in [Tids -> SUBSET MutexIds]
  /\ waitFor \in [Tids -> WaitReasons]
  /\ ctxOp \in BOOLEAN

\* Number of occurrences of t in a sequence of thread ids.
Occurrences(t, q) == Len(SelectSeq(q, LAMBDA x : x = t))

\* Number of places that hold t: the CPU, the ready queue and every wait queue.
Places(t) ==
  (IF current = t THEN 1 ELSE 0)
  + Occurrences(t, ready)
  + SumFunction([i \in DOMAIN mutexes |-> Occurrences(t, mutexes[i].queue)])
  + SumFunction([i \in DOMAIN sems |-> Occurrences(t, sems[i].queue)])
  + SumFunction([i \in DOMAIN condvars |-> Occurrences(t, condvars[i].queue)])

\* A live thread is in exactly one place: running, once in the ready queue,
\* or once in one wait queue (spec.md 8.5).  Breaks if the dispatcher
\* suspends a thread that a blocking call enqueued, or if a wake-up loses
\* or duplicates a thread.
ThreadPlacement == \A t \in Tids : Alive(t) => Places(t) = 1

Granted(s) ==
  {t \in Tids : waitFor[t] = Wait("sem", s) /\ ~Contains(sems[s + 1].queue, t)}

\* Semaphore accounting, with up called by any thread: a negative count is
\* the number of waiters, and every unit - the initial ones and one per up
\* so far - is either free, or went to exactly one down call, which got
\* it at once, or was woken with it and has resumed or is yet to resume.
\* No up is lost and no unit is handed out twice, across any interleaving
\* of down, up, kills and wake-ups.
SemaphoreConservation ==
  \A s \in 0 .. Len(sems) - 1 :
    LET sm == sems[s + 1] IN
    /\ Len(sm.queue) = IF sm.count < 0 THEN -sm.count ELSE 0
    /\ (IF sm.count > 0 THEN sm.count ELSE 0) + passed[s] + Cardinality(Granted(s))
       = semInit[s + 1] + ups[s]

\* A thread in the ready queue is eventually taken off it: the FIFO ready
\* queue of ThreadManager starves no thread, whatever the others call.
ReadyProgress == \A t \in Tids : Contains(ready, t) ~> ~Contains(ready, t)

\* spec.md 5: "Kill sets every thread of the process to Exited".  Once
\* handle_signals has reported ProcessKilled for P, no thread of P is alive.
KilledProcessExits == killedP => \A t \in Threads : ~Alive(t)

\* spec.md 9: a wake-up must walk past exited waiters rather than dispatch
\* them.  Every thread that joins the ready queue in a step is alive after it.
ReadyGainsOnlyLive ==
  [][\A t \in Tids : Occurrences(t, ready') > Occurrences(t, ready) => Alive(t)']_vars

\* spec.md 4.3: fork gives the child a thread whose registers mirror "the
\* parent's current thread", and exec replaces "the current thread's
\* register file".  No fork copies, and no exec replaces, the context of a
\* thread other than the one that made the call.
ForkExecUseCaller == ~ctxOp

=============================================================================
